----------------------------- MODULE StageBench -----------------------------
(***************************************************************************)
(* testbench/verilator: the benches of single units of the front half of   *)
(* the core: IF/ifunit_tb.cpp, ID/idunit_tb.cpp, DP/arf_tb.cpp,            *)
(* DP/rrfentry_allocate_tb.cpp and ROB/SingleInstROB_tb.cpp, each with the *)
(* registers of its unit alone.                                            *)
(***************************************************************************)
EXTENDS ReNameUnit, SingleInstROB, IFUnit, Testbench

(* Fetch: three words that are told apart by a field.                      *)
Fetched(word) == [idata |-> [Bubble EXCEPT !.imm = word]]

IfInput == 50 :> Fetched(1) @@ 60 :> Fetched(2) @@ 70 :> Fetched(3)

IfBenchBegin == IfInit /\ Begin("ifunit", 50, <<>>, IfInput)

IfBenchStep ==
  Tick("ifunit", 90, IfInput) /\ IfClock(ports.idata, FALSE, FALSE)

IfBenchVerify ==
  \A k \in 1..3 : At(50 + 10 * k) => inst_o = Fetched(k).idata

-----------------------------------------------------------------------------
(* Decode: lui t0, jal ra, lw a7 and sw a5; the immediates are left out.   *)
inst(opcode, rd, rs1, rs2) ==
  [inst1 |-> [opcode |-> opcode, rd |-> rd, rs1 |-> rs1, rs2 |-> rs2,
              imm |-> 0, pc |-> 0, fn |-> "ADD"]]

IdInput == 50 :> inst("LUI", 5, 0, 0) @@ 60 :> inst("JAL", 1, 0, 20)
           @@ 70 :> inst("LOAD", 17, 16, 0) @@ 80 :> inst("STORE", 0, 16, 15)

IdBenchBegin == id = Bubble /\ Begin("idunit", 50, <<>>, IdInput)

IdBenchStep == Tick("idunit", 100, IdInput) /\ id' = Decode(ports.inst1)

Selects(src_a, src_b, wr_reg_1, rs_ent_1) ==
  /\ id.src_a = src_a /\ id.src_b = src_b /\ id.alu_op = "ADD"
  /\ id.wr_reg = wr_reg_1 /\ id.rs_ent = rs_ent_1

IdBenchVerify ==
  /\ At(60) => /\ Selects("ZERO", "IMM", TRUE, "ALU")
               /\ id.rs1 = 0 /\ id.rs2 = 0 /\ id.rd = 5
  /\ At(70) => Selects("PC", "FOUR", TRUE, "BRANCH") /\ id.rd = 1
  /\ At(80) => /\ Selects("RS1", "IMM", TRUE, "LDST")
               /\ id.rs1 = 16 /\ id.rd = 17
  /\ At(90) => /\ Selects("RS1", "IMM", FALSE, "LDST")
               /\ id.rs1 = 16 /\ id.rs2 = 15

-----------------------------------------------------------------------------
(* Rename table: a register and a tag the bench draws at random.           *)
ArfInput(rd, tag) ==
  10 :> [rename |-> [en |-> TRUE, rd |-> rd, tag |-> tag]]
  @@ 20 :> [rs1 |-> rd]
  @@ 30 :> [commit |-> [we |-> TRUE, dst |-> rd, tag |-> tag, data |-> 13]]

ArfIdle == [rs1 |-> 0, rename |-> [en |-> FALSE, rd |-> 0, tag |-> 0],
            commit |-> [we |-> FALSE, dst |-> 0, tag |-> 0, data |-> 0]]

ArfBenchBegin ==
  /\ ArfInit
  /\ \E rd \in Regs, tag \in TagIndex :
       Begin("arf", 10, ArfIdle, ArfInput(rd, tag))

ArfBenchStep ==
  /\ Tick("arf", 60, ArfInput(ports.rename.rd, ports.rename.tag))
  /\ ArfClock(ports.commit, ports.rename)

(* The register is busy again after its commit: the bench goes on renaming.*)
ArfBenchVerify ==
  /\ At(30) => arf_rrftag[ports.rs1] = ports.rename.tag /\ arf_busy[ports.rs1]
  /\ At(50) => arf_data[ports.rs1] = 13

-----------------------------------------------------------------------------
(* Allocator: a stalled request, two served, a commit in a stall and one   *)
(* more request.                                                           *)
AllocInput ==
  30 :> [stall_dp |-> TRUE, req_en |-> TRUE]
  @@ 70 :> [stall_dp |-> FALSE]
  @@ 90 :> [stall_dp |-> TRUE, com_inst_num |-> TRUE]
  @@ 100 :> [stall_dp |-> FALSE, com_inst_num |-> FALSE]

AllocIdle == [stall_dp |-> FALSE, req_en |-> FALSE, com_inst_num |-> FALSE]

AllocBenchBegin ==
  AllocInit /\ Begin("rrfentry_allocate", 10, AllocIdle, 10 :> <<>> @@ AllocInput)

AllocBenchStep ==
  /\ Tick("rrfentry_allocate", 120, AllocInput)
  /\ AllocClock(ports.req_en, ports.com_inst_num, ports.stall_dp)

(* The pointer and the number of free tags, of 63, at each time.           *)
AllocBenchVerify ==
  /\ At(10) => RrfAllocatable(ports.req_en, ports.com_inst_num) /\ ~nextrrfcyc
  /\ \A t \in {10, 30, 40} : At(t) => rrfptr = 1 /\ freenum = 63
  /\ At(80)  => rrfptr = 2 /\ freenum = 62
  /\ At(90)  => rrfptr = 3 /\ freenum = 61
  /\ At(100) => rrfptr = 3 /\ freenum = 62
  /\ At(110) => rrfptr = 4 /\ freenum = 61

-----------------------------------------------------------------------------
(* Reorder buffer: five instructions, of which the first two finish.  The  *)
(* bench dispatches nothing while the reset lasts.                         *)
Dispatched(tag, rd) ==
  [dp1 |-> [alloc |-> TRUE, tag |-> tag, dst_en |-> TRUE, rd |-> rd]]
Finished(tag) == [finish_ex_alu1 |-> [rob_we |-> TRUE, rrf_tag |-> tag]]

RobInput ==
  30 :> Dispatched(1, 8) @@ 40 :> Dispatched(2, 12)
  @@ 50 :> (Dispatched(3, 8) @@ Finished(1))
  @@ 60 :> (Dispatched(4, 13) @@ Finished(2))
  @@ 70 :> Dispatched(5, 14)

RobIdle ==
  [dp1 |-> [alloc |-> FALSE, tag |-> 0, dst_en |-> FALSE, rd |-> 0],
   finish_ex_alu1 |-> [rob_we |-> FALSE, rrf_tag |-> 0]]

RobBenchBegin ==
  /\ RobInit /\ valid = [t \in TagIndex |-> FALSE]
  /\ Begin("SingleInstROB", 10, RobIdle, 10 :> <<>> @@ RobInput)

RobBenchStep ==
  /\ Tick("SingleInstROB", 100, RobInput)
  /\ RobClock(ports.dp1, ports.finish_ex_alu1)

Retiring(tag, rd) ==
  arfwe_1 /\ commit_1 /\ commit_ptr_1 = tag /\ dst[commit_ptr_1] = rd

RobBenchVerify ==
  /\ At(65) => Retiring(1, 8)
  /\ At(75) => Retiring(2, 12)

-----------------------------------------------------------------------------
(* verify_dut of the five benches: each unit alone answers on the edges    *)
(* its bench says, with a request that was stalled, a commit in a stall, a *)
(* register renamed and committed for every register and tag, and two      *)
(* instructions that finish on the edges of the next dispatches.           *)
StageBenchPasses ==
  /\ bench = "ifunit" => IfBenchVerify
  /\ bench = "idunit" => IdBenchVerify
  /\ bench = "arf" => ArfBenchVerify
  /\ bench = "rrfentry_allocate" => AllocBenchVerify
  /\ bench = "SingleInstROB" => RobBenchVerify
=============================================================================
