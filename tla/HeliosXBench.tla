----------------------------- MODULE HeliosXBench -----------------------------
(***************************************************************************)
(* testbench/verilator/heliosx_tb.cpp: the core with its fetch stage and a *)
(* program of six instructions in memory, and what the bench expects of it *)
(* cycle by cycle.  A test function is the conjunction of its branches;    *)
(* each branch is an operator named after the function and the time.       *)
(* Addresses are offsets from the entry point, 0x80000000.                 *)
(***************************************************************************)
EXTENDS HeliosX, Fetch, Testbench

VARIABLE debug    \* the debug outputs: the last commit, one cycle late

benchCoreVars == <<coreVars, fetchVars, debug>>

(* Registers by the names the bench uses.                                  *)
s0 == 8
a0 == 10
a2 == 12
a4 == 14
a5 == 15

-----------------------------------------------------------------------------
(* The program; an immediate's low bits stand in the rs2 field.            *)
addi(rd, imm, low) ==
  Decode([opcode |-> "OP_IMM", rd |-> rd, rs1 |-> 0, rs2 |-> low,
          imm |-> imm, pc |-> 0, fn |-> "ADD"])
add(rd, rs1, rs2) ==
  Decode([opcode |-> "OP", rd |-> rd, rs1 |-> rs1, rs2 |-> rs2,
          imm |-> 0, pc |-> 0, fn |-> "ADD"])

img == (0 :> addi(s0, 0, 0)) @@ (4 :> addi(a2, 1859, 3))
         @@ (8 :> add(s0, a2, s0)) @@ (12 :> addi(a4, 929, 1))
         @@ (16 :> addi(a5, 22, 22)) @@ (20 :> add(a0, a4, a5))

(* The bench takes the reset away at 90 and answers the fetch from then    *)
(* on.  The registers hold anything at power-up, here some value.          *)
HeliosXBegin ==
  /\ Begin("heliosx", 90, <<>>, 90 :> <<>>)
  /\ \E w \in Data : arf_data = [r \in Regs |-> w]
  /\ CoreInit /\ FetchInit
  /\ debug = [pc |-> 0, reg_id |-> 0, wdata |-> 0, wen |-> FALSE]

DebugClock ==
  debug' = [pc |-> insn[commit_ptr_1].pc, reg_id |-> dst[commit_ptr_1],
            wdata |-> rrf_data[commit_ptr_1], wen |-> arfwe_1]

(* One period; the bench checks nothing after 245.                         *)
HeliosXStep ==
  /\ Tick("heliosx", 250, <<>>)
  /\ Cycle(Decoded)
  /\ FetchClock(StallDP(commit_1))
  /\ DebugClock

-----------------------------------------------------------------------------
(* What the bench asks of the units, again and again.  The operand         *)
(* selections stand for the immediate type and the two use bits.           *)
Renamed(pc_sw, tag, rd, free) ==
  /\ dp.ctl.pc = pc_sw /\ dp.alloc /\ dp.tag = tag
  /\ dp.ctl.wr_reg /\ dp.ctl.rd = rd /\ arf_rrftag[rd] = tag
  /\ freenum = free /\ rrfptr = tag + 1 /\ ~nextrrfcyc_reg
  /\ Len(RsRequest) = 1

First(src, rdy)  == dp.src1 = src /\ dp.rdy1 = rdy
Second(src, rdy) == dp.src2 = src /\ dp.rdy2 = rdy

(* A result on its way to the RRF, where it is not yet.                    *)
Forwarded(tag, result) ==
  /\ ~rrf_valid[tag] /\ alu_latch.rrf_we
  /\ alu_latch.rrf_tag = tag /\ alu_latch.result = result

(* A finished instruction commits in this cycle; its register is busy for  *)
(* one more.                                                               *)
Commits(tag, rd, value) ==
  /\ rrf_valid[tag] /\ rrf_data[tag] = value
  /\ commit_1 /\ commit_ptr_1 = tag /\ arfwe_1 /\ dst[commit_ptr_1] = rd
  /\ arf_busy[rd]

Committed(pc_com, rd, value) ==
  /\ arf_data[rd] = value
  /\ debug = [pc |-> pc_com, reg_id |-> rd, wdata |-> value, wen |-> TRUE]

Executed(tag, result) ==
  alu_latch = [result |-> result, rrf_tag |-> tag,
               rob_we |-> TRUE, rrf_we |-> TRUE]

Selected == Issued(ResultBuses)

-----------------------------------------------------------------------------
(* The word in the fetch stage, the control word in the ID/DP register.    *)
fetch_test ==
  /\ At(115) => inst_o = img[0]
  /\ At(125) => inst_o = img[4]
  /\ At(135) => inst_o = img[8]

decode_125 == id.imm = 0 /\ id.src_a = "RS1" /\ id.rs1 = 0 /\ id.src_b = "IMM"
decode_135 == id.imm = 1859 /\ id.src_a = "RS1" /\ id.rs1 = 0 /\ id.src_b = "IMM"
decode_145 == /\ id.alu_op = "ADD"
              /\ id.src_a = "RS1" /\ id.rs1 = a2 /\ id.src_b = "RS2" /\ id.rs2 = s0

decode_test ==
  /\ At(125) => decode_125
  /\ At(135) => decode_135
  /\ At(145) => decode_145

-----------------------------------------------------------------------------
(* One instruction after the other is renamed; from 155 on the results of  *)
(* the first ones come back on the same edges, and from 165 on they        *)
(* commit.  s0 is written twice: its first writer must leave it busy.      *)
dispatch_135 ==
  /\ dp.ctl.rs1 = 0 /\ Renamed(0, 1, s0, 62) /\ arf_busy[s0]
  /\ First(0, TRUE) /\ dp.rdy2 /\ dp.ctl.imm = 0

dispatch_145 ==
  /\ dp.ctl.rs1 = 0 /\ Renamed(4, 2, a2, 61) /\ arf_busy[a2]
  /\ First(0, TRUE) /\ Second(arf_data[dp.ctl.rs2], TRUE) /\ dp.ctl.imm = 1859

dispatch_155 ==
  /\ Forwarded(1, 0)
  /\ dp.ctl.rs1 = a2 /\ dp.ctl.rs2 = s0 /\ Renamed(8, 3, s0, 60) /\ arf_busy[s0]
  /\ First(2, FALSE) /\ Second(1, FALSE)

dispatch_165 ==
  /\ Commits(1, s0, 0) /\ Forwarded(2, 1859)
  /\ dp.ctl.rs1 = 0 /\ Renamed(12, 4, a4, 59) /\ First(0, TRUE)

dispatch_175 ==
  /\ Committed(0, s0, 0) /\ arf_busy[s0]
  /\ Commits(2, a2, 1859) /\ ~rrf_valid[3] /\ ~alu_latch.rrf_we
  /\ dp.ctl.rs1 = 0 /\ Renamed(16, 5, a5, 59) /\ First(0, TRUE)

dispatch_185 ==
  /\ Committed(4, a2, 1859) /\ ~arf_busy[a2] /\ Forwarded(3, 1859)
  /\ dp.ctl.rs1 = a4 /\ dp.ctl.rs2 = a5 /\ Renamed(20, 6, a0, 59)
  /\ First(4, FALSE) /\ Second(5, FALSE)

dispatch_195 ==
  Commits(3, s0, 1859) /\ Forwarded(4, 929) /\ dp.alloc /\ freenum = 59

dispatch_205 ==
  /\ Committed(8, s0, 1859) /\ ~arf_busy[s0]
  /\ Commits(4, a4, 929) /\ Forwarded(5, 22)

dispatch_215 == Committed(12, a4, 929) /\ ~arf_busy[a4] /\ Commits(5, a5, 22)
dispatch_225 == Committed(16, a5, 22) /\ ~arf_busy[a5] /\ Forwarded(6, 951)
dispatch_235 == Commits(6, a0, 951)
dispatch_245 == Committed(20, a0, 951) /\ ~arf_busy[a0]

dispatch_test ==
  /\ At(135) => dispatch_135
  /\ At(145) => dispatch_145
  /\ At(155) => dispatch_155
  /\ At(165) => dispatch_165
  /\ At(175) => dispatch_175
  /\ At(185) => dispatch_185
  /\ At(195) => dispatch_195
  /\ At(205) => dispatch_205
  /\ At(215) => dispatch_215
  /\ At(225) => dispatch_225
  /\ At(235) => dispatch_235
  /\ At(245) => dispatch_245

-----------------------------------------------------------------------------
(* The entry the station selects, the result latch one cycle later, and    *)
(* the commit.                                                             *)
wakeup_test ==
  /\ At(135) => Len(RsRequest) = 1
  /\ At(145) => /\ Selected.ctl.pc = 0 /\ Selected.op1 = 0
                /\ Selected.op2 = 0 /\ Selected.ctl.imm = 0
  /\ At(155) => Selected.ctl.pc = 4 /\ Selected.ctl.imm = 1859
  /\ At(175) => /\ Selected.ctl.pc = 8
                /\ Selected.op1 = 1859 /\ Selected.op2 = 0
  /\ At(185) => Selected.ctl.pc = 12 /\ Selected.ctl.imm = 929
  /\ At(195) => Selected.ctl.pc = 16 /\ Selected.ctl.imm = 22
  /\ At(215) => Selected.ctl.pc = 20

execute_test ==
  /\ At(155) => Executed(1, 0)
  /\ At(165) => Executed(2, 1859)
  /\ At(185) => Executed(3, 0 + 1859)
  /\ At(195) => Executed(4, 929)
  /\ At(205) => Executed(5, 22)
  /\ At(225) => Executed(6, 929 + 22)

AtHead(ptr, rd) == commit_ptr_1 = ptr /\ dst[commit_ptr_1] = rd

commit_test ==
  /\ At(165) => AtHead(1, s0)
  /\ At(175) => AtHead(2, a2)
  /\ At(195) => AtHead(3, s0)
  /\ At(205) => AtHead(4, a4)
  /\ At(215) => AtHead(5, a5)
  /\ At(235) => AtHead(6, a0)

(* verify_dut: the core executes the bench's program on the schedule the   *)
(* bench writes down, forwarding, renaming and committing on the very      *)
(* edges it names, whatever the registers held at power-up.                *)
HeliosXBenchPasses ==
  bench = "heliosx" =>
    /\ fetch_test /\ decode_test /\ dispatch_test
    /\ wakeup_test /\ execute_test /\ commit_test
=============================================================================
