----------------------------- MODULE SwUnitBench -----------------------------
(***************************************************************************)
(* testbench/verilator/SW/swunit_tb.cpp: ten little scenarios one after    *)
(* the other for the two reservation stations, each with a function that   *)
(* drives the inputs and one that checks the outputs, modelled under their *)
(* own names.  Addresses are offsets from 0x80000000.                      *)
(***************************************************************************)
EXTENDS SwUnit, Testbench

VALUE  == TRUE
RRFTAG == FALSE

(* What a dispatch port holds.                                             *)
dispatch(op_1_type, op_2_type, op_1, op_2, pc, write_rrf_tag) ==
  [tag |-> write_rrf_tag, ctl |-> [Bubble EXCEPT !.pc = pc, !.wr_reg = TRUE],
   op1 |-> op_1, valid1 |-> op_1_type, op2 |-> op_2, valid2 |-> op_2_type]

result(value, rrf_tag) == [result |-> value, rrf_tag |-> rrf_tag]

-----------------------------------------------------------------------------
(* The inputs of each scenario by the time they change.                    *)
single_alu_inst_issue_input ==
  50 :> [alu_num |-> 1, nextcyc |-> FALSE,
         port_1 |-> dispatch(VALUE, VALUE, 1, 2, 0, 0)]
  @@ 60 :> [alu_num |-> 0]

double_alu_inst_issue_input ==
  100 :> [alu_num |-> 2,
          port_1 |-> dispatch(VALUE, VALUE, 3, 4, 0, 5),
          port_2 |-> dispatch(VALUE, VALUE, 5, 6, 4, 6)]
  @@ 110 :> [alu_num |-> 0]

triple_alu_inst_issue_input ==
  200 :> [alu_num |-> 2,
          port_1 |-> dispatch(VALUE, RRFTAG, 7, 1, 8, 5),
          port_2 |-> dispatch(VALUE, RRFTAG, 8, 1, 12, 6)]
  @@ 210 :> [alu_num |-> 1, port_1 |-> dispatch(VALUE, VALUE, 9, 10, 8, 7)]
  @@ 220 :> [alu_num |-> 0, bus_1 |-> result(11, 1)]
  @@ 250 :> [bus_1 |-> IdleBus]

oldest_alu_inst_issue_input ==
  300 :> [alu_num |-> 2,
          port_1 |-> dispatch(VALUE, RRFTAG, 7, 1, 8, 5),
          port_2 |-> dispatch(VALUE, RRFTAG, 8, 1, 12, 6)]
  @@ 310 :> [alu_num |-> 1, port_1 |-> dispatch(VALUE, VALUE, 9, 10, 8, 7),
             bus_1 |-> result(11, 1)]
  @@ 320 :> [alu_num |-> 0]
  @@ 350 :> [bus_1 |-> IdleBus]

(* Eight instructions fill the station; operand and tag are k.             *)
Pair(k) == [alu_num |-> 2,
            port_1 |-> dispatch(VALUE, RRFTAG, k, k, 8, k),
            port_2 |-> dispatch(VALUE, RRFTAG, k + 1, k + 1, 12, k + 1)]

full_alu_inst_issue_input ==
  400 :> Pair(1) @@ 410 :> Pair(3) @@ 420 :> Pair(5) @@ 430 :> Pair(7)
  @@ 440 :> [alu_num |-> 2, bus_1 |-> result(10, 1), bus_2 |-> result(20, 2),
             bus_3 |-> result(30, 3), bus_4 |-> result(40, 4)]
  @@ 450 :> [alu_num |-> 0, bus_1 |-> result(50, 5), bus_2 |-> result(60, 6),
             bus_3 |-> result(70, 7), bus_4 |-> result(80, 8)]
  @@ 520 :> [alu_num |-> 0]

single_mem_inst_issue_input ==
  600 :> [nextcyc |-> FALSE, mem_num |-> 1,
          port_1 |-> dispatch(VALUE, VALUE, 1, 2, 0, 0)]
  @@ 610 :> [mem_num |-> 1, port_1 |-> dispatch(VALUE, VALUE, 3, 4, 4, 0)]
  @@ 620 :> [mem_num |-> 0]

double_mem_inst_issue_input ==
  700 :> [mem_num |-> 2,
          port_1 |-> dispatch(VALUE, VALUE, 5, 6, 0, 0),
          port_2 |-> dispatch(VALUE, VALUE, 7, 8, 4, 0)]
  @@ 710 :> [port_1 |-> dispatch(VALUE, VALUE, 9, 10, 8, 0),
             port_2 |-> dispatch(VALUE, VALUE, 11, 12, 12, 0)]
  @@ 720 :> [mem_num |-> 0]

single_mem_inst_block_issue_input ==
  800 :> [mem_num |-> 1, port_1 |-> dispatch(VALUE, RRFTAG, 13, 1, 0, 0)]
  @@ 810 :> [mem_num |-> 1, port_1 |-> dispatch(VALUE, VALUE, 15, 16, 4, 0),
             bus_1 |-> result(14, 1)]
  @@ 820 :> [mem_num |-> 0, bus_1 |-> IdleBus]

double_mem_inst_block_issue_input ==
  900 :> [mem_num |-> 2,
          port_1 |-> dispatch(VALUE, RRFTAG, 17, 1, 0, 0),
          port_2 |-> dispatch(VALUE, VALUE, 19, 20, 4, 0)]
  @@ 910 :> [mem_num |-> 0]
  @@ 920 :> [bus_1 |-> result(18, 1)]
  @@ 940 :> [bus_1 |-> IdleBus]

(* The third pair finds the station full.                                  *)
full_mem_inst_issue_input ==
  1000 :> [mem_num |-> 2,
           port_1 |-> dispatch(VALUE, RRFTAG, 21, 1, 0, 0),
           port_2 |-> dispatch(VALUE, RRFTAG, 23, 2, 4, 0)]
  @@ 1010 :> [mem_num |-> 2,
              port_1 |-> dispatch(VALUE, RRFTAG, 25, 3, 8, 0),
              port_2 |-> dispatch(VALUE, RRFTAG, 27, 4, 12, 0)]
  @@ 1020 :> [mem_num |-> 2,
              port_1 |-> dispatch(VALUE, RRFTAG, 29, 5, 16, 0),
              port_2 |-> dispatch(VALUE, RRFTAG, 31, 6, 20, 0)]
  @@ 1030 :> [mem_num |-> 0, bus_1 |-> result(22, 1), bus_2 |-> result(24, 2),
              bus_3 |-> result(26, 3), bus_4 |-> result(28, 4)]

SwUnitInput ==
  single_alu_inst_issue_input @@ double_alu_inst_issue_input
  @@ triple_alu_inst_issue_input @@ oldest_alu_inst_issue_input
  @@ full_alu_inst_issue_input @@ single_mem_inst_issue_input
  @@ double_mem_inst_issue_input @@ single_mem_inst_block_issue_input
  @@ double_mem_inst_block_issue_input @@ full_mem_inst_issue_input

SwUnitIdle ==
  LET empty == [dispatch(RRFTAG, RRFTAG, 0, 0, 0, 0) EXCEPT !.ctl = Bubble]
  IN [nextcyc |-> TRUE, alu_num |-> 0, mem_num |-> 0,
      port_1 |-> empty, port_2 |-> empty,
      bus_1 |-> IdleBus, bus_2 |-> IdleBus, bus_3 |-> IdleBus,
      bus_4 |-> IdleBus, bus_5 |-> IdleBus]

SwUnitBegin == SwInit /\ Begin("swunit", 50, SwUnitIdle, SwUnitInput)

Buses == <<ports.bus_1, ports.bus_2, ports.bus_3, ports.bus_4, ports.bus_5>>

(* The bit outside the busy vector is never looked at in these scenarios.  *)
SwUnitStep ==
  /\ Tick("swunit", 1080, SwUnitInput)
  /\ SwClock(<<ports.port_1, ports.port_2>>, ports.alu_num, ports.mem_num,
             FALSE, ports.nextcyc, FALSE, Buses)

-----------------------------------------------------------------------------
(* The outputs.                                                            *)
AluOps(op_1, op_2) == Issued(Buses).op1 = op_1 /\ Issued(Buses).op2 = op_2
MemOps(op_1, op_2) == MemIssued(Buses).op1 = op_1 /\ MemIssued(Buses).op2 = op_2
Valid(port, valid_1, valid_2) == port.valid1 = valid_1 /\ port.valid2 = valid_2
ReadyEntries == {e \in Entries : Ready(e)}

single_alu_inst_issue_test ==
  At(60) => /\ Min(FreeEntries) = 1
            /\ Valid(ports.port_1, TRUE, TRUE) /\ AluOps(1, 2)

double_alu_inst_issue_test ==
  /\ At(110) => /\ Valid(ports.port_1, TRUE, TRUE)
                /\ Valid(ports.port_2, TRUE, TRUE)
                /\ ReadyEntries = {0, 1} /\ AluOps(3, 4)
  /\ At(120) => AluOps(5, 6)

(* A later instruction with its operands overtakes two that wait.          *)
triple_alu_inst_issue_test ==
  /\ At(200) => /\ Valid(ports.port_1, TRUE, FALSE)
                /\ Valid(ports.port_2, TRUE, FALSE) /\ ~Issue
  /\ At(220) => ReadyEntries = {2} /\ AluOps(9, 10)
  /\ At(230) => AluOps(7, 11)
  /\ At(240) => AluOps(8, 11)

(* With all three ready the order is that of the program.                  *)
oldest_alu_inst_issue_test ==
  /\ At(300) => /\ Valid(ports.port_1, TRUE, FALSE)
                /\ Valid(ports.port_2, TRUE, FALSE) /\ ~Issue
  /\ At(320) => ReadyEntries = {0, 1, 2} /\ AluOps(7, 11)
  /\ At(330) => AluOps(8, 11)
  /\ At(340) => AluOps(9, 10)

full_alu_inst_issue_test ==
  \A k \in 1..8 : At(440 + 10 * k) => AluOps(k, 10 * k)

single_mem_inst_issue_test ==
  /\ At(610) => MemOps(1, 2) /\ MemIssued(Buses).ctl.pc = 0
  /\ At(620) => MemOps(3, 4) /\ MemIssued(Buses).ctl.pc = 4

double_mem_inst_issue_test ==
  /\ At(710) => MemOps(5, 6)
  /\ At(720) => MemOps(7, 8)
  /\ At(730) => MemOps(9, 10)
  /\ At(740) => MemOps(11, 12)

single_mem_inst_block_issue_test ==
  /\ At(810) => ~MemIssue
  /\ At(820) => MemOps(13, 14)
  /\ At(830) => MemOps(15, 16)

(* An access that has its operands waits for the one before it.            *)
double_mem_inst_block_issue_test ==
  /\ At(910) => ~MemIssue
  /\ At(920) => ~MemIssue
  /\ At(930) => MemIssue /\ MemOps(17, 18)
  /\ At(940) => MemIssue /\ MemOps(19, 20)

full_mem_inst_issue_test ==
  /\ At(1010) => ~MemIssue /\ MemAllocatable(ports.mem_num, FALSE)
  /\ At(1020) => ~MemIssue
  /\ At(1030) => ~MemIssue
  /\ \A k \in 0..3 : At(1040 + 10 * k) =>
       MemIssue /\ MemOps(21 + 2 * k, 22 + 2 * k)

(* verify_dut: both stations issue what the scenarios say on the edges     *)
(* they say: pairs in one cycle, results before, on and behind the edge of *)
(* the write, four results at once, and both stations filled to the last   *)
(* entry.                                                                  *)
SwUnitBenchPasses ==
  bench = "swunit" =>
    /\ single_alu_inst_issue_test /\ double_alu_inst_issue_test
    /\ triple_alu_inst_issue_test /\ oldest_alu_inst_issue_test
    /\ full_alu_inst_issue_test /\ single_mem_inst_issue_test
    /\ double_mem_inst_issue_test /\ single_mem_inst_block_issue_test
    /\ double_mem_inst_block_issue_test /\ full_mem_inst_issue_test
=============================================================================
