------------------------------- MODULE HeliosX -------------------------------
(***************************************************************************)
(* rtl/HeliosX.v: the core, from the ID/DP register to the commit, cycle   *)
(* by cycle: the dispatch stage and the reorder buffer of RenameCommit,    *)
(* with the ALU reservation station and the ALU that HeliosX.v puts        *)
(* between them in the place of RenameCommit's environment.  Everything is *)
(* deterministic but the instruction stream.                               *)
(***************************************************************************)
EXTENDS RenameCommit, RSAlu, ExUnit

VARIABLE
  insn    \* history, for the properties only: the instruction of each tag

coreVars == <<vars, rsVars, alu_latch, insn>>

-----------------------------------------------------------------------------
(* The DP/SW register as the station's write port.                         *)
RsPort == [tag |-> dp.tag, ctl |-> dp.ctl, op1 |-> dp.src1, valid1 |-> dp.rdy1,
           op2 |-> dp.src2, valid2 |-> dp.rdy2]

RsRequest == IF dp.ctl.rs_ent = "ALU" THEN <<RsPort>> ELSE <<>>

(* The result buses of the station: the ALU's, and four constant ones.     *)
ResultBuses == <<alu_latch, IdleBus>>

(* One rising clock edge of the whole core.                                *)
Cycle(next) ==
  /\ Clock(next, alu_latch)
  /\ RsClock(RsRequest, StallDP(commit_1), nextrrfcyc_reg, ResultBuses)
  /\ ExClock(Issue, Issued(ResultBuses))
  /\ insn' = [t \in Tags |->
       IF t = rrfptr /\ id.wr_reg /\ ~StallDP(commit_1) THEN id
       ELSE IF t = commit_ptr_1 /\ commit_1 THEN Bubble ELSE insn[t]]

CoreInit ==
  /\ Init /\ RsInit /\ ExInit
  /\ insn = [t \in Tags |-> Bubble]

(* Back-pressure of the station.  HeliosX.v has none: the wire stall_IF_2  *)
(* is commented out.  The stream is therefore described by how many        *)
(* entries it is guaranteed to leave unused (Spare); the instructions on   *)
(* their way to the station are counted with the occupied entries.         *)
Occupied == Cardinality({e \in Entries : busy'[e]})

Paced(next, spare) ==
  next.rs_ent = "ALU" =>
    Occupied + Bit(dp'.ctl.rs_ent = "ALU") + 1 + spare <= NumEntries

CoreNext(spare) == \E next \in Fetchable : Cycle(next) /\ Paced(next, spare)

(* A stream that never uses the last entry, one that may fill the station  *)
(* exactly, and any stream.                                                *)
SpareSpec == CoreInit /\ [][CoreNext(1)]_coreVars
FullSpec  == CoreInit /\ [][CoreNext(0)]_coreVars
AnySpec   == CoreInit /\ [][\E next \in Fetchable : Cycle(next)]_coreVars

(* The clock never stops.                                                  *)
ClockRuns == WF_coreVars(CoreNext(1))

-----------------------------------------------------------------------------
CoreTypeOK == TypeOK /\ RsTypeOK /\ ExTypeOK /\ insn \in [Tags -> Control]

(* Where an unfinished instruction can be: in the DP/SW register, in an    *)
(* entry of the station, or in the latch of the ALU.                       *)
Places(t) == (IF InLatch(t) THEN {"latch"} ELSE {})
  \cup {e \in Entries : busy[e] /\ entry[e].tag = t}
  \cup (IF alu_latch.rob_we /\ alu_latch.rrf_tag = t THEN {"alu"} ELSE {})

(* No instruction is lost on its way to the ALU and none is there twice: a *)
(* lost one never commits and blocks every later one, a duplicate would    *)
(* finish a tag that already has its next owner.                           *)
ExactlyOnce ==
  \A t \in Tags :
    Cardinality(Places(t)) =
      IF InFlight(t) /\ (InLatch(t) \/ ~finish[t]) THEN 1 ELSE 0

(* Of the ready instructions the station issues the oldest in program      *)
(* order, although it compares tags that wrap around and a bit per entry   *)
(* that it clears one cycle after the wrap.                                *)
OldestFirst ==
  Issue => \A e \in Entries : Ready(e) =>
             Offset(entry[IssueEntry].tag) <= Offset(entry[e].tag)

(* A waiting operand becomes ready only by the result it waits for, in an  *)
(* entry of the station or on its way from the DP/SW register into one,    *)
(* although the ALU puts a tag on the result bus on every cycle, whether   *)
(* it executed an instruction or not.                                      *)
WokenBy(op, ready, next_op, next_ready) ==
  ~ready /\ next_ready => finish'[op] /\ next_op = rrf_data'[op]

WokenByResult ==
  [][\A e \in Entries : busy'[e] =>
       LET was == IF busy[e] THEN entry[e] ELSE RsPort
           is  == entry'[e]
       IN /\ WokenBy(was.op1, was.valid1, is.op1, is.valid1)
          /\ WokenBy(was.op2, was.valid2, is.op2, is.valid2)]_coreVars

(* How far an instruction in flight is from its result: DP/SW register,    *)
(* station, latch of the ALU, done.                                        *)
StagesLeft(t) ==
  IF InLatch(t) THEN 3
  ELSE IF \E e \in Entries : busy[e] /\ entry[e].tag = t THEN 2
  ELSE Bit(alu_latch.rob_we /\ alu_latch.rrf_tag = t)

(* The oldest instruction never waits: the instructions it took operands   *)
(* from have committed, so none of its operands is missing, the station    *)
(* has room for it and prefers it to all others.  On every clock edge it   *)
(* commits or moves one stage on, and commits on the fourth at the latest. *)
HeadAdvances ==
  [][InUse > 0 =>
       \/ StagesLeft(commit_ptr_1) = 0 /\ commit_1
       \/ /\ ~commit_1 /\ commit_ptr_1' = commit_ptr_1
          /\ StagesLeft(commit_ptr_1)' = StagesLeft(commit_ptr_1) - 1]_coreVars

(* No deadlock: while an instruction is in flight there is a clock edge    *)
(* that changes the core, with whatever the stream may bring.              *)
EdgePossible == InUse > 0 => ENABLED <<CoreNext(1)>>_coreVars

(* As long as an instruction is in flight, the oldest one commits in the   *)
(* end, with nothing assumed but a running clock: no wakeup is missed, no  *)
(* instruction forgotten, and the ring never blocks.  Commits move the     *)
(* head by one, so every instruction that gets a tag commits.              *)
HeadCommits == InUse > 0 ~> commit_1

(* The core is a RenameCommit whose allocator never runs dry: the size of  *)
(* the station bounds the instructions in flight, so what is proved and    *)
(* checked of PacedSpec holds of the core.                                 *)
ImplementsRenameCommit == PacedSpec

(* The core executes the program: out of order inside, one instruction     *)
(* after the other for the registers.                                      *)
Sequential == INSTANCE SequentialMachine WITH
  regs <- arf_data, pending <- [k \in 1..InUse |-> insn[TagAt(k)]]

ImplementsSequentialMachine == Sequential!Spec
=============================================================================
