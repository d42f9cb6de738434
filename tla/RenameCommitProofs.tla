------------------------- MODULE RenameCommitProofs -------------------------
(***************************************************************************)
(* Proofs about RenameCommit for every number of tags and registers, every *)
(* program and every result function.                                      *)
(***************************************************************************)
EXTENDS RenameCommit, TLAPS

USE NumTagsAssumption, NumRegsAssumption, DataAssumption

-----------------------------------------------------------------------------
(* What a result bus can carry, and when the environment may drive it.     *)
Exe == [result: Data, rrf_tag: TagIndex, rob_we: BOOLEAN, rrf_we: BOOLEAN]

Legal(exe) ==
  /\ exe.rrf_we = exe.rob_we
  /\ exe.rob_we => Executing(exe.rrf_tag)

(* Every decoded instruction is a control word.                            *)
LEMMA FetchableIsControl == Fetchable \subseteq Control
<1>1. Bubble \in Control
  BY FnAssumption DEF Bubble, Control, Regs
<1>2. ASSUME NEW i \in Program PROVE Decode(i) \in Control
  <2>1. i \in Instruction
    BY ProgramAssumption
  <2>2. wr_reg(i) \in BOOLEAN
    BY DEF wr_reg
  <2>3. rs_ent(i) \in {"ALU", "BRANCH", "LDST", "none"}
    BY <2>1 DEF rs_ent
  <2>4. src_a_sel(i) \in {"RS1", "PC", "ZERO"}
    BY <2>1 DEF src_a_sel
  <2>5. src_b_sel(i) \in {"RS2", "IMM", "FOUR"}
    BY <2>1 DEF src_b_sel
  <2>6. alu_op(i) \in Fn
    BY <2>1, FnAssumption DEF alu_op, Instruction
  <2> QED
    BY <2>1, <2>2, <2>3, <2>4, <2>5, <2>6 DEF Decode, Control, Instruction
<1> QED
  BY <1>1, <1>2 DEF Fetchable

(* Both kinds of clock edge are one: the bus carries a legal result.       *)
LEMMA NextIsClock ==
  ASSUME Next
  PROVE  \E next \in Control, exe \in Exe : Legal(exe) /\ Clock(next, exe)
<1>1. PICK next \in Fetchable :
        \/ CycleIdle(next)
        \/ \E t \in Tags, d \in Data : CycleFinish(next, t, d)
  BY DEF Next
<1>2. next \in Control
  BY FetchableIsControl
<1>3. CASE CycleIdle(next)
  <2>1. NoResult \in Exe /\ Legal(NoResult)
    BY DEF NoResult, Exe, Legal, TagIndex
  <2> QED
    BY <1>2, <1>3, <2>1 DEF CycleIdle
<1>4. CASE \E t \in Tags, d \in Data : CycleFinish(next, t, d)
  <2>1. PICK t \in Tags, d \in Data : CycleFinish(next, t, d)
    BY <1>4
  <2>2. Result(t, d) \in Exe /\ Legal(Result(t, d))
    BY <2>1 DEF Result, Exe, Legal, CycleFinish, Tags, TagIndex
  <2> QED
    BY <1>2, <2>1, <2>2 DEF CycleFinish
<1> QED
  BY <1>1, <1>3, <1>4

-----------------------------------------------------------------------------
(* The ring, as arithmetic.                                                *)

(* A tag is in flight exactly from the commit pointer up to the allocation *)
(* pointer, which itself is in flight only when the ring is full.          *)
LEMMA FullRing ==
  ASSUME AllocTypeOK, RobTypeOK, TagRing
  PROVE  /\ InFlight(rrfptr) <=> freenum = 0
         /\ freenum = 0 => rrfptr = commit_ptr_1
BY DEF AllocTypeOK, RobTypeOK, TagRing, InFlight, Offset, InUse, Tags

(* Only an instruction that is in flight commits, so there is a tag to     *)
(* give back.                                                              *)
LEMMA CommitsInFlight ==
  ASSUME AllocTypeOK, RobTypeOK, NoPhantomCommit, commit_1
  PROVE  InFlight(commit_ptr_1) /\ freenum < NumTags
BY DEF AllocTypeOK, RobTypeOK, NoPhantomCommit, commit_1, InFlight, Offset,
       InUse, Tags

(* The instruction in the ID/DP register gets a tag on this edge.          *)
Renames == id.wr_reg /\ ~StallDP(commit_1)

(* What an edge does to the three counters of the ring.                    *)
LEMMA RingStep ==
  ASSUME AllocTypeOK, RobTypeOK, NoPhantomCommit,
         id.wr_reg \in BOOLEAN, commit_1 \in BOOLEAN,
         NEW next, NEW exe, Clock(next, exe)
  PROVE  /\ freenum' = freenum + Bit(commit_1) - Bit(Renames)
         /\ rrfptr' = IF Renames THEN NextTag(rrfptr) ELSE rrfptr
         /\ commit_ptr_1' = IF commit_1 THEN NextTag(commit_ptr_1)
                            ELSE commit_ptr_1
         /\ freenum' \in 0..NumTags
<1>1. freenum \in 0..NumTags /\ (commit_1 => freenum < NumTags)
  BY CommitsInFlight DEF AllocTypeOK
<1>2. AllocClock(id.wr_reg, commit_1, StallDP(commit_1))
  BY DEF Clock, DispatchClock
<1>3. StallDP(commit_1) <=> (id.wr_reg /\ ~commit_1 /\ freenum = 0)
  BY <1>1 DEF StallDP, RrfAllocatable, Bit
<1>4. freenum' = freenum + Bit(commit_1) - Bit(Renames)
  BY <1>1, <1>2, <1>3 DEF AllocClock, AllocStall, AllocRun, Renames, Bit
<1>5. rrfptr' = IF Renames THEN NextTag(rrfptr) ELSE rrfptr
  BY <1>2 DEF AllocClock, AllocStall, AllocRun, Renames
<1>6. commit_ptr_1' = IF commit_1 THEN NextTag(commit_ptr_1) ELSE commit_ptr_1
  BY DEF Clock, RobClock, NextCommitPtr, NextTag
<1>7. freenum' \in 0..NumTags
  BY <1>1, <1>3, <1>4 DEF Renames, Bit
<1> QED
  BY <1>4, <1>5, <1>6, <1>7

(* The counter stays on the ring.                                          *)
LEMMA NextTagIsTag == ASSUME NEW t \in Tags PROVE NextTag(t) \in Tags
BY DEF NextTag, Tags

(* Pointer and count agree after the edge.                                 *)
LEMMA RingPreserved ==
  ASSUME AllocTypeOK, RobTypeOK, TagRing, NoPhantomCommit,
         id.wr_reg \in BOOLEAN, commit_1 \in BOOLEAN,
         NEW next, NEW exe, Clock(next, exe)
  PROVE  TagRing'
<1>1. /\ freenum' = freenum + Bit(commit_1) - Bit(Renames)
      /\ rrfptr' = IF Renames THEN NextTag(rrfptr) ELSE rrfptr
      /\ commit_ptr_1' = IF commit_1 THEN NextTag(commit_ptr_1)
                         ELSE commit_ptr_1
      /\ freenum' \in 0..NumTags
  BY RingStep
<1>2. /\ freenum \in 0..NumTags /\ rrfptr \in 1..NumTags
      /\ commit_ptr_1 \in 1..NumTags
  BY DEF AllocTypeOK, RobTypeOK, Tags
<1>3. CASE commit_1 /\ Renames
  BY <1>1, <1>2, <1>3 DEF TagRing, InUse, NextTag, Bit
<1>4. CASE commit_1 /\ ~Renames
  BY <1>1, <1>2, <1>4 DEF TagRing, InUse, NextTag, Bit
<1>5. CASE ~commit_1 /\ Renames
  BY <1>1, <1>2, <1>5 DEF TagRing, InUse, NextTag, Bit
<1>6. CASE ~commit_1 /\ ~Renames
  BY <1>1, <1>2, <1>6 DEF TagRing, InUse, NextTag, Bit
<1> QED
  BY <1>3, <1>4, <1>5, <1>6

(* The instructions in flight after the edge: those before it but the one  *)
(* that commits, each one place closer to the head if one does, and at the *)
(* end the one that is renamed.                                            *)
Leaves(t) == commit_1 /\ t = commit_ptr_1

(* Where a tag is after the edge.                                          *)
LEMMA FlightStep ==
  ASSUME AllocTypeOK, RobTypeOK, TagRing, NoPhantomCommit,
         id.wr_reg \in BOOLEAN, commit_1 \in BOOLEAN,
         NEW next, NEW exe, Clock(next, exe),
         NEW t \in Tags
  PROVE  /\ Renames /\ t = rrfptr =>
              (~InFlight(t) \/ Leaves(t)) /\ InFlight(t)' /\ Offset(t)' = InUse' - 1
         /\ ~(Renames /\ t = rrfptr) =>
              (InFlight(t)' <=> InFlight(t) /\ ~Leaves(t))
         /\ InFlight(t) /\ ~Leaves(t) => Offset(t)' = Offset(t) - Bit(commit_1)
<1>1. /\ freenum' = freenum + Bit(commit_1) - Bit(Renames)
      /\ rrfptr' = IF Renames THEN NextTag(rrfptr) ELSE rrfptr
      /\ commit_ptr_1' = IF commit_1 THEN NextTag(commit_ptr_1)
                         ELSE commit_ptr_1
      /\ freenum' \in 0..NumTags
  BY RingStep
<1>2. /\ freenum \in 0..NumTags /\ rrfptr \in 1..NumTags
      /\ commit_ptr_1 \in 1..NumTags /\ t \in 1..NumTags
  BY DEF AllocTypeOK, RobTypeOK, Tags
<1>3. Renames => commit_1 \/ freenum > 0
  BY <1>2 DEF Renames, StallDP, RrfAllocatable, Bit
<1>4. commit_1 => freenum < NumTags
  BY CommitsInFlight
<1>5. CASE commit_1 /\ Renames
  BY <1>1, <1>2, <1>4, <1>5
  DEF TagRing, InFlight, Offset, InUse, NextTag, Bit, Leaves, Tags
<1>6. CASE commit_1 /\ ~Renames
  BY <1>1, <1>2, <1>4, <1>6
  DEF TagRing, InFlight, Offset, InUse, NextTag, Bit, Leaves, Tags
<1>7. CASE ~commit_1 /\ Renames
  BY <1>1, <1>2, <1>3, <1>7
  DEF TagRing, InFlight, Offset, InUse, NextTag, Bit, Leaves, Tags
<1>8. CASE ~commit_1 /\ ~Renames
  BY <1>1, <1>2, <1>8
  DEF TagRing, InFlight, Offset, InUse, NextTag, Bit, Leaves, Tags
<1> QED
  BY <1>5, <1>6, <1>7, <1>8

-----------------------------------------------------------------------------
(* No entry looks done but that of an instruction that executed.           *)
LEMMA NoPhantomPreserved ==
  ASSUME AllocTypeOK, RobTypeOK, TagRing, NoPhantomCommit,
         id.wr_reg \in BOOLEAN, commit_1 \in BOOLEAN,
         NEW next, NEW exe, Legal(exe), Clock(next, exe)
  PROVE  NoPhantomCommit'
<1> SUFFICES ASSUME NEW t \in Tags, valid'[t], finish'[t]
             PROVE  InFlight(t)' /\ ~InLatch(t)'
  BY DEF NoPhantomCommit
<1>1. /\ ~(dp.alloc /\ t = dp.tag)
      /\ valid[t] /\ ~Leaves(t)
      /\ finish[t] \/ (exe.rob_we /\ t = exe.rrf_tag)
  <2>1. /\ t \in TagIndex
        /\ RobPort.alloc = dp.alloc /\ RobPort.tag = dp.tag
    BY DEF Tags, TagIndex, RobPort
  <2>2. RobClock(RobPort, exe)
    BY DEF Clock
  <2>3. IF RobPort.alloc /\ t = RobPort.tag THEN FALSE
        ELSE finish[t] \/ (exe.rob_we /\ t = exe.rrf_tag)
    BY <2>1, <2>2 DEF RobClock, ValidAfter, FinishAfter
  <2>4. IF RobPort.alloc /\ t = RobPort.tag THEN TRUE
        ELSE valid[t] /\ ~(commit_1 /\ t = commit_ptr_1)
    BY <2>1, <2>2 DEF RobClock, ValidAfter, FinishAfter
  <2> QED
    BY <2>1, <2>3, <2>4 DEF Leaves
<1>2. InFlight(t) /\ ~InLatch(t)
  BY <1>1 DEF NoPhantomCommit, Legal, Executing
<1>3. ~(Renames /\ t = rrfptr)
  BY <1>1, <1>2, FlightStep
<1>4. InFlight(t)'
  BY <1>1, <1>2, <1>3, FlightStep
<1>5. ~InLatch(t)'
  BY <1>3 DEF Clock, DispatchClock, InLatch, Renames
<1> QED
  BY <1>4, <1>5

-----------------------------------------------------------------------------
(* Types: what the wires carry.                                            *)
LEMMA WireTypes ==
  ASSUME TypeOK
  PROVE  /\ AllocTypeOK /\ ArfTypeOK /\ RrfTypeOK /\ RobTypeOK
         /\ id \in Control /\ id.wr_reg \in BOOLEAN /\ id.rd \in Regs
         /\ id.rs1 \in Regs /\ id.rs2 \in Regs
         /\ commit_1 \in BOOLEAN /\ commit_ptr_1 \in TagIndex
         /\ dp.alloc \in BOOLEAN /\ dp.tag \in TagIndex
         /\ dp.ctl.wr_reg \in BOOLEAN /\ dp.ctl.rd \in Regs
<1>1. AllocTypeOK /\ ArfTypeOK /\ RrfTypeOK /\ RobTypeOK /\ id \in Control
  BY DEF TypeOK, DispatchTypeOK
<1>2. /\ id.wr_reg \in BOOLEAN /\ id.rd \in Regs
      /\ id.rs1 \in Regs /\ id.rs2 \in Regs
  BY <1>1 DEF Control
<1>3. commit_1 \in BOOLEAN /\ commit_ptr_1 \in TagIndex
  BY <1>1 DEF commit_1, RobTypeOK, Tags, TagIndex
<1>4. dp.alloc \in BOOLEAN /\ dp.tag \in TagIndex /\ dp.ctl \in Control
  BY DEF TypeOK, DispatchTypeOK, Tags, TagIndex
<1>5. dp.ctl.wr_reg \in BOOLEAN /\ dp.ctl.rd \in Regs
  BY <1>4 DEF Control
<1> QED
  BY <1>1, <1>2, <1>3, <1>4, <1>5

(* A source bus carries a value or a tag.                                  *)
LEMMA SourceTypes ==
  ASSUME ArfTypeOK, RrfTypeOK, NEW r \in Regs, NEW exe \in Exe
  PROVE  SourceBus(r, exe) \in Operand /\ SourceReady(r, exe) \in BOOLEAN
<1>1. /\ arf_data[r] \in Data /\ arf_busy[r] \in BOOLEAN
      /\ arf_rrftag[r] \in TagIndex
  BY DEF ArfTypeOK
<1>2. /\ rrf_valid[arf_rrftag[r]] \in BOOLEAN
      /\ rrf_data[arf_rrftag[r]] \in Data
  BY <1>1 DEF RrfTypeOK
<1>3. exe.result \in Data /\ exe.rrf_we \in BOOLEAN
  BY DEF Exe
<1>4. /\ RrfValidOut(arf_rrftag[r], exe) \in BOOLEAN
      /\ RrfDataOut(arf_rrftag[r], exe) \in Data
  BY <1>2, <1>3 DEF RrfValidOut, RrfDataOut, ForwardAccessible
<1> QED
  BY <1>1, <1>4 DEF SourceBus, SourceReady, Operand

(* Every register keeps its type on a clock edge; the free count needs     *)
(* NoPhantomCommit, or a commit could take it beyond the size of the ring. *)
LEMMA TypePreserved ==
  ASSUME TypeOK, NoPhantomCommit,
         NEW next \in Control, NEW exe \in Exe, Clock(next, exe)
  PROVE  TypeOK'
<1>1. /\ AllocTypeOK /\ ArfTypeOK /\ RrfTypeOK /\ RobTypeOK
      /\ id \in Control /\ id.wr_reg \in BOOLEAN /\ id.rd \in Regs
      /\ id.rs1 \in Regs /\ id.rs2 \in Regs
      /\ commit_1 \in BOOLEAN /\ commit_ptr_1 \in TagIndex
      /\ dp.alloc \in BOOLEAN /\ dp.tag \in TagIndex
      /\ dp.ctl.wr_reg \in BOOLEAN /\ dp.ctl.rd \in Regs
  BY WireTypes
<1>2. /\ AllocClock(id.wr_reg, commit_1, StallDP(commit_1))
      /\ ArfClock(CommitPort, RenamePort)
      /\ RrfClock(CommitPort, exe)
      /\ RobClock(RobPort, exe)
  BY DEF Clock, DispatchClock
<1>3. AllocTypeOK'
  <2>1. freenum' \in 0..NumTags
    BY <1>1, RingStep
  <2>2. rrfptr' \in Tags
    BY <1>1, RingStep, NextTagIsTag DEF AllocTypeOK
  <2>3. nextrrfcyc' \in BOOLEAN
    <3>1. rrfptr \in Int /\ NextTag(rrfptr) \in Int
      BY <1>1 DEF AllocTypeOK, Tags, NextTag
    <3>2. CASE nextrrfcyc' = FALSE
      BY <3>2
    <3>3. CASE \E n \in Int : nextrrfcyc' = (rrfptr > n)
      <4>1. PICK n \in Int : nextrrfcyc' = (rrfptr > n)
        BY <3>3
      <4>2. (rrfptr > n) = TRUE \/ (rrfptr > n) = FALSE
        BY <3>1
      <4> QED
        BY <4>1, <4>2
    <3> QED
      BY <1>2, <3>1, <3>2, <3>3 DEF AllocClock, AllocStall, AllocRun
  <2> QED
    BY <2>1, <2>2, <2>3 DEF AllocTypeOK
<1>4. ArfTypeOK'
  <2>1. CommitPort.data \in Data /\ CommitPort.dst \in Regs
    BY <1>1 DEF CommitPort, RrfTypeOK, RobTypeOK, Tags, TagIndex
  <2>2. RenamePort.rd \in Regs /\ RenamePort.tag \in TagIndex
        /\ RenamePort.en \in BOOLEAN
    BY <1>1 DEF RenamePort, AllocTypeOK, Tags, TagIndex
  <2>3. arf_data' \in [Regs -> Data]
    BY <1>1, <1>2, <2>1 DEF ArfClock, ArfTypeOK
  <2>4. arf_rrftag' \in [Regs -> TagIndex]
    BY <1>1, <1>2, <2>2 DEF ArfClock, ArfTypeOK
  <2>5. ASSUME NEW r \in Regs
        PROVE  BusyAfter(r, CommitPort, RenamePort) \in BOOLEAN
    BY <1>1 DEF BusyAfter, ArfTypeOK
  <2>6. arf_busy' \in [Regs -> BOOLEAN]
    BY <1>2, <2>5 DEF ArfClock
  <2> QED
    BY <2>3, <2>4, <2>6 DEF ArfTypeOK
<1>5. RrfTypeOK'
  <2>1. /\ exe.result \in Data /\ exe.rrf_tag \in TagIndex
        /\ exe.rrf_we \in BOOLEAN
    BY DEF Exe
  <2>2. rrf_data' \in [TagIndex -> Data]
    BY <1>1, <1>2, <2>1 DEF RrfClock, RrfValidAfter, RrfTypeOK
  <2>3. rrf_valid' \in [TagIndex -> BOOLEAN]
    BY <1>1, <1>2, <2>1 DEF RrfClock, RrfValidAfter, RrfTypeOK
  <2> QED
    BY <2>2, <2>3 DEF RrfTypeOK
<1>6. id' \in Control
  BY <1>1 DEF Clock, DispatchClock
<1>7. dp' \in [alloc: BOOLEAN, tag: Tags, ctl: Control, src1: Operand,
               rdy1: BOOLEAN, src2: Operand, rdy2: BOOLEAN]
  <2>1. StallDP(commit_1) \in BOOLEAN
    BY <1>1 DEF StallDP, RrfAllocatable
  <2>2. /\ SourceBus(id.rs1, exe) \in Operand
        /\ SourceReady(id.rs1, exe) \in BOOLEAN
        /\ SourceBus(id.rs2, exe) \in Operand
        /\ SourceReady(id.rs2, exe) \in BOOLEAN
    BY <1>1, SourceTypes
  <2> QED
    BY <1>1, <2>1, <2>2 DEF Clock, DispatchClock, AllocTypeOK
<1>8. nextrrfcyc_reg' \in BOOLEAN
  BY <1>1 DEF Clock, DispatchClock, AllocTypeOK
<1>9. RobTypeOK'
  <2>1. /\ RobPort.tag \in TagIndex /\ RobPort.rd \in Regs
        /\ RobPort.dst_en \in BOOLEAN /\ RobPort.alloc \in BOOLEAN
    BY <1>1 DEF RobPort
  <2>2. exe.rob_we \in BOOLEAN
    BY DEF Exe
  <2>3. valid' \in [TagIndex -> BOOLEAN]
    BY <1>1, <1>2 DEF RobClock, ValidAfter, FinishAfter, RobTypeOK
  <2>4. finish' \in [TagIndex -> BOOLEAN]
    BY <1>1, <1>2, <2>2 DEF RobClock, ValidAfter, FinishAfter, RobTypeOK
  <2>5. dst' \in [TagIndex -> Regs]
    BY <1>1, <1>2, <2>1 DEF RobClock, ValidAfter, FinishAfter, RobTypeOK
  <2>6. dstValid' \in [TagIndex -> BOOLEAN]
    BY <1>1, <1>2, <2>1 DEF RobClock, ValidAfter, FinishAfter, RobTypeOK
  <2>7. commit_ptr_1' \in Tags
    BY <1>1, RingStep, NextTagIsTag DEF RobTypeOK
  <2> QED
    BY <2>3, <2>4, <2>5, <2>6, <2>7 DEF RobTypeOK
<1> QED
  BY <1>3, <1>4, <1>5, <1>6, <1>7, <1>8, <1>9 DEF TypeOK, DispatchTypeOK

-----------------------------------------------------------------------------
(* The invariant of every stream: types, the ring, and the ROB flags.      *)
Inv == TypeOK /\ TagRing /\ NoPhantomCommit

(* It holds when the core leaves its reset, ...                            *)
LEMMA InitInv == Init => Inv
<1> SUFFICES ASSUME Init PROVE Inv
  OBVIOUS
<1>1. Bubble \in Control
  BY FnAssumption DEF Bubble, Control, Regs
<1>2. 1 \in Tags /\ 0 \in TagIndex /\ 0 \in Regs /\ 0 \in Operand
  BY DEF Tags, TagIndex, Regs, Operand
<1>3. TypeOK
  <2>1. AllocTypeOK
    <3>1. freenum = NumTags /\ rrfptr = 1 /\ nextrrfcyc = FALSE
      BY DEF Init, DispatchInit, AllocInit
    <3>2. freenum \in 0..NumTags
      BY <3>1
    <3> QED
      BY <1>2, <3>1, <3>2 DEF AllocTypeOK
  <2>2. ArfTypeOK
    BY <1>2 DEF Init, DispatchInit, ArfInit, ArfTypeOK
  <2>3. RrfTypeOK
    BY DEF Init, DispatchInit, RrfInit, RrfTypeOK
  <2>4. RobTypeOK
    BY <1>2 DEF Init, RobInit, RobTypeOK
  <2>5. id \in Control /\ nextrrfcyc_reg \in BOOLEAN
    BY <1>1 DEF Init, DispatchInit
  <2>6. dp \in [alloc: BOOLEAN, tag: Tags, ctl: Control, src1: Operand,
                rdy1: BOOLEAN, src2: Operand, rdy2: BOOLEAN]
    BY <1>1, <1>2 DEF Init, DispatchInit
  <2> QED
    BY <2>1, <2>2, <2>3, <2>4, <2>5, <2>6 DEF TypeOK, DispatchTypeOK
<1>4. TagRing
  BY DEF Init, DispatchInit, AllocInit, RobInit, TagRing, InUse
<1>5. NoPhantomCommit
  BY DEF Init, RobInit, NoPhantomCommit, Tags, TagIndex
<1> QED
  BY <1>3, <1>4, <1>5 DEF Inv

(* ... every clock edge preserves it, whatever is fetched and finished, ... *)
LEMMA ClockInv ==
  ASSUME Inv, NEW next \in Control, NEW exe \in Exe, Legal(exe),
         Clock(next, exe)
  PROVE  Inv'
<1>1. TypeOK /\ TagRing /\ NoPhantomCommit
  BY DEF Inv
<1>2. /\ AllocTypeOK /\ RobTypeOK
      /\ id.wr_reg \in BOOLEAN /\ commit_1 \in BOOLEAN
  BY <1>1, WireTypes
<1>3. TypeOK'
  BY <1>1, TypePreserved
<1>4. TagRing'
  BY <1>1, <1>2, RingPreserved
<1>5. NoPhantomCommit'
  BY <1>1, <1>2, NoPhantomPreserved
<1> QED
  BY <1>3, <1>4, <1>5 DEF Inv

(* ... so every step does, ...                                             *)
LEMMA StepInv == Inv /\ [Next]_vars => Inv'
<1> SUFFICES ASSUME Inv, [Next]_vars PROVE Inv'
  OBVIOUS
<1>1. CASE Next
  BY <1>1, NextIsClock, ClockInv
<1>2. CASE UNCHANGED vars
  BY <1>2
  DEF vars, allocVars, arfVars, rrfVars, dpVars, robVars, Inv, TypeOK,
      DispatchTypeOK, AllocTypeOK, ArfTypeOK, RrfTypeOK, RobTypeOK, TagRing,
      NoPhantomCommit, InFlight, InLatch, Offset, InUse
<1> QED
  BY <1>1, <1>2

(* ... and it is always true.                                              *)
LEMMA SpecInv == Spec => []Inv
<1> QED
  BY InitInv, StepInv, PTL DEF Spec

-----------------------------------------------------------------------------
(* Every register of the dispatch stage and of the ROB stays in its range; *)
(* the free count of RrfEntryAllocate never leaves 0..RRF_NUM.             *)
THEOREM TypeCorrect == Spec => []TypeOK
<1>1. Inv => TypeOK
  BY DEF Inv
<1> QED
  BY <1>1, SpecInv, PTL

(* Allocation pointer, commit pointer and free count never disagree.       *)
THEOREM RingSound == Spec => []TagRing
<1>1. Inv => TagRing
  BY DEF Inv
<1> QED
  BY <1>1, SpecInv, PTL

(* The ROB commits nothing that was not dispatched and executed.           *)
THEOREM CommitsExecuted == Spec => []NoPhantomCommit
<1>1. Inv => NoPhantomCommit
  BY DEF Inv
<1> QED
  BY <1>1, SpecInv, PTL

(* RrfEntryAllocate never hands out a tag that is still in use.            *)
THEOREM TagsNotReused == Spec => []NoEarlyReuse
<1>1. Inv => NoEarlyReuse
  <2> SUFFICES ASSUME Inv, id.wr_reg, ~StallDP(commit_1), InFlight(rrfptr)
               PROVE  commit_1 /\ rrfptr = commit_ptr_1
    BY DEF NoEarlyReuse
  <2>1. /\ AllocTypeOK /\ RobTypeOK /\ TagRing
        /\ id.wr_reg \in BOOLEAN /\ commit_1 \in BOOLEAN
    BY WireTypes DEF Inv
  <2>2. freenum = 0 /\ rrfptr = commit_ptr_1
    BY <2>1, FullRing
  <2>3. commit_1
    BY <2>1, <2>2 DEF StallDP, RrfAllocatable, Bit
  <2> QED
    BY <2>2, <2>3
<1> QED
  BY <1>1, SpecInv, PTL
=============================================================================
