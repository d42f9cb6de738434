------------------------- MODULE RenameTableProofs -------------------------
(***************************************************************************)
(* Proofs that the renaming is right for every stream that keeps two tags  *)
(* free, for every number of tags and registers and every order in which   *)
(* the results arrive.                                                     *)
(***************************************************************************)
EXTENDS RenameCommitProofs

USE NumTagsAssumption, NumRegsAssumption, DataAssumption

-----------------------------------------------------------------------------
(* What Headroom gives in every state: the allocator never runs dry.       *)
TwoFree == freenum >= 1 /\ (id.wr_reg => freenum >= 2)

(* What is in the DP/SW register is the youngest tag in flight; without a  *)
(* destination it names the next tag, which nobody owns yet.               *)
LatchIsLast ==
  dp.alloc => IF dp.ctl.wr_reg
              THEN InFlight(dp.tag) /\ Offset(dp.tag) = InUse - 1
              ELSE dp.tag = rrfptr

(* Behind it, every tag in flight has an ROB entry with a destination.     *)
EntriesHeld ==
  \A t \in Tags : InFlight(t) /\ ~InLatch(t) => valid[t] /\ dstValid[t]

PacedInv ==
  /\ Inv
  /\ TwoFree /\ LatchIsLast /\ EntriesHeld
  /\ RenameTable
  /\ RrfFollowsOwner

(* Both kinds of paced clock edge are one.                                 *)
LEMMA PacedIsClock ==
  ASSUME PacedNext
  PROVE  \E next \in Control, exe \in Exe :
           Legal(exe) /\ Headroom(next) /\ Clock(next, exe)
<1>1. PICK next \in Fetchable :
        \/ PacedIdle(next)
        \/ \E t \in Tags, d \in Data : PacedFinish(next, t, d)
  BY DEF PacedNext
<1>2. next \in Control
  BY FetchableIsControl
<1>3. CASE PacedIdle(next)
  <2>1. NoResult \in Exe /\ Legal(NoResult)
    BY DEF NoResult, Exe, Legal, TagIndex
  <2> QED
    BY <1>2, <1>3, <2>1 DEF PacedIdle, CycleIdle
<1>4. CASE \E t \in Tags, d \in Data : PacedFinish(next, t, d)
  <2>1. PICK t \in Tags, d \in Data : PacedFinish(next, t, d)
    BY <1>4
  <2>2. Result(t, d) \in Exe /\ Legal(Result(t, d))
    BY <2>1 DEF Result, Exe, Legal, PacedFinish, CycleFinish, Tags, TagIndex
  <2> QED
    BY <1>2, <2>1, <2>2 DEF PacedFinish, CycleFinish
<1> QED
  BY <1>1, <1>3, <1>4

-----------------------------------------------------------------------------
(* A paced stream never stalls, and the tag it takes next is a free one.   *)
LEMMA NoStall ==
  ASSUME Inv, TwoFree
  PROVE  /\ ~StallDP(commit_1)
         /\ Renames <=> id.wr_reg
         /\ ~InFlight(rrfptr)
<1>1. /\ AllocTypeOK /\ RobTypeOK /\ TagRing
      /\ id.wr_reg \in BOOLEAN /\ commit_1 \in BOOLEAN
  BY WireTypes DEF Inv
<1>2. freenum \in 0..NumTags /\ freenum >= 1
  BY <1>1 DEF AllocTypeOK, TwoFree
<1>3. ~StallDP(commit_1)
  BY <1>1, <1>2 DEF StallDP, RrfAllocatable, Bit
<1>4. ~InFlight(rrfptr)
  BY <1>1, <1>2, FullRing
<1> QED
  BY <1>1, <1>3, <1>4 DEF Renames

(* The DP/SW register dispatches into the entry of a tag in flight only    *)
(* when it is the instruction that owns the tag.                           *)
LEMMA LatchOwns ==
  ASSUME Inv, TwoFree, LatchIsLast, NEW t \in Tags, InFlight(t)
  PROVE  dp.alloc /\ t = dp.tag <=> InLatch(t)
BY NoStall DEF LatchIsLast, InLatch

(* The head, when it commits, has been dispatched and writes a register.   *)
LEMMA HeadWrites ==
  ASSUME Inv, EntriesHeld, NEW t \in Tags, Leaves(t)
  PROVE  /\ InFlight(t) /\ ~InLatch(t) /\ finish[t]
         /\ arfwe_1 /\ Offset(t) = 0
<1>1. RobTypeOK /\ NoPhantomCommit
  BY WireTypes DEF Inv
<1>2. valid[t] /\ finish[t] /\ t = commit_ptr_1
  BY DEF Leaves, commit_1
<1>3. InFlight(t) /\ ~InLatch(t)
  BY <1>1, <1>2 DEF NoPhantomCommit
<1>4. arfwe_1
  BY <1>2, <1>3 DEF EntriesHeld, arfwe_1, Leaves
<1>5. Offset(t) = 0
  BY <1>2 DEF Offset, Tags
<1> QED
  BY <1>2, <1>3, <1>4, <1>5

-----------------------------------------------------------------------------
(* Each part of the invariant over one paced clock edge.                   *)

(* The tags that are kept free stay free under headroom.                   *)
LEMMA TwoFreePreserved ==
  ASSUME PacedInv, NEW next \in Control, NEW exe \in Exe,
         Headroom(next), Clock(next, exe)
  PROVE  TwoFree'
<1>1. /\ AllocTypeOK /\ RobTypeOK /\ NoPhantomCommit
      /\ id.wr_reg \in BOOLEAN /\ commit_1 \in BOOLEAN
  BY WireTypes DEF PacedInv, Inv
<1>2. ~StallDP(commit_1) /\ (Renames <=> id.wr_reg)
  BY NoStall DEF PacedInv
<1>3. freenum' = freenum + Bit(commit_1) - Bit(Renames)
  BY <1>1, RingStep
<1>4. freenum' = FreeAfterEdge
  BY <1>1, <1>2, <1>3 DEF FreeAfterEdge, Bit
<1>5. id' = next
  BY <1>2 DEF Clock, DispatchClock
<1>6. freenum \in Int
  BY <1>1 DEF AllocTypeOK
<1> QED
  BY <1>1, <1>2, <1>3, <1>4, <1>5, <1>6
  DEF PacedInv, TwoFree, Headroom, Bit

(* The instruction in the dispatch latch has the youngest tag.             *)
LEMMA LatchIsLastPreserved ==
  ASSUME PacedInv, NEW next, NEW exe, Clock(next, exe)
  PROVE  LatchIsLast'
<1>1. /\ AllocTypeOK /\ RobTypeOK /\ TagRing /\ NoPhantomCommit
      /\ id.wr_reg \in BOOLEAN /\ commit_1 \in BOOLEAN
  BY WireTypes DEF PacedInv, Inv
<1>2. Renames <=> id.wr_reg
  BY NoStall DEF PacedInv
<1>3. dp'.tag = rrfptr /\ dp'.ctl = id
  BY DEF Clock, DispatchClock
<1>4. rrfptr \in Tags
  BY <1>1 DEF AllocTypeOK
<1>5. CASE id.wr_reg
  BY <1>1, <1>2, <1>3, <1>4, <1>5, FlightStep DEF LatchIsLast
<1>6. CASE ~id.wr_reg
  BY <1>1, <1>2, <1>3, <1>6, RingStep DEF LatchIsLast
<1> QED
  BY <1>5, <1>6

(* What an edge does to a tag in flight: the one renamed now goes through  *)
(* the DP/SW register, any other is behind it and keeps its destination.   *)
LEMMA TagStep ==
  ASSUME PacedInv, NEW next, NEW exe, Clock(next, exe), NEW t \in Tags
  PROVE  /\ id.wr_reg /\ t = rrfptr =>
              /\ ~InFlight(t)
              /\ InFlight(t)' /\ InLatch(t)'
              /\ Offset(t)' = InUse' - 1
              /\ Destination(t)' = id.rd
         /\ ~(id.wr_reg /\ t = rrfptr) =>
              (InFlight(t)' <=> InFlight(t) /\ ~Leaves(t)) /\ ~InLatch(t)'
         /\ InFlight(t) /\ ~Leaves(t) =>
              /\ Offset(t)' = Offset(t) - Bit(commit_1)
              /\ ~InLatch(t)'
              /\ Destination(t)' = Destination(t)
<1>1. /\ AllocTypeOK /\ RobTypeOK /\ TagRing /\ NoPhantomCommit
      /\ id.wr_reg \in BOOLEAN /\ commit_1 \in BOOLEAN
  BY WireTypes DEF PacedInv, Inv
<1>2. /\ ~StallDP(commit_1) /\ (Renames <=> id.wr_reg)
      /\ ~InFlight(rrfptr)
  BY NoStall DEF PacedInv
<1>3. dp'.alloc = TRUE /\ dp'.tag = rrfptr /\ dp'.ctl = id
  BY <1>2 DEF Clock, DispatchClock
<1>4. InLatch(t)' <=> id.wr_reg /\ t = rrfptr
  BY <1>1, <1>3 DEF InLatch
<1>5. CASE id.wr_reg /\ t = rrfptr
  BY <1>1, <1>2, <1>3, <1>4, <1>5, FlightStep DEF Destination
<1>6. CASE ~(id.wr_reg /\ t = rrfptr)
  <2>1. InFlight(t)' <=> InFlight(t) /\ ~Leaves(t)
    BY <1>1, <1>2, <1>6, FlightStep
  <2>2. ASSUME InFlight(t), ~Leaves(t)
        PROVE  Offset(t)' = Offset(t) - Bit(commit_1)
    BY <1>1, <2>2, FlightStep
  <2>3. ASSUME InFlight(t) PROVE Destination(t)' = Destination(t)
    <3>1. dst' = IF dp.alloc THEN [dst EXCEPT ![dp.tag] = dp.ctl.rd] ELSE dst
      BY DEF Clock, RobClock, RobPort
    <3>2. dp.alloc /\ t = dp.tag <=> InLatch(t)
      BY <2>3, LatchOwns DEF PacedInv
    <3>3. t \in TagIndex /\ dst \in [TagIndex -> Regs]
      BY <1>1 DEF RobTypeOK, Tags, TagIndex
    <3>4. dst'[t] = IF InLatch(t) THEN dp.ctl.rd ELSE dst[t]
      BY <3>1, <3>2, <3>3
    <3> QED
      BY <1>4, <1>6, <3>4 DEF Destination
  <2> QED
    BY <1>4, <1>6, <2>1, <2>2, <2>3
<1> QED
  BY <1>1, <1>2, <1>5, <1>6

(* The ROB holds every instruction that is past the latch.                 *)
LEMMA EntriesHeldPreserved ==
  ASSUME PacedInv, NEW next, NEW exe, Clock(next, exe)
  PROVE  EntriesHeld'
<1> SUFFICES ASSUME NEW t \in Tags, InFlight(t)', ~InLatch(t)'
             PROVE  valid'[t] /\ dstValid'[t]
  BY DEF EntriesHeld
<1>1. InFlight(t) /\ ~Leaves(t)
  BY TagStep
<1>2. dp.alloc /\ t = dp.tag <=> InLatch(t)
  BY <1>1, LatchOwns DEF PacedInv
<1>3. RobTypeOK /\ t \in TagIndex
  BY WireTypes DEF PacedInv, Inv, Tags, TagIndex
<1>4. RobClock(RobPort, exe)
  BY DEF Clock
<1>5. CASE InLatch(t)
  <2>1. valid'[t]
    BY <1>2, <1>3, <1>4, <1>5 DEF RobClock, ValidAfter, RobPort
  <2>2. dstValid'[t]
    BY <1>2, <1>3, <1>4, <1>5
    DEF RobClock, RobPort, RobTypeOK, InLatch
  <2> QED
    BY <2>1, <2>2
<1>6. CASE ~InLatch(t)
  <2>1. valid[t] /\ dstValid[t]
    BY <1>1, <1>6 DEF PacedInv, EntriesHeld
  <2>2. valid'[t]
    BY <1>1, <1>3, <1>4, <2>1 DEF RobClock, ValidAfter, Leaves
  <2>3. dstValid'[t]
    BY <1>2, <1>3, <1>4, <1>6, <2>1 DEF RobClock, RobPort, RobTypeOK
  <2> QED
    BY <2>2, <2>3
<1> QED
  BY <1>5, <1>6

(* The writers of a register after the edge: those before it but the one   *)
(* that commits, and the instruction that is renamed.                      *)
LEMMA WritersStep ==
  ASSUME PacedInv, NEW next, NEW exe, Clock(next, exe),
         NEW r \in Regs, NEW t \in Tags
  PROVE  t \in Writers(r)' <=>
           \/ id.wr_reg /\ id.rd = r /\ t = rrfptr
           \/ t \in Writers(r) /\ ~Leaves(t)
<1>1. CASE id.wr_reg /\ t = rrfptr
  BY <1>1, TagStep DEF Writers
<1>2. CASE ~(id.wr_reg /\ t = rrfptr)
  BY <1>2, TagStep DEF Writers
<1> QED
  BY <1>1, <1>2

(* The table points to the youngest writer of a register.                  *)
LEMMA RenameTablePreserved ==
  ASSUME PacedInv, NEW next \in Control, NEW exe \in Exe, Clock(next, exe)
  PROVE  RenameTable'
<1> SUFFICES ASSUME NEW r \in Regs
             PROVE  /\ arf_busy'[r] <=> Writers(r)' # {}
                    /\ arf_busy'[r] => IsYoungest(arf_rrftag[r], Writers(r))'
  BY DEF RenameTable
<1>1. /\ AllocTypeOK /\ ArfTypeOK /\ RobTypeOK
      /\ id.wr_reg \in BOOLEAN /\ commit_1 \in BOOLEAN
      /\ id.rd \in Regs
  BY WireTypes DEF PacedInv, Inv
<1>2. /\ arf_busy'[r] = BusyAfter(r, CommitPort, RenamePort)
      /\ arf_rrftag' = IF id.wr_reg
                       THEN [arf_rrftag EXCEPT ![id.rd] = rrfptr]
                       ELSE arf_rrftag
  BY DEF Clock, DispatchClock, ArfClock, RenamePort
<1>3. Writers(r) \subseteq Tags /\ Writers(r)' \subseteq Tags
  BY DEF Writers
<1>4. \A t \in Writers(r) : InFlight(t) /\ Offset(t) \in 0..(InUse - 1)
  BY <1>1 DEF Writers, InFlight, Offset, InUse, Tags, RobTypeOK, AllocTypeOK
<1>5. \A t \in Writers(r) : ~Leaves(t) => Offset(t)' = Offset(t) - Bit(commit_1)
  BY <1>3, <1>4, TagStep
<1>6. /\ arf_busy[r] <=> Writers(r) # {}
      /\ arf_busy[r] => IsYoungest(arf_rrftag[r], Writers(r))
  BY DEF PacedInv, RenameTable
<1>7. CASE id.wr_reg /\ id.rd = r
  <2>1. PICK w \in Tags : w = rrfptr
    BY <1>1 DEF AllocTypeOK
  <2>2. arf_busy'[r] = TRUE /\ arf_rrftag'[r] = w
    BY <1>1, <1>2, <1>7, <2>1 DEF BusyAfter, RenamePort, ArfTypeOK
  <2>3. w \in Writers(r)' /\ Offset(w)' = InUse' - 1
    BY <1>7, <2>1, WritersStep, TagStep
  <2>4. ASSUME NEW u \in Writers(r)' PROVE Offset(u)' <= InUse' - 1
    <3>1. u \in Tags /\ Offset(u)' < InUse'
      BY DEF Writers, InFlight
    <3>2. freenum' \in 0..NumTags /\ commit_ptr_1' \in Tags
      BY TypePreserved, WireTypes DEF PacedInv, Inv, TypeOK, DispatchTypeOK,
         AllocTypeOK, RobTypeOK
    <3>3. Offset(u)' \in Int
      BY <3>1, <3>2 DEF Offset, Tags
    <3>4. InUse' \in Int
      BY <3>2 DEF InUse
    <3> QED
      BY <3>1, <3>3, <3>4
  <2> QED
    BY <2>2, <2>3, <2>4 DEF IsYoungest
<1>8. CASE ~(id.wr_reg /\ id.rd = r)
  <2>1. Writers(r)' = {t \in Writers(r) : ~Leaves(t)}
    BY <1>3, <1>8, WritersStep
  <2>2. arf_rrftag'[r] = arf_rrftag[r]
    BY <1>1, <1>2, <1>8 DEF ArfTypeOK
  <2>3. arf_busy'[r] <=> arf_busy[r] /\ ~ClearsBusy(r, CommitPort)
    BY <1>1, <1>2, <1>8 DEF BusyAfter, RenamePort, ArfTypeOK
  <2>4. CASE ~arf_busy[r]
    BY <1>6, <2>1, <2>3, <2>4
  <2>5. CASE arf_busy[r] /\ ClearsBusy(r, CommitPort)
    <3>1. arf_rrftag[r] = commit_ptr_1 /\ commit_1
      BY <2>5 DEF ClearsBusy, CommitPort, arfwe_1
    <3>2. \A t \in Writers(r) : Offset(t) <= Offset(commit_ptr_1)
      BY <1>6, <2>5, <3>1 DEF IsYoungest
    <3>3. \A t \in Writers(r) : t = commit_ptr_1
      BY <1>1, <1>3, <3>2 DEF Offset, RobTypeOK, Tags
    <3>4. Writers(r)' = {}
      BY <2>1, <3>1, <3>3 DEF Leaves
    <3> QED
      BY <2>3, <2>5, <3>4
  <2>6. CASE arf_busy[r] /\ ~ClearsBusy(r, CommitPort)
    <3>1. PICK w \in Tags : w = arf_rrftag[r] /\ IsYoungest(w, Writers(r))
      BY <1>3, <1>6, <2>6 DEF IsYoungest
    <3>2. w \in Writers(r)
      BY <3>1 DEF IsYoungest
    <3>3. ~Leaves(w)
      <4> SUFFICES ASSUME Leaves(w) PROVE FALSE
        OBVIOUS
      <4>1. arfwe_1 /\ ~InLatch(w)
        BY HeadWrites DEF PacedInv
      <4>2. dst[commit_ptr_1] = r /\ commit_ptr_1 = arf_rrftag[r]
        BY <3>1, <3>2, <4>1 DEF Writers, Destination, Leaves
      <4> QED
        BY <2>6, <4>1, <4>2 DEF ClearsBusy, CommitPort
    <3>4. w \in Writers(r)'
      BY <2>1, <3>2, <3>3
    <3>5. ASSUME NEW u \in Writers(r)' PROVE Offset(u)' <= Offset(w)'
      <4>1. u \in Writers(r) /\ ~Leaves(u)
        BY <2>1
      <4>2. /\ Offset(u) \in Int /\ Offset(w) \in Int
            /\ Offset(u) <= Offset(w)
        BY <1>4, <3>1, <3>2, <4>1 DEF IsYoungest
      <4>3. /\ Offset(u)' = Offset(u) - Bit(commit_1)
            /\ Offset(w)' = Offset(w) - Bit(commit_1)
        BY <1>5, <3>2, <3>3, <4>1
      <4> QED
        BY <4>2, <4>3 DEF Bit
    <3> QED
      BY <2>2, <2>3, <2>6, <3>1, <3>4, <3>5 DEF IsYoungest
  <2> QED
    BY <2>4, <2>5, <2>6
<1> QED
  BY <1>7, <1>8

(* finish after the edge, for a tag in flight behind the DP/SW register.   *)
LEMMA FinishStep ==
  ASSUME PacedInv, NEW next, NEW exe, Clock(next, exe),
         NEW t \in Tags, InFlight(t)
  PROVE  finish'[t] <=> ~InLatch(t)
                        /\ (finish[t] \/ (exe.rob_we /\ t = exe.rrf_tag))
<1>1. dp.alloc /\ t = dp.tag <=> InLatch(t)
  BY LatchOwns DEF PacedInv
<1>2. t \in TagIndex
  BY DEF Tags, TagIndex
<1>3. finish'[t] = FinishAfter(t, RobPort, exe)
  BY <1>2 DEF Clock, RobClock
<1> QED
  BY <1>1, <1>3 DEF FinishAfter, RobPort

(* A result never comes from the tag that commits or is renamed.           *)
LEMMA ResultStep ==
  ASSUME PacedInv, NEW exe \in Exe, Legal(exe), NEW t \in Tags,
         exe.rrf_we /\ t = exe.rrf_tag
  PROVE  InFlight(t) /\ ~InLatch(t) /\ ~finish[t] /\ ~Leaves(t)
BY DEF Legal, Executing, Leaves, commit_1

(* A rename register has the result of the instruction that owns it.       *)
LEMMA RrfPreserved ==
  ASSUME PacedInv, NEW next \in Control, NEW exe \in Exe, Legal(exe),
         Clock(next, exe)
  PROVE  RrfFollowsOwner'
<1> SUFFICES ASSUME NEW t \in Tags
             PROVE  rrf_valid'[t] <=> InFlight(t)' /\ ~InLatch(t)' /\ finish'[t]
  BY DEF RrfFollowsOwner
<1>1. rrf_valid'[t] <=>
        \/ exe.rrf_we /\ t = exe.rrf_tag
        \/ rrf_valid[t] /\ ~(arfwe_1 /\ t = commit_ptr_1)
  BY DEF Clock, DispatchClock, RrfClock, RrfValidAfter, CommitPort, Tags,
         TagIndex
<1>2. rrf_valid[t] <=> InFlight(t) /\ ~InLatch(t) /\ finish[t]
  BY DEF PacedInv, RrfFollowsOwner
<1>3. exe.rrf_we = exe.rob_we
  BY DEF Legal
<1>4. ASSUME exe.rrf_we, t = exe.rrf_tag
      PROVE  InFlight(t) /\ ~InLatch(t) /\ ~Leaves(t)
  BY <1>4, ResultStep
<1>5. ASSUME InFlight(t)
      PROVE  arfwe_1 /\ t = commit_ptr_1 <=> Leaves(t)
  BY HeadWrites DEF PacedInv, Leaves, arfwe_1
<1>6. ASSUME InFlight(t)
      PROVE  finish'[t] <=> ~InLatch(t)
                            /\ (finish[t] \/ (exe.rob_we /\ t = exe.rrf_tag))
  BY <1>6, FinishStep
<1>7. CASE id.wr_reg /\ t = rrfptr
  <2>1. ~InFlight(t) /\ InLatch(t)'
    BY <1>7, TagStep
  <2> QED
    BY <1>1, <1>2, <1>4, <2>1
<1>8. CASE ~(id.wr_reg /\ t = rrfptr)
  <2>1. (InFlight(t)' <=> InFlight(t) /\ ~Leaves(t)) /\ ~InLatch(t)'
    BY <1>8, TagStep
  <2> QED
    BY <1>1, <1>2, <1>3, <1>4, <1>5, <1>6, <2>1
<1> QED
  BY <1>7, <1>8

-----------------------------------------------------------------------------
(* The invariant holds when the core leaves its reset, ...                 *)
LEMMA PacedInitInv == Init => PacedInv
<1> SUFFICES ASSUME Init PROVE PacedInv
  OBVIOUS
<1>1. Inv
  BY InitInv
<1>2. /\ freenum = NumTags /\ rrfptr = 1 /\ commit_ptr_1 = 1
      /\ id = Bubble /\ dp.ctl = Bubble /\ dp.tag = 1
  BY DEF Init, DispatchInit, AllocInit, RobInit
<1>3. Bubble.wr_reg = FALSE
  BY DEF Bubble
<1>4. \A t \in Tags : ~InFlight(t)
  BY <1>2 DEF InFlight, Offset, InUse, Tags
<1>5. TwoFree
  BY <1>2, <1>3 DEF TwoFree
<1>6. LatchIsLast
  BY <1>2, <1>3 DEF LatchIsLast
<1>7. EntriesHeld
  BY <1>4 DEF EntriesHeld
<1>8. RenameTable
  BY <1>4 DEF RenameTable, Writers, Init, DispatchInit, ArfInit
<1>9. RrfFollowsOwner
  BY <1>4
  DEF RrfFollowsOwner, Init, DispatchInit, RrfInit, Tags, TagIndex
<1> QED
  BY <1>1, <1>5, <1>6, <1>7, <1>8, <1>9 DEF PacedInv

(* ... and every paced step keeps it.                                      *)
LEMMA PacedStepInv == PacedInv /\ [PacedNext]_vars => PacedInv'
<1> SUFFICES ASSUME PacedInv, [PacedNext]_vars PROVE PacedInv'
  OBVIOUS
<1>1. CASE PacedNext
  <2>1. PICK next \in Control, exe \in Exe :
          Legal(exe) /\ Headroom(next) /\ Clock(next, exe)
    BY <1>1, PacedIsClock
  <2>2. Inv'
    BY <2>1, ClockInv DEF PacedInv
  <2>3. TwoFree' /\ LatchIsLast' /\ EntriesHeld'
    BY <2>1, TwoFreePreserved, LatchIsLastPreserved, EntriesHeldPreserved
  <2>4. RenameTable'
    BY <2>1, RenameTablePreserved
  <2>5. RrfFollowsOwner'
    BY <2>1, RrfPreserved
  <2> QED
    BY <2>2, <2>3, <2>4, <2>5 DEF PacedInv
<1>2. CASE UNCHANGED vars
  <2>1. Inv'
    BY <1>2, StepInv DEF PacedInv
  <2>2. TwoFree' /\ LatchIsLast' /\ EntriesHeld'
    BY <1>2
    DEF vars, allocVars, dpVars, robVars, PacedInv, TwoFree, LatchIsLast,
        EntriesHeld, InFlight, InLatch, Offset, InUse
  <2>3. RenameTable' /\ RrfFollowsOwner'
    BY <1>2
    DEF vars, allocVars, arfVars, rrfVars, dpVars, robVars, PacedInv,
        RenameTable, Writers, Destination, IsYoungest, RrfFollowsOwner,
        InFlight, InLatch, Offset, InUse
  <2> QED
    BY <2>1, <2>2, <2>3 DEF PacedInv
<1> QED
  BY <1>1, <1>2

(* The invariant holds under every paced behaviour.                        *)
LEMMA PacedSpecInv == PacedSpec => []PacedInv
<1> QED
  BY PacedInitInv, PacedStepInv, PTL DEF PacedSpec

-----------------------------------------------------------------------------
(* The busy bits and tags of Arf name the youngest writer in flight of     *)
(* each register, whatever commits and is renamed in the same cycle.       *)
THEOREM RenameTableCorrect == PacedSpec => []RenameTable
<1>1. PacedInv => RenameTable
  BY DEF PacedInv
<1> QED
  BY <1>1, PacedSpecInv, PTL

(* The valid bit of an RRF entry is that of its present owner.             *)
THEOREM RrfCorrect == PacedSpec => []RrfFollowsOwner
<1>1. PacedInv => RrfFollowsOwner
  BY DEF PacedInv
<1> QED
  BY <1>1, PacedSpecInv, PTL

(* One source bus of ReNameUnit: the value it loads, or the tag it waits   *)
(* for.                                                                    *)
LEMMA SourceSound ==
  ASSUME PacedInv, NEW next \in Control, NEW exe \in Exe, Legal(exe),
         Clock(next, exe), NEW r \in Regs
  PROVE  IsOperand(r, SourceBus(r, exe), SourceReady(r, exe))
<1>1. CASE r = 0
  BY <1>1 DEF IsOperand, SourceBus, SourceReady
<1>2. /\ ArfTypeOK /\ RrfTypeOK
      /\ arf_busy[r] <=> Writers(r) # {}
      /\ arf_busy[r] => IsYoungest(arf_rrftag[r], Writers(r))
  BY WireTypes DEF PacedInv, Inv, RenameTable
<1>3. CASE r # 0 /\ ~arf_busy[r]
  BY <1>2, <1>3 DEF IsOperand, SourceBus, SourceReady
<1>4. CASE r # 0 /\ arf_busy[r]
  <2>1. PICK w \in Tags : w = arf_rrftag[r] /\ IsYoungest(w, Writers(r))
    BY <1>2, <1>4 DEF IsYoungest, Writers
  <2>2. InFlight(w)
    BY <2>1 DEF IsYoungest, Writers
  <2>3. w # 0 /\ w \in TagIndex
    BY DEF Tags, TagIndex
  <2>4. rrf_valid[w] <=> ~InLatch(w) /\ finish[w]
    BY <2>2 DEF PacedInv, RrfFollowsOwner
  <2>5. exe.rrf_we /\ w = exe.rrf_tag => ~InLatch(w) /\ ~finish[w]
    BY ResultStep
  <2>6. RrfValidOut(w, exe) <=>
          rrf_valid[w] \/ (exe.rrf_we /\ w = exe.rrf_tag)
    BY <2>3 DEF RrfValidOut, ForwardAccessible
  <2>7. RrfValidOut(w, exe) <=> finish'[w] /\ ~InLatch(w)
    BY <2>2, <2>4, <2>5, <2>6, FinishStep DEF Legal
  <2>8. RrfValidOut(w, exe) \in BOOLEAN
    BY <1>2, <2>3 DEF RrfValidOut, ForwardAccessible, RrfTypeOK, Exe
  <2>9. SourceReady(r, exe) = (finish'[w] /\ ~InLatch(w))
    BY <1>4, <2>1, <2>7, <2>8 DEF SourceReady
  <2>10. ASSUME RrfValidOut(w, exe)
         PROVE  RrfDataOut(w, exe) = rrf_data'[w]
    <3>1. rrf_data' = IF exe.rrf_we
                      THEN [rrf_data EXCEPT ![exe.rrf_tag] = exe.result]
                      ELSE rrf_data
      BY DEF Clock, DispatchClock, RrfClock
    <3> QED
      BY <1>2, <2>3, <2>4, <2>5, <2>6, <2>10, <3>1
      DEF RrfDataOut, ForwardAccessible, RrfTypeOK
  <2>11. SourceBus(r, exe) = IF SourceReady(r, exe) THEN rrf_data'[w] ELSE w
    BY <1>4, <2>1, <2>10 DEF SourceBus, SourceReady
  <2> QED
    BY <1>4, <2>1, <2>9, <2>11 DEF IsOperand
<1> QED
  BY <1>1, <1>3, <1>4

(* What the DP/SW register is loaded with is right for both operands, when *)
(* results, the commit and the renaming come on the same edge too.         *)
THEOREM OperandsCorrect == PacedSpec => OperandSound
<1>1. PacedInv /\ [PacedNext]_vars =>
        [/\ IsOperand(id.rs1, dp'.src1, dp'.rdy1)
         /\ IsOperand(id.rs2, dp'.src2, dp'.rdy2)]_vars
  <2> SUFFICES ASSUME PacedInv, PacedNext
               PROVE  /\ IsOperand(id.rs1, dp'.src1, dp'.rdy1)
                      /\ IsOperand(id.rs2, dp'.src2, dp'.rdy2)
    OBVIOUS
  <2>1. PICK next \in Control, exe \in Exe :
          Legal(exe) /\ Headroom(next) /\ Clock(next, exe)
    BY PacedIsClock
  <2>2. /\ dp'.src1 = SourceBus(id.rs1, exe)
        /\ dp'.rdy1 = SourceReady(id.rs1, exe)
        /\ dp'.src2 = SourceBus(id.rs2, exe)
        /\ dp'.rdy2 = SourceReady(id.rs2, exe)
    BY <2>1 DEF Clock, DispatchClock
  <2>3. id.rs1 \in Regs /\ id.rs2 \in Regs
    BY WireTypes DEF PacedInv, Inv
  <2>4. /\ IsOperand(id.rs1, SourceBus(id.rs1, exe), SourceReady(id.rs1, exe))
        /\ IsOperand(id.rs2, SourceBus(id.rs2, exe), SourceReady(id.rs2, exe))
    BY <2>1, <2>3, SourceSound
  <2> QED
    BY <2>2, <2>4
<1> QED
  BY <1>1, PacedSpecInv, PTL DEF PacedSpec, OperandSound
=============================================================================
