------------------------- MODULE ProgramOrderProofs -------------------------
(***************************************************************************)
(* Proof that the dispatch stage and the reorder buffer implement          *)
(* ProgramOrder for every stream that keeps two tags free: every step of   *)
(* RenameCommit is a step of the in-order machine on the window of the     *)
(* instructions in flight.                                                 *)
(***************************************************************************)
EXTENDS RenameTableProofs, SequenceTheorems, TLAPS

USE NumTagsAssumption, NumRegsAssumption, DataAssumption

-----------------------------------------------------------------------------
(* The abstract machine alone: what makes a window V follow a window B.    *)

(* The window in which the pending entry j received the value d.           *)
WithResult(B, j, d) == [B EXCEPT ![j] = Abstract!Finished(B[j], d)]

(* It differs from B in that entry only.                                   *)
LEMMA WithResultIs ==
  ASSUME NEW B \in Seq(Abstract!Entry), NEW j \in 1..Len(B), NEW d \in Data
  PROVE  /\ WithResult(B, j, d) \in Seq(Abstract!Entry)
         /\ Len(WithResult(B, j, d)) = Len(B)
         /\ \A k \in 1..Len(B) : WithResult(B, j, d)[k] =
              IF k = j THEN Abstract!Finished(B[j], d) ELSE B[k]
<1>1. B[j] \in Abstract!Entry
  BY ElementOfSeq
<1>2. Abstract!Finished(B[j], d) \in Abstract!Entry
  BY <1>1 DEF Abstract!Entry, Abstract!Finished
<1> QED
  BY <1>2, ExceptSeq DEF WithResult

(* At most one result (j = 0: none), then at most one new entry.           *)
LEMMA EntersAfterResult ==
  ASSUME NEW B \in Seq(Abstract!Entry), NEW V \in Seq(Abstract!Entry),
         NEW j \in 0..Len(B), NEW d \in Data, j > 0 => ~B[j].done,
         NEW rd \in Regs,
         \/ Len(V) = Len(B)
         \/ Len(V) = Len(B) + 1 /\ V[Len(V)] = Abstract!Pending(rd),
         \A k \in 1..Len(B) : V[k] =
           IF k = j THEN Abstract!Finished(B[j], d) ELSE B[k]
  PROVE  \E w \in Abstract!Results(B) : V \in Abstract!Entries(w)
<1>1. PICK w \in Abstract!Results(B) :
        /\ w \in Seq(Abstract!Entry) /\ Len(w) = Len(B)
        /\ \A k \in 1..Len(B) : w[k] = V[k]
  <2>1. CASE j = 0
    <3>1. \A k \in 1..Len(B) : B[k] = V[k]
      BY <2>1
    <3>2. B \in Abstract!Results(B)
      BY DEF Abstract!Results
    <3> QED
      BY <3>1, <3>2
  <2>2. CASE j # 0
    <3>1. j \in 1..Len(B) /\ ~B[j].done
      BY <2>2, LenProperties
    <3>2. WithResult(B, j, d) \in Abstract!Results(B)
      BY <3>1 DEF Abstract!Results, WithResult
    <3> QED
      BY <3>1, <3>2, WithResultIs
  <2> QED
    BY <2>1, <2>2
<1>2. Len(B) \in Nat
  BY LenProperties
<1>3. CASE Len(V) = Len(B) + 1 /\ V[Len(V)] = Abstract!Pending(rd)
  <2>1. Abstract!Pending(rd) \in Abstract!Entry
    BY DEF Abstract!Pending, Abstract!Entry, Abstract!Regs, Regs
  <2>2. PICK a \in Seq(Abstract!Entry) :
          /\ a = Append(w, Abstract!Pending(rd))
          /\ Len(a) = Len(w) + 1
          /\ \A i \in 1..Len(w) : a[i] = w[i]
          /\ a[Len(w) + 1] = Abstract!Pending(rd)
    <3>1. /\ Append(w, Abstract!Pending(rd)) \in Seq(Abstract!Entry)
          /\ Len(Append(w, Abstract!Pending(rd))) = Len(w) + 1
          /\ \A i \in 1..Len(w) : Append(w, Abstract!Pending(rd))[i] = w[i]
          /\ Append(w, Abstract!Pending(rd))[Len(w) + 1] = Abstract!Pending(rd)
      BY <1>1, <2>1, AppendProperties
    <3> QED
      BY <3>1, Zenon
  <2>3. Len(V) = Len(a) /\ Len(a) = Len(B) + 1
    BY <1>1, <1>3, <2>2
  <2>4. ASSUME NEW i \in 1..Len(V) PROVE V[i] = a[i]
    <3>1. CASE i \in 1..Len(B)
      BY <1>1, <2>2, <3>1
    <3>2. CASE i = Len(B) + 1
      BY <1>1, <1>3, <2>2, <2>3, <3>2
    <3> QED
      BY <1>2, <2>3, <3>1, <3>2
  <2>5. V = a
    BY <2>3, <2>4, SeqEqual
  <2> QED
    BY <2>2, <2>5 DEF Abstract!Entries, Abstract!Regs, Regs
<1>4. CASE Len(V) = Len(B)
  <2>1. V = w
    BY <1>1, <1>2, <1>4, SeqEqual
  <2> QED
    BY <1>1, <2>1 DEF Abstract!Entries
<1> QED
  BY <1>3, <1>4

-----------------------------------------------------------------------------
(* The window of a state.                                                  *)

(* What the window shows of a tag in flight.                               *)
IsDone(t) == finish[t] /\ ~InLatch(t)

EntryOf(t) == [rd |-> Destination(t), done |-> IsDone(t),
               value |-> IF IsDone(t) THEN rrf_data[t] ELSE 0]

(* The places of the window and the tags in flight are one to one.         *)
LEMMA TagAtIs ==
  AllocTypeOK /\ RobTypeOK =>
    /\ \A k \in 1..InUse :
         TagAt(k) \in Tags /\ InFlight(TagAt(k)) /\ Offset(TagAt(k)) = k - 1
    /\ \A t \in Tags :
         InFlight(t) => Offset(t) + 1 \in 1..InUse /\ TagAt(Offset(t) + 1) = t
BY DEF AllocTypeOK, RobTypeOK, TagAt, InFlight, Offset, InUse, Tags

(* The window has one entry for each instruction in flight.                *)
LEMMA WindowIs ==
  TypeOK =>
    /\ InUse \in 0..NumTags
    /\ InOrderWindow \in Seq(Abstract!Entry)
    /\ Len(InOrderWindow) = InUse
    /\ \A k \in 1..InUse : InOrderWindow[k] = EntryOf(TagAt(k))
<1> SUFFICES ASSUME TypeOK
             PROVE  /\ InUse \in 0..NumTags
                    /\ InOrderWindow \in Seq(Abstract!Entry)
                    /\ Len(InOrderWindow) = InUse
                    /\ \A k \in 1..InUse : InOrderWindow[k] = EntryOf(TagAt(k))
  OBVIOUS
<1>1. AllocTypeOK /\ RrfTypeOK /\ RobTypeOK /\ dp.ctl.rd \in Regs
  BY WireTypes
<1>2. InUse \in 0..NumTags
  BY <1>1 DEF AllocTypeOK, InUse
<1>3. InOrderWindow = [k \in 1..InUse |-> EntryOf(TagAt(k))]
  BY DEF InOrderWindow, EntryOf, IsDone
<1>4. ASSUME NEW t \in Tags PROVE EntryOf(t) \in Abstract!Entry
  <2>1. t \in TagIndex
    BY DEF Tags, TagIndex
  <2>2. Destination(t) \in Regs
    BY <1>1, <2>1 DEF Destination, RobTypeOK
  <2>3. IsDone(t) \in BOOLEAN
    BY <1>1, <2>1 DEF IsDone, RobTypeOK
  <2>4. rrf_data[t] \in Data /\ 0 \in Data
    BY <1>1, <2>1 DEF RrfTypeOK
  <2> QED
    BY <2>2, <2>3, <2>4 DEF EntryOf, Abstract!Entry, Abstract!Regs, Regs
<1>5. \A k \in 1..InUse : EntryOf(TagAt(k)) \in Abstract!Entry
  BY <1>1, <1>4, TagAtIs
<1>6. InOrderWindow \in [1..InUse -> Abstract!Entry]
  BY <1>3, <1>5
<1>7. InOrderWindow \in Seq(Abstract!Entry) /\ Len(InOrderWindow) = InUse
  BY <1>2, <1>6, SeqDef, LenProperties
<1> QED
  BY <1>2, <1>3, <1>7

-----------------------------------------------------------------------------
(* The window over one paced clock edge.                                   *)

(* An entry receives its result, or enters, or stays as it is.             *)
LEMMA WindowEntryStep ==
  ASSUME PacedInv, NEW next \in Control, NEW exe \in Exe, Legal(exe),
         Clock(next, exe), NEW t \in Tags
  PROVE  /\ InFlight(t) /\ ~Leaves(t) =>
              EntryOf(t)' = IF exe.rrf_we /\ t = exe.rrf_tag
                            THEN Abstract!Finished(EntryOf(t), exe.result)
                            ELSE EntryOf(t)
         /\ id.wr_reg /\ t = rrfptr => EntryOf(t)' = Abstract!Pending(id.rd)
<1>1. CASE id.wr_reg /\ t = rrfptr
  <2>1. InLatch(t)' /\ Destination(t)' = id.rd /\ ~InFlight(t)
    BY <1>1, TagStep
  <2> QED
    BY <2>1 DEF EntryOf, IsDone, Abstract!Pending
<1>2. CASE InFlight(t) /\ ~Leaves(t)
  <2>1. ~InLatch(t)' /\ Destination(t)' = Destination(t)
    BY <1>2, TagStep
  <2>2. finish'[t] <=> ~InLatch(t)
                       /\ (finish[t] \/ (exe.rob_we /\ t = exe.rrf_tag))
    BY <1>2, FinishStep
  <2>3. RobTypeOK /\ RrfTypeOK /\ RobTypeOK' /\ t \in TagIndex
    BY WireTypes, TypePreserved
    DEF PacedInv, Inv, TypeOK, DispatchTypeOK, Tags, TagIndex
  <2>4. finish[t] \in BOOLEAN /\ finish'[t] \in BOOLEAN
    BY <2>3 DEF RobTypeOK
  <2>5. exe.rrf_we = exe.rob_we
    BY DEF Legal
  <2>6. rrf_data' = IF exe.rrf_we
                    THEN [rrf_data EXCEPT ![exe.rrf_tag] = exe.result]
                    ELSE rrf_data
    BY DEF Clock, DispatchClock, RrfClock
  <2>7. CASE exe.rrf_we /\ t = exe.rrf_tag
    <3>1. ~InLatch(t)
      BY <2>7, ResultStep
    <3>2. rrf_data'[t] = exe.result
      BY <2>3, <2>6, <2>7 DEF RrfTypeOK
    <3>3. IsDone(t)' = TRUE
      BY <2>1, <2>2, <2>4, <2>5, <2>7, <3>1 DEF IsDone
    <3>4. EntryOf(t)' = [rd |-> Destination(t), done |-> TRUE,
                         value |-> exe.result]
      BY <2>1, <3>2, <3>3 DEF EntryOf
    <3> QED
      BY <1>1, <2>7, <3>4 DEF EntryOf, Abstract!Finished
  <2>8. CASE ~(exe.rrf_we /\ t = exe.rrf_tag)
    <3>1. rrf_data'[t] = rrf_data[t]
      BY <2>3, <2>6, <2>8 DEF RrfTypeOK
    <3>2. IsDone(t)' = IsDone(t)
      BY <2>1, <2>2, <2>4, <2>5, <2>8 DEF IsDone
    <3> QED
      BY <1>1, <2>1, <2>8, <3>1, <3>2 DEF EntryOf
  <2> QED
    BY <1>1, <2>7, <2>8
<1> QED
  BY <1>1, <1>2

(* The head leaves, a result arrives, an entry joins at the end.           *)
LEMMA WindowStep ==
  ASSUME PacedInv, NEW next \in Control, NEW exe \in Exe, Legal(exe),
         Clock(next, exe)
  PROVE  /\ InUse' = InUse - Bit(commit_1) + Bit(id.wr_reg)
         /\ \A k \in 1..(InUse - Bit(commit_1)) : InOrderWindow'[k] =
              IF exe.rrf_we /\ TagAt(k + Bit(commit_1)) = exe.rrf_tag
              THEN Abstract!Finished(InOrderWindow[k + Bit(commit_1)], exe.result)
              ELSE InOrderWindow[k + Bit(commit_1)]
         /\ id.wr_reg => InOrderWindow'[InUse'] = Abstract!Pending(id.rd)
<1>1. /\ AllocTypeOK /\ RobTypeOK /\ NoPhantomCommit /\ TypeOK
      /\ id.wr_reg \in BOOLEAN /\ commit_1 \in BOOLEAN
  BY WireTypes DEF PacedInv, Inv
<1>2. TypeOK' /\ AllocTypeOK' /\ RobTypeOK'
  BY TypePreserved DEF PacedInv, Inv, TypeOK, DispatchTypeOK
<1>3. InUse' = InUse - Bit(commit_1) + Bit(id.wr_reg)
  <2>1. Renames <=> id.wr_reg
    BY NoStall DEF PacedInv
  <2>2. freenum' = freenum + Bit(commit_1) - Bit(Renames)
    BY <1>1, RingStep
  <2>3. freenum \in Int
    BY <1>1 DEF AllocTypeOK
  <2> QED
    BY <1>1, <2>1, <2>2, <2>3 DEF InUse, Bit
<1>4. \A k \in 1..InUse' : /\ TagAt(k)' \in Tags /\ InFlight(TagAt(k))'
                           /\ Offset(TagAt(k))' = k - 1
                           /\ InOrderWindow'[k] = EntryOf(TagAt(k))'
  <2>1. (AllocTypeOK /\ RobTypeOK => \A k \in 1..InUse :
           TagAt(k) \in Tags /\ InFlight(TagAt(k)) /\ Offset(TagAt(k)) = k - 1)'
    BY TagAtIs, PTL
  <2>2. (TypeOK => \A k \in 1..InUse : InOrderWindow[k] = EntryOf(TagAt(k)))'
    BY WindowIs, PTL
  <2> QED
    BY <1>2, <2>1, <2>2
<1>5. InUse \in Int /\ InUse' \in Int
  BY <1>1, <1>2 DEF AllocTypeOK, InUse
<1>6. ASSUME NEW k \in 1..InUse', NEW t \in Tags, t = TagAt(k)'
      PROVE  /\ id.wr_reg /\ t = rrfptr => k = InUse'
             /\ ~(id.wr_reg /\ t = rrfptr) =>
                  /\ InFlight(t) /\ ~Leaves(t)
                  /\ t = TagAt(k + Bit(commit_1))
                  /\ k + Bit(commit_1) \in 1..InUse
  <2>1. InFlight(t)' /\ Offset(t)' = k - 1
    BY <1>4, <1>6
  <2>2. CASE id.wr_reg /\ t = rrfptr
    BY <1>5, <2>1, <2>2, TagStep
  <2>3. CASE ~(id.wr_reg /\ t = rrfptr)
    <3>1. InFlight(t) /\ ~Leaves(t)
      BY <2>1, <2>3, TagStep
    <3>2. Offset(t)' = Offset(t) - Bit(commit_1)
      BY <3>1, TagStep
    <3>3. Offset(t) \in Int
      BY <1>1 DEF Offset, RobTypeOK, Tags
    <3>4. Offset(t) + 1 = k + Bit(commit_1)
      BY <1>1, <1>5, <2>1, <3>2, <3>3 DEF Bit
    <3> QED
      BY <1>1, <2>3, <3>1, <3>4, TagAtIs
  <2> QED
    BY <2>2, <2>3
<1>7. ASSUME NEW k \in 1..(InUse - Bit(commit_1))
      PROVE  InOrderWindow'[k] =
               IF exe.rrf_we /\ TagAt(k + Bit(commit_1)) = exe.rrf_tag
               THEN Abstract!Finished(InOrderWindow[k + Bit(commit_1)], exe.result)
               ELSE InOrderWindow[k + Bit(commit_1)]
  <2>1. k \in 1..InUse'
    BY <1>1, <1>3, <1>5 DEF Bit
  <2>2. PICK t \in Tags : t = TagAt(k)'
    BY <1>4, <2>1
  <2>3. ~(id.wr_reg /\ t = rrfptr)
    BY <1>1, <1>3, <1>5, <1>6, <2>1, <2>2 DEF Bit
  <2>4. /\ InFlight(t) /\ ~Leaves(t)
        /\ t = TagAt(k + Bit(commit_1)) /\ k + Bit(commit_1) \in 1..InUse
    BY <1>6, <2>1, <2>2, <2>3
  <2>5. InOrderWindow'[k] = EntryOf(t)'
    BY <1>4, <2>1, <2>2
  <2>6. InOrderWindow[k + Bit(commit_1)] = EntryOf(t)
    BY <1>1, <2>4, WindowIs
  <2> QED
    BY <2>4, <2>5, <2>6, WindowEntryStep
<1>8. ASSUME id.wr_reg
      PROVE  InOrderWindow'[InUse'] = Abstract!Pending(id.rd)
  <2>1. PICK k \in 1..InUse' : k = InUse'
    <3>1. InUse - Bit(commit_1) >= 0
      BY <1>1, CommitsInFlight DEF InUse, AllocTypeOK, Bit
    <3>2. InUse' >= 1
      BY <1>1, <1>3, <1>5, <1>8, <3>1 DEF Bit
    <3>3. InUse' \in 1..InUse'
      BY <1>5, <3>2
    <3> QED
      BY <3>3, Zenon
  <2>2. PICK t \in Tags : t = TagAt(k)'
    BY <1>4
  <2>3. id.wr_reg /\ t = rrfptr
    BY <1>1, <1>3, <1>5, <1>6, <1>8, <2>1, <2>2 DEF Bit
  <2>4. InOrderWindow'[k] = EntryOf(t)'
    BY <1>4, <2>2
  <2> QED
    BY <2>1, <2>3, <2>4, WindowEntryStep
<1> QED
  BY <1>3, <1>7, <1>8

(* Every paced clock edge is a step of the in-order machine.               *)
LEMMA ClockRefines ==
  ASSUME PacedInv, NEW next \in Control, NEW exe \in Exe, Legal(exe),
         Clock(next, exe)
  PROVE  Abstract!Next
<1> DEFINE s == Bit(commit_1)
           B == IF commit_1 THEN Tail(InOrderWindow) ELSE InOrderWindow
<1>1. /\ AllocTypeOK /\ RobTypeOK /\ NoPhantomCommit /\ TypeOK /\ TypeOK'
      /\ id.wr_reg \in BOOLEAN /\ commit_1 \in BOOLEAN /\ id.rd \in Regs
  BY WireTypes, TypePreserved DEF PacedInv, Inv
<1>2. /\ InUse \in 0..NumTags
      /\ InOrderWindow \in Seq(Abstract!Entry)
      /\ Len(InOrderWindow) = InUse
      /\ \A k \in 1..InUse : InOrderWindow[k] = EntryOf(TagAt(k))
  BY <1>1, WindowIs
<1>3. /\ InOrderWindow' \in Seq(Abstract!Entry)
      /\ Len(InOrderWindow') = InUse'
  <2>1. (TypeOK =>
          /\ InUse \in 0..NumTags
          /\ InOrderWindow \in Seq(Abstract!Entry)
          /\ Len(InOrderWindow) = InUse
          /\ \A k \in 1..InUse : InOrderWindow[k] = EntryOf(TagAt(k)))'
    BY WindowIs, PTL
  <2> QED
    BY <1>1, <2>1 DEF Abstract!Entry, Abstract!Regs
<1>4. commit_1 => InUse >= 1 /\ InOrderWindow # <<>>
  <2> SUFFICES ASSUME commit_1 PROVE InUse >= 1 /\ InOrderWindow # <<>>
    OBVIOUS
  <2>1. InUse >= 1
    BY <1>1, CommitsInFlight DEF AllocTypeOK, InUse
  <2> QED
    BY <1>2, <2>1, EmptySeq
<1>5. /\ B \in Seq(Abstract!Entry) /\ Len(B) = InUse - s
      /\ \A k \in 1..Len(B) : B[k] = InOrderWindow[k + s]
  <2>1. CASE commit_1
    BY <1>2, <1>4, <2>1, HeadTailProperties DEF Bit
  <2>2. CASE ~commit_1
    BY <1>2, <2>2 DEF Bit
  <2> QED
    BY <2>1, <2>2
<1>6. Len(B) \in Nat
  BY <1>5, LenProperties
<1>7. PICK j \in 0..Len(B) :
        /\ j > 0 => ~B[j].done
        /\ \A k \in 1..Len(B) :
             k = j <=> exe.rrf_we /\ TagAt(k + s) = exe.rrf_tag
  <2>1. CASE exe.rrf_we
    <3>1. exe.rrf_tag \in Tags /\ InFlight(exe.rrf_tag)
      BY <2>1 DEF Legal, Executing, InFlight
    <3>2. PICK t \in Tags : t = exe.rrf_tag
      BY <3>1
    <3>3. InFlight(t) /\ ~InLatch(t) /\ ~finish[t] /\ ~Leaves(t)
      BY <2>1, <3>2, ResultStep
    <3>4. Offset(t) + 1 \in 1..InUse /\ TagAt(Offset(t) + 1) = t
      BY <1>1, <3>3, TagAtIs
    <3>5. Offset(t) \in Int /\ (commit_1 => Offset(t) # 0)
      BY <1>1, <3>3 DEF Offset, Leaves, RobTypeOK, Tags
    <3>6. PICK j \in 1..Len(B) : j + s = Offset(t) + 1
      <4>1. Offset(t) + 1 - s \in 1..Len(B)
        BY <1>1, <1>2, <1>5, <3>4, <3>5 DEF Bit
      <4>2. (Offset(t) + 1 - s) + s = Offset(t) + 1
        BY <1>1, <3>5 DEF Bit
      <4> QED
        BY <4>1, <4>2, Zenon
    <3>7. B[j] = EntryOf(t)
      BY <1>2, <1>5, <3>4, <3>6
    <3>8. ~B[j].done
      <4>1. EntryOf(t).done = IsDone(t)
        BY DEF EntryOf
      <4> QED
        BY <3>3, <3>7, <4>1, Zenon DEF IsDone
    <3>9. ASSUME NEW k \in 1..Len(B)
          PROVE  k = j <=> exe.rrf_we /\ TagAt(k + s) = exe.rrf_tag
      <4>1. k + s \in 1..InUse
        BY <1>1, <1>2, <1>5 DEF Bit
      <4>2. \A m \in 1..InUse : Offset(TagAt(m)) = m - 1
        BY <1>1, TagAtIs
      <4>3. k = j => TagAt(k + s) = t
        BY <3>4, <3>6
      <4>4. TagAt(k + s) = t => k + s = j + s
        <5>1. Offset(TagAt(k + s)) = (k + s) - 1
          BY <4>1, <4>2
        <5>2. k + s \in Int /\ j + s \in Int
          BY <1>1, <1>6 DEF Bit
        <5> QED
          BY <3>5, <3>6, <5>1, <5>2
      <4>5. k + s = j + s => k = j
        BY <1>1, <1>6 DEF Bit
      <4> QED
        BY <2>1, <3>2, <4>3, <4>4, <4>5
    <3> QED
      BY <1>6, <3>8, <3>9
  <2>2. CASE ~exe.rrf_we
    <3>1. 0 \in 0..Len(B) /\ ~(0 > 0) /\ \A k \in 1..Len(B) : k # 0
      BY <1>6
    <3> QED
      BY <2>2, <3>1
  <2> QED
    BY <2>1, <2>2
<1>8. /\ InUse' = InUse - s + Bit(id.wr_reg)
      /\ \A k \in 1..(InUse - s) : InOrderWindow'[k] =
           IF exe.rrf_we /\ TagAt(k + s) = exe.rrf_tag
           THEN Abstract!Finished(InOrderWindow[k + s], exe.result)
           ELSE InOrderWindow[k + s]
      /\ id.wr_reg => InOrderWindow'[InUse'] = Abstract!Pending(id.rd)
  BY WindowStep
<1>9. \A k \in 1..Len(B) : InOrderWindow'[k] =
        IF k = j THEN Abstract!Finished(B[j], exe.result) ELSE B[k]
  BY <1>5, <1>7, <1>8
<1>10. \E w \in Abstract!Results(B) : InOrderWindow' \in Abstract!Entries(w)
  <2> HIDE DEF B, s
  <2>1. exe.result \in Data
    BY DEF Exe
  <2>2. PICK V \in Seq(Abstract!Entry) : V = InOrderWindow'
    BY <1>3
  <2>3. PICK W \in Seq(Abstract!Entry) : W = B
    BY <1>5
  <2>4. \A k \in 1..Len(W) :
          V[k] = IF k = j THEN Abstract!Finished(W[j], exe.result) ELSE W[k]
    BY <1>9, <2>2, <2>3
  <2>5. j \in 0..Len(W) /\ (j > 0 => ~W[j].done)
    BY <1>7, <2>3
  <2>6. CASE id.wr_reg
    <3>1. Len(V) = Len(W) + 1 /\ V[Len(V)] = Abstract!Pending(id.rd)
      BY <1>3, <1>5, <1>8, <2>2, <2>3, <2>6 DEF Bit
    <3>2. \E w \in Abstract!Results(W) : V \in Abstract!Entries(w)
      BY <1>1, <2>1, <2>4, <2>5, <3>1, EntersAfterResult
    <3> QED
      BY <2>2, <2>3, <3>2
  <2>7. CASE ~id.wr_reg
    <3>1. Len(V) = Len(W)
      BY <1>1, <1>3, <1>5, <1>6, <1>8, <2>2, <2>3, <2>7 DEF Bit
    <3>2. \E w \in Abstract!Results(W) : V \in Abstract!Entries(w)
      BY <1>1, <2>1, <2>4, <2>5, <3>1, EntersAfterResult
    <3> QED
      BY <2>2, <2>3, <3>2
  <2> QED
    BY <2>6, <2>7
<1>11. CASE ~commit_1
  <2>1. arf_data' = arf_data
    BY <1>11 DEF Clock, DispatchClock, ArfClock, CommitPort, arfwe_1
  <2> QED
    BY <1>10, <1>11, <2>1 DEF Abstract!Next, Abstract!Proceed
<1>12. CASE commit_1
  <2>1. PICK h \in Tags : h = commit_ptr_1
    BY <1>1 DEF RobTypeOK
  <2>2. /\ InFlight(h) /\ ~InLatch(h) /\ finish[h]
        /\ arfwe_1 /\ Offset(h) = 0
    BY <1>12, <2>1, HeadWrites DEF PacedInv, Leaves
  <2>3. Head(InOrderWindow) = EntryOf(h)
    <3>1. TagAt(1) = h
      BY <1>1, <2>2, TagAtIs
    <3>2. Head(InOrderWindow) = InOrderWindow[1]
      BY <1>2, <1>4, <1>12 DEF Abstract!Entry
    <3> QED
      BY <1>2, <1>4, <1>12, <3>1, <3>2
  <2>4. /\ EntryOf(h).done /\ EntryOf(h).rd = dst[h]
        /\ EntryOf(h).value = rrf_data[h]
    BY <2>2 DEF EntryOf, IsDone, Destination
  <2>5. arf_data' = [arf_data EXCEPT ![dst[h]] = rrf_data[h]]
    BY <2>1, <2>2 DEF Clock, DispatchClock, ArfClock, CommitPort
  <2> QED
    BY <1>4, <1>10, <1>12, <2>3, <2>4, <2>5 DEF Abstract!Next, Abstract!Retire
<1> QED
  BY <1>1, <1>11, <1>12

-----------------------------------------------------------------------------
(* When the core leaves its reset the window is empty.                     *)
LEMMA InitRefines == Init => Abstract!Init
<1> SUFFICES ASSUME Init PROVE Abstract!Init
  OBVIOUS
<1>1. TypeOK
  BY InitInv DEF Inv
<1>2. InUse = 0
  BY DEF Init, DispatchInit, AllocInit, InUse
<1>3. InOrderWindow \in Seq(Abstract!Entry) /\ Len(InOrderWindow) = 0
  BY <1>1, <1>2, WindowIs
<1>4. InOrderWindow = <<>>
  BY <1>3, EmptySeq
<1>5. arf_data \in [Regs -> Data]
  BY DEF Init, DispatchInit, ArfInit
<1> QED
  BY <1>4, <1>5 DEF Abstract!Init, Abstract!Regs, Regs

(* Renaming, out-of-order results and the reorder buffer are, seen from    *)
(* the architectural registers, a machine that executes in program order.  *)
THEOREM RenamingRefinesProgramOrder == PacedSpec => ImplementsProgramOrder
<1>1. PacedInv /\ [PacedNext]_vars => [Abstract!Next]_<<arf_data, InOrderWindow>>
  <2> SUFFICES ASSUME PacedInv, [PacedNext]_vars
               PROVE  [Abstract!Next]_<<arf_data, InOrderWindow>>
    OBVIOUS
  <2>1. CASE PacedNext
    BY <2>1, PacedIsClock, ClockRefines
  <2>2. CASE UNCHANGED vars
    <3>1. UNCHANGED arf_data
      BY <2>2 DEF vars, arfVars
    <3>2. UNCHANGED InOrderWindow
      BY <2>2
      DEF vars, allocVars, rrfVars, dpVars, robVars, InOrderWindow, InUse,
          TagAt, InLatch, Destination
    <3> QED
      BY <3>1, <3>2
  <2> QED
    BY <2>1, <2>2
<1> QED
  BY <1>1, InitRefines, PacedSpecInv, PTL
  DEF PacedSpec, ImplementsProgramOrder, Abstract!Spec
=============================================================================
