--------------------------- MODULE HeliosXTheorems ---------------------------
(***************************************************************************)
(* What is proved of the core: its invariants, that it implements the      *)
(* in-order skeleton RenameCommit, and that it executes its program one    *)
(* instruction after the other.  First the argument that tags never run    *)
(* out, by counting who can overtake whom; then what an edge does to the   *)
(* operands and results on their way.                                      *)
(***************************************************************************)
EXTENDS HeliosXProofs, ProgramOrderProofs, FunctionTheorems

USE NumTagsAssumption, NumRegsAssumption, DataAssumption, NumEntriesAssumption

-----------------------------------------------------------------------------
(* Counting.                                                               *)
LEMMA TagsFinite ==
  \A S \in SUBSET Tags : IsFiniteSet(S) /\ Cardinality(S) \in Nat
<1>1. IsFiniteSet(Tags)
  BY FS_Interval DEF Tags
<1>2. ASSUME NEW S \in SUBSET Tags
      PROVE  IsFiniteSet(S) /\ Cardinality(S) \in Nat
  BY <1>1, <1>2, FS_Subset, FS_CardinalityType
<1> QED
  BY <1>2

(* A set has as many members as there are indices of distinct ones.        *)
LEMMA ImageCount ==
  ASSUME NEW B, IsFiniteSet(B), NEW f \in [B -> Tags],
         \A d, e \in B : f[d] = f[e] => d = e
  PROVE  Cardinality({f[e] : e \in B}) = Cardinality(B)
<1> DEFINE W == {f[e] : e \in B}
<1>1. f \in [B -> W]
  OBVIOUS
<1>2. \A w \in W : \E e \in B : f[e] = w
  OBVIOUS
<1> HIDE DEF W
<1>3. f \in Surjection(B, W)
  BY <1>1, <1>2, Fun_IsSurj
<1>4. f \in Injection(B, W)
  BY <1>1, Fun_IsInj
<1>5. Cardinality(W) = Cardinality(B)
  BY <1>3, <1>4, FS_Surjection
<1> QED
  BY <1>5 DEF W

(* From any tag on the ring has as many tags as one counts.                *)
LEMMA RingCount ==
  ASSUME NEW c \in Tags, NEW n \in 0..NumTags
  PROVE  n <= Cardinality({t \in Tags :
                (IF t >= c THEN t - c ELSE t - c + NumTags) < n})
<1> DEFINE T == {t \in Tags :
                  (IF t >= c THEN t - c ELSE t - c + NumTags) < n}
           f == [k \in 1..n |-> IF c + k - 1 > NumTags
                                THEN c + k - 1 - NumTags ELSE c + k - 1]
<1>1. ASSUME NEW k \in 1..n PROVE f[k] \in T
  BY DEF Tags
<1>2. ASSUME NEW j \in 1..n, NEW k \in 1..n, f[j] = f[k] PROVE j = k
  BY <1>2 DEF Tags
<1>3. f \in [1..n -> T]
  BY <1>1
<1>4. IsFiniteSet(T)
  BY TagsFinite
<1>5. IsFiniteSet(1..n) /\ Cardinality(1..n) = n
  BY FS_Interval
<1> HIDE DEF T, f
<1>6. f \in Injection(1..n, T)
  BY <1>2, <1>3, Fun_IsInj
<1>7. n <= Cardinality(T)
  BY <1>4, <1>5, <1>6, FS_Injection
<1> QED
  BY <1>7 DEF T

(* Each entry that is busy holds a tag of its own.                         *)
LEMMA WaitingCount ==
  ASSUME NEW next, Edge(next)
  PROVE  Cardinality(Waiting') = Cardinality(BusyEntries')
<1>1. PICK B : B = BusyEntries'
  OBVIOUS
<1>2. PICK f : f = [e \in B |-> entry'[e].tag]
  OBVIOUS
<1>3. PlacesOK'
  BY PlacesPreserved
<1>4. Waiting' = {f[e] : e \in B}
  BY <1>1, <1>2 DEF Waiting
<1>5. Waiting' \subseteq Tags
  BY <1>3 DEF PlacesOK, Executing, InFlight
<1>6. f \in [B -> Tags]
  BY <1>1, <1>2, <1>5 DEF Waiting
<1>7. \A d, e \in B : f[d] = f[e] => d = e
  BY <1>1, <1>2, <1>3 DEF PlacesOK
<1>8. IsFiniteSet(B)
  BY <1>1, BusyIsFinite
<1> QED
  BY <1>1, <1>4, <1>6, <1>7, <1>8, ImageCount

-----------------------------------------------------------------------------
(* The order of the tags in flight, and those that have left the station.  *)
LEMMA OffsetIs ==
  ASSUME FullInv, NEW t \in Tags
  PROVE  /\ Offset(t) \in Nat
         /\ Offset(t) = 0 <=> t = commit_ptr_1
         /\ \A u \in Tags : Offset(u) = Offset(t) => u = t
         /\ commit_ptr_1 \in Tags
<1>1. commit_ptr_1 \in Tags
  BY WireTypes DEF FullInv, PacedInv, Inv, RobTypeOK
<1> QED
  BY <1>1 DEF Offset, Tags

(* An edge does not change the order of two instructions in flight.        *)
LEMMA OrderStep ==
  ASSUME NEW next, Edge(next),
         NEW s \in Tags, InFlight(s), ~Leaves(s),
         NEW t \in Tags, InFlight(t), ~Leaves(t)
  PROVE  Offset(s)' < Offset(t)' <=> Offset(s) < Offset(t)
<1>1. /\ Offset(s)' = Offset(s) - Bit(commit_1)
      /\ Offset(t)' = Offset(t) - Bit(commit_1)
  BY EdgeIsClock, TagStep
<1>2. Offset(s) \in Nat /\ Offset(t) \in Nat
  BY OffsetIs DEF Edge
<1> QED
  BY <1>1, <1>2 DEF Bit

(* Whoever may be in a place of the core after the edge stays in flight.   *)
LEMMA StaysInFlight ==
  ASSUME NEW next, Edge(next), NEW t \in Tags
  PROVE  /\ t \in Waiting => InFlight(t) /\ ~Leaves(t) /\ ~InLatch(t)
         /\ InLatch(t) => InFlight(t) /\ ~Leaves(t)
         /\ InFlight(t) /\ ~Leaves(t) => InFlight(t)' /\ ~InLatch(t)'
<1>1. PacedInv /\ Clock(next, alu_latch)
  BY EdgeIsClock
<1>2. t \in Waiting => InFlight(t) /\ ~Leaves(t) /\ ~InLatch(t)
  BY WaitingExecutes, ExecutingStep
<1>3. InLatch(t) => InFlight(t) /\ ~Leaves(t)
  BY <1>1, LatchTag, HeadWrites DEF PacedInv
<1>4. ASSUME InFlight(t), ~Leaves(t) PROVE InFlight(t)' /\ ~InLatch(t)'
  <2>1. ~(id.wr_reg /\ t = rrfptr)
    BY <1>1, <1>4, TagStep
  <2> QED
    BY <1>1, <1>4, <2>1, TagStep
<1> QED
  BY <1>2, <1>3, <1>4

(* Who is out after an edge: those who were and did not commit, and the    *)
(* one that is issued.                                                     *)
LEMMA OutStep ==
  ASSUME NEW next, Edge(next), NEW t \in Tags
  PROVE  /\ t \in Out' <=> (t \in Out /\ ~Leaves(t)) \/ InAlu(t)'
         /\ t \in Out => InFlight(t) /\ ~InLatch(t) /\ t \notin Waiting
         /\ Leaves(t) => t \in Out
<1>1. PacedInv /\ Clock(next, alu_latch)
  BY EdgeIsClock
<1>2. t \in Out' <=> InFlight(t)' /\ ~InLatch(t)' /\ (finish'[t] \/ InAlu(t)')
  BY DEF Out
<1>3. t \in Out <=> InFlight(t) /\ ~InLatch(t) /\ (finish[t] \/ InAlu(t))
  BY DEF Out
<1>4. ASSUME InFlight(t)
      PROVE  finish'[t] <=> ~InLatch(t) /\ (finish[t] \/ InAlu(t))
  BY <1>1, <1>4, FinishStep DEF InAlu
<1>5. InAlu(t)' => InFlight(t) /\ ~Leaves(t)
  BY InAluStep, StaysInFlight
<1>6. Leaves(t) => t \in Out
  BY <1>1, <1>3, HeadWrites DEF PacedInv
<1>7. t \in Out => t \notin Waiting
  BY <1>3, WaitingExecutes
<1>8. CASE id.wr_reg /\ t = rrfptr
  <2>1. InLatch(t)' /\ ~InFlight(t)
    BY <1>1, <1>8, TagStep
  <2> QED
    BY <1>2, <1>3, <1>5, <1>6, <1>7, <2>1
<1>9. CASE ~(id.wr_reg /\ t = rrfptr)
  <2>1. (InFlight(t)' <=> InFlight(t) /\ ~Leaves(t)) /\ ~InLatch(t)'
    BY <1>1, <1>9, TagStep
  <2> QED
    BY <1>2, <1>3, <1>4, <1>5, <1>6, <1>7, <2>1
<1> QED
  BY <1>8, <1>9

(* The overtakers of a waiting instruction after an edge.                  *)
LEMMA OvertakersStep ==
  ASSUME NEW next, Edge(next), NEW t \in Tags, InFlight(t), ~Leaves(t),
         NEW u \in Tags
  PROVE  u \in Overtakers(t)' <=>
           u \in Overtakers(t) \/ (InAlu(u)' /\ Offset(u) > Offset(t))
<1>1. u \in Overtakers(t)' <=> u \in Out' /\ Offset(u)' > Offset(t)'
  BY DEF Overtakers, Out
<1>2. u \in Overtakers(t) <=> u \in Out /\ Offset(u) > Offset(t)
  BY DEF Overtakers
<1>3. u \in Out' <=> (u \in Out /\ ~Leaves(u)) \/ InAlu(u)'
  BY OutStep
<1>4. InAlu(u)' => InFlight(u) /\ ~Leaves(u)
  BY InAluStep, StaysInFlight
<1>5. u \in Out => InFlight(u)
  BY OutStep
<1>6. Leaves(u) => Offset(u) = 0
  BY OffsetIs DEF Edge, Leaves
<1>7. Offset(t) \in Nat /\ Offset(u) \in Nat
  BY OffsetIs DEF Edge
<1>8. CASE Leaves(u)
  BY <1>1, <1>2, <1>3, <1>4, <1>6, <1>7, <1>8
<1>9. CASE ~Leaves(u) /\ InFlight(u)
  <2>1. Offset(t)' < Offset(u)' <=> Offset(t) < Offset(u)
    BY <1>9, OrderStep
  <2>2. Offset(t)' \in Int /\ Offset(u)' \in Int
    BY <1>7, <1>9, EdgeIsClock, TagStep DEF Bit
  <2> QED
    BY <1>1, <1>2, <1>3, <1>4, <1>7, <1>9, <2>1, <2>2
<1>10. CASE ~InFlight(u)
  BY <1>1, <1>2, <1>3, <1>4, <1>5, <1>10
<1> QED
  BY <1>8, <1>9, <1>10

(* The older instructions that wait with it after an edge.                 *)
LEMMA AheadStep ==
  ASSUME NEW next, Edge(next), NEW t \in Waiting, NEW u \in Tags
  PROVE  u \in Ahead(t)' <=> u \in Ahead(t) /\ ~InAlu(u)'
<1>1. t \in Tags /\ InFlight(t) /\ ~Leaves(t) /\ Offset(t) < InUse
  BY WaitingExecutes, StaysInFlight DEF InFlight
<1>2. u \in Ahead(t)' <=> u \in Waiting' /\ Offset(u)' < Offset(t)'
  BY DEF Ahead, Waiting
<1>3. u \in Ahead(t) <=> u \in Waiting /\ Offset(u) < Offset(t)
  BY DEF Ahead
<1>4. u \in Waiting' <=> (u \in Waiting /\ ~InAlu(u)') \/ InLatch(u)
  BY WaitingStep
<1>5. CASE u \in Waiting
  <2>1. Offset(u)' < Offset(t)' <=> Offset(u) < Offset(t)
    BY <1>1, <1>5, StaysInFlight, OrderStep
  <2>2. ~InLatch(u)
    BY <1>5, WaitingExecutes
  <2> QED
    BY <1>2, <1>3, <1>4, <1>5, <2>1, <2>2
<1>6. CASE InLatch(u)
  <2>1. InFlight(u) /\ Offset(u) = InUse - 1
    BY <1>6, LatchTag
  <2>2. Offset(u)' < Offset(t)' <=> Offset(u) < Offset(t)
    BY <1>1, <1>6, StaysInFlight, OrderStep
  <2>3. ~(Offset(u) < Offset(t))
    <3>1. Offset(t) \in Nat /\ Offset(u) \in Nat /\ InUse \in Int
      BY <1>1, OffsetIs, RingEdge DEF Edge, InUse
    <3> QED
      BY <1>1, <2>1, <3>1
  <2> QED
    BY <1>2, <1>3, <2>2, <2>3
<1>7. CASE u \notin Waiting /\ ~InLatch(u)
  BY <1>2, <1>3, <1>4, <1>7
<1> QED
  BY <1>5, <1>6, <1>7

-----------------------------------------------------------------------------
(* Of the instructions that wait, one is the oldest.                       *)
LEMMA OldestWaits ==
  ASSUME NEW next, Edge(next), NEW t \in Waiting
  PROVE  \E o \in Waiting : \A u \in Waiting : Offset(o) <= Offset(u)
<1> DEFINE S == {Offset(u) : u \in Waiting}
<1>1. S \in SUBSET Nat /\ S # {}
  BY WaitingExecutes, OffsetIs DEF Edge
<1>2. \E x \in S : \A y \in S : x <= y
  <2> HIDE DEF S
  <2> QED
    BY <1>1, LeastExists
<1> QED
  BY <1>2

(* When a younger instruction issues first, the oldest that waits does so  *)
(* for one that is older still, and that one can only be in the ALU.       *)
LEMMA AluHoldsOldest ==
  ASSUME NEW next, Edge(next), NEW t \in Waiting, Issue,
         Offset(t) < Offset(entry[IssueEntry].tag)
  PROVE  AluIsOldest
<1>1. PICK o \in Waiting : \A u \in Waiting : Offset(o) <= Offset(u)
  BY OldestWaits
<1>2. PICK e \in BusyEntries : entry[e].tag = o
  BY DEF Waiting
<1>3. IssueEntry \in BusyEntries
  BY AluStep DEF Issue, Ready, BusyEntries
<1>4. entry[IssueEntry].tag \in Waiting
  BY <1>3 DEF Waiting
<1>5. /\ o \in Tags /\ InFlight(o) /\ ~InLatch(o)
      /\ t \in Tags /\ entry[IssueEntry].tag \in Tags
  BY <1>4, WaitingExecutes
<1>6. /\ Offset(o) \in Nat /\ Offset(t) \in Nat
      /\ Offset(entry[IssueEntry].tag) \in Nat
  BY <1>5, OffsetIs DEF Edge
<1>7. ~Ready(e)
  <2>1. e \in Entries /\ OldestFirst
    BY IssuesOldest DEF Edge, BusyEntries
  <2>2. Ready(e) => Offset(entry[IssueEntry].tag) <= Offset(o)
    BY <1>2, <2>1 DEF OldestFirst
  <2>3. Offset(o) <= Offset(t)
    BY <1>1
  <2> QED
    BY <1>6, <2>2, <2>3
<1>8. PICK op : Awaits(op, o)
  <2>1. busy[e] /\ ~(entry[e].valid1 /\ entry[e].valid2)
    BY <1>7 DEF Ready, BusyEntries
  <2>2. /\ ~entry[e].valid1 => Awaits(entry[e].op1, entry[e].tag)
        /\ ~entry[e].valid2 => Awaits(entry[e].op2, entry[e].tag)
    BY DEF Edge, FullInv, CoreInv, WaitsForOlder
  <2>3. CASE ~entry[e].valid1
    BY <1>2, <2>2, <2>3
  <2>4. CASE ~entry[e].valid2
    BY <1>2, <2>2, <2>4
  <2> QED
    BY <2>1, <2>3, <2>4
<1>9. /\ op \in Tags /\ InFlight(op) /\ ~finish[op]
      /\ Offset(op) < Offset(o)
  BY <1>8 DEF Awaits
<1>10. ~InLatch(op)
  <2>1. Offset(o) < InUse /\ InUse \in Int
    BY <1>5, RingEdge DEF InFlight, InUse
  <2>2. Offset(op) \in Nat
    BY <1>9, OffsetIs DEF Edge
  <2> QED
    BY <1>6, <1>9, <2>1, <2>2, LatchTag
<1>11. Executing(op)
  BY <1>9, <1>10, EdgeIsClock DEF PacedInv, EntriesHeld, Executing
<1>12. op \notin Waiting
  <2>1. Offset(op) \in Nat
    BY <1>9, OffsetIs DEF Edge
  <2> QED
    BY <1>1, <1>6, <1>9, <2>1
<1>13. InAlu(op)
  BY <1>9, <1>11, <1>12, WaitingExecutes
<1>14. alu_latch.rob_we /\ alu_latch.rrf_tag = op
  BY <1>13 DEF InAlu
<1>15. \A u \in Waiting : Offset(op) < Offset(u)
  <2> SUFFICES ASSUME NEW u \in Waiting PROVE Offset(op) < Offset(u)
    OBVIOUS
  <2>1. Offset(op) \in Nat /\ Offset(u) \in Nat
    BY <1>9, WaitingExecutes, OffsetIs DEF Edge
  <2> QED
    BY <1>1, <1>6, <1>9, <2>1
<1> QED
  BY <1>14, <1>15 DEF AluIsOldest

(* Nothing can have overtaken more than the station leaves room for when   *)
(* nothing younger has left it.                                            *)
LEMMA OccupancyBound ==
  ASSUME NEW next, Edge(next), Paced(next, 1),
         NEW t \in Waiting', Overtakers(t)' = {}
  PROVE  Overtaken(t)' <= NumEntries - 2
<1> DEFINE A == Ahead(t)'
           D == \E u \in Waiting' : Offset(u)' > Offset(t)'
<1>1. /\ Cardinality(Waiting') + Bit(ForAlu(dp.ctl)') + Bit(alu_latch'.rob_we)
           < NumEntries
      /\ Cardinality(Waiting') \in Nat
  BY RoomPreserved, WaitingCount, BusyIsFinite DEF RoomForAll, Claimed
<1>2. Waiting' \subseteq Tags
  BY PlacesPreserved DEF PlacesOK, Executing, InFlight
<1>3. /\ IsFiniteSet(Waiting') /\ IsFiniteSet(A) /\ Cardinality(A) \in Nat
      /\ A \subseteq Waiting'
  BY <1>2, TagsFinite DEF Ahead
<1>4. \A u \in Tags : Offset(u)' \in Int
  BY RingEdge DEF Offset, Tags
<1>5. Cardinality(A) + Bit(D) <= Cardinality(Waiting') - 1
  <2>1. t \notin A
    BY <1>2, <1>4 DEF Ahead
  <2>2. IsFiniteSet(A \cup {t}) /\ Cardinality(A \cup {t}) = Cardinality(A) + 1
    BY <1>3, <2>1, FS_AddElement
  <2>3. A \cup {t} \subseteq Waiting'
    BY <1>3
  <2>4. CASE D
    <3>1. PICK u \in Waiting' : Offset(u)' > Offset(t)'
      BY <2>4
    <3>2. u \notin A \cup {t}
      BY <1>2, <1>4, <3>1 DEF Ahead
    <3> HIDE DEF A, D
    <3>3. Cardinality((A \cup {t}) \cup {u}) = Cardinality(A) + 2
      <4>1. Cardinality((A \cup {t}) \cup {u}) = Cardinality(A \cup {t}) + 1
        BY <2>2, <3>2, FS_AddElement
      <4> QED
        BY <1>3, <2>2, <4>1
    <3>4. (A \cup {t}) \cup {u} \in SUBSET Waiting'
      BY <2>3, <3>1
    <3>5. Cardinality((A \cup {t}) \cup {u}) <= Cardinality(Waiting')
      BY <1>3, <3>4, FS_Subset
    <3> QED
      BY <1>1, <1>3, <2>4, <3>3, <3>5 DEF Bit
  <2>5. CASE ~D
    <3> HIDE DEF A, D
    <3>1. Cardinality(A \cup {t}) <= Cardinality(Waiting')
      BY <1>3, <2>3, FS_Subset
    <3> QED
      BY <1>1, <1>3, <2>2, <2>5, <3>1 DEF Bit
  <2> QED
    BY <2>4, <2>5
<1>6. Cardinality(Overtakers(t)') = 0
  BY FS_EmptySet
<1>7. Behind(t)' <=> ForAlu(dp.ctl)' \/ D
  BY DEF Behind
<1>8. AluIsOldest' => alu_latch'.rob_we
  BY DEF AluIsOldest
<1>9. Overtaken(t)' = Cardinality(A) + Bit(AluIsOldest') + Bit(Behind(t)')
  <2>1. Overtaken(t)' = Cardinality(Overtakers(t)') + Cardinality(A)
          + Bit(AluIsOldest') + Bit(Overtakers(t)' # {} \/ Behind(t)')
    BY DEF Overtaken, Bit
  <2>2. Bit(Overtakers(t)' # {} \/ Behind(t)') = Bit(Behind(t)')
    BY DEF Bit
  <2> HIDE DEF A
  <2> QED
    BY <1>3, <1>6, <2>1, <2>2 DEF Bit
<1> HIDE DEF A, D
<1> QED
  BY <1>1, <1>3, <1>5, <1>7, <1>8, <1>9 DEF Bit

(* One who has been overtaken: each further one costs him the bit of an    *)
(* older instruction in the ALU, or one of those ahead of him.             *)
LEMMA OvertakenStep ==
  ASSUME NEW next, Edge(next), NEW t \in Waiting, t \in Waiting',
         Overtakers(t)' # {}
  PROVE  Overtaken(t)' <= NumEntries - 2
<1> DEFINE O == Cardinality(Overtakers(t))
           A == Cardinality(Ahead(t))
<1>1. /\ t \in Tags /\ InFlight(t) /\ ~Leaves(t) /\ ~InAlu(t)'
  BY WaitingExecutes, StaysInFlight, WaitingStep
<1>2. /\ Overtakers(t) \subseteq Tags /\ Ahead(t) \subseteq Tags
      /\ Overtakers(t)' \subseteq Tags /\ Ahead(t)' \subseteq Tags
  <2>1. Waiting \subseteq Tags /\ Waiting' \subseteq Tags
    BY WaitingExecutes, PlacesPreserved DEF PlacesOK, Executing, InFlight
  <2> QED
    BY <2>1 DEF Overtakers, Out, Ahead
<1>3. /\ IsFiniteSet(Overtakers(t)) /\ O \in Nat
      /\ IsFiniteSet(Ahead(t)) /\ A \in Nat
  BY <1>2, TagsFinite
<1>4. O + A + Bit(AluIsOldest) + Bit(Overtakers(t) # {} \/ Behind(t))
        <= NumEntries - 2
  BY DEF Edge, FullInv, CoreInv, Overtaking, Overtaken
<1>5. \A u \in Tags :
        /\ u \in Overtakers(t)' <=>
             u \in Overtakers(t) \/ (InAlu(u)' /\ Offset(u) > Offset(t))
        /\ u \in Ahead(t)' <=> u \in Ahead(t) /\ ~InAlu(u)'
  BY <1>1, OvertakersStep, AheadStep
<1>6. Overtaken(t)' = Cardinality(Overtakers(t)') + Cardinality(Ahead(t)')
                        + Bit(AluIsOldest') + 1
  BY DEF Overtaken, Bit
<1>7. AluIsOldest' => /\ alu_latch'.rob_we
                      /\ Offset(alu_latch.rrf_tag)' < Offset(t)'
  BY DEF AluIsOldest
<1>8. CASE ~Issue
  <2>1. \A u \in Tags : ~InAlu(u)'
    BY <1>8, InAluStep
  <2>2. Overtakers(t)' = Overtakers(t) /\ Ahead(t)' = Ahead(t)
    BY <1>2, <1>5, <2>1
  <2>3. ~AluIsOldest'
    BY <1>7, <1>8, AluStep
  <2>4. Overtaken(t)' = O + A + 1
    BY <1>3, <1>6, <2>2, <2>3 DEF Bit
  <2>5. Overtakers(t) # {}
    BY <2>2
  <2> HIDE DEF O, A
  <2> QED
    BY <1>3, <1>4, <2>4, <2>5 DEF Bit
<1>9. CASE Issue
  <2>1. PICK i \in Waiting : i = entry[IssueEntry].tag
    BY <1>9, AluStep DEF Issue, Ready, BusyEntries, Waiting
  <2>2. \A u \in Tags : InAlu(u)' <=> u = i
    BY <1>9, <2>1, InAluStep
  <2>3. i \in Tags /\ i # t /\ i \notin Overtakers(t)
    BY <1>1, <2>1, <2>2, WaitingExecutes, OutStep DEF Overtakers
  <2>4. Offset(i) \in Nat /\ Offset(t) \in Nat /\ Offset(i) # Offset(t)
    BY <1>1, <2>3, OffsetIs DEF Edge
  <2>5. CASE Offset(i) < Offset(t)
    <3>1. Overtakers(t)' = Overtakers(t)
      BY <1>2, <1>5, <2>2, <2>4, <2>5
    <3>2. Ahead(t)' = Ahead(t) \ {i} /\ i \in Ahead(t)
      BY <1>2, <1>5, <2>2, <2>3, <2>5 DEF Ahead
    <3>3. Cardinality(Ahead(t)') = A - 1
      BY <1>3, <3>2, FS_RemoveElement
    <3>4. Overtakers(t) # {}
      BY <3>1
    <3> HIDE DEF O, A
    <3> QED
      BY <1>3, <1>4, <1>6, <3>1, <3>3, <3>4 DEF Bit, O
  <2>6. CASE Offset(i) > Offset(t)
    <3>1. Overtakers(t)' = Overtakers(t) \cup {i}
      BY <1>2, <1>5, <2>2, <2>3, <2>6
    <3>2. Cardinality(Overtakers(t)') = O + 1
      BY <1>3, <2>3, <3>1, FS_AddElement
    <3>3. Ahead(t)' = Ahead(t)
      BY <1>2, <1>5, <2>2, <2>4, <2>6 DEF Ahead
    <3>4. AluIsOldest
      BY <1>9, <2>1, <2>4, <2>6, AluHoldsOldest
    <3>5. Behind(t)
      BY <2>1, <2>6 DEF Behind
    <3>6. ~AluIsOldest'
      <4>1. alu_latch'.rrf_tag = i
        BY <2>1, AluStep
      <4>2. Offset(t)' < Offset(i)'
        BY <1>1, <2>1, <2>3, <2>4, <2>6, StaysInFlight, OrderStep
      <4>3. Offset(i)' \in Int /\ Offset(t)' \in Int
        BY <1>1, <2>3, RingEdge DEF Offset, Tags
      <4>4. Offset(alu_latch.rrf_tag)' = Offset(i)'
        BY <4>1 DEF Offset
      <4> QED
        BY <1>7, <4>2, <4>3, <4>4
    <3> HIDE DEF O, A
    <3> QED
      BY <1>3, <1>4, <1>6, <3>2, <3>3, <3>4, <3>5, <3>6 DEF Bit, A
  <2> QED
    BY <2>4, <2>5, <2>6
<1> QED
  BY <1>8, <1>9

(* How many have left the station and not the core.                        *)
LEMMA OutCount ==
  ASSUME NEW next, Edge(next)
  PROVE  /\ IsFiniteSet(Out) /\ Cardinality(Out) \in Nat
         /\ IsFiniteSet(Out') /\ Cardinality(Out') \in Nat
         /\ Cardinality(Out') =
              Cardinality(Out) - Bit(commit_1) + Bit(Issue)
<1> DEFINE stay == {u \in Out : ~Leaves(u)}
<1>1. Out \subseteq Tags /\ Out' \subseteq Tags /\ stay \subseteq Tags
  BY DEF Out
<1>2. /\ IsFiniteSet(Out) /\ Cardinality(Out) \in Nat
      /\ IsFiniteSet(Out') /\ Cardinality(Out') \in Nat
      /\ IsFiniteSet(stay) /\ Cardinality(stay) \in Nat
  BY <1>1, TagsFinite
<1>3. Cardinality(stay) = Cardinality(Out) - Bit(commit_1)
  <2>1. commit_ptr_1 \in Tags
    BY RingEdge DEF Tags
  <2>2. CASE commit_1
    <3>1. commit_ptr_1 \in Out
      BY <2>1, <2>2, OutStep DEF Leaves
    <3>2. stay = Out \ {commit_ptr_1}
      BY <2>2 DEF Leaves
    <3> HIDE DEF stay
    <3> QED
      BY <1>2, <2>2, <3>1, <3>2, FS_RemoveElement DEF Bit
  <2>3. CASE ~commit_1
    <3>1. stay = Out
      BY <2>3 DEF Leaves
    <3> HIDE DEF stay
    <3> QED
      BY <1>2, <2>3, <3>1 DEF Bit
  <2> QED
    BY <2>2, <2>3
<1>4. Cardinality(Out') = Cardinality(stay) + Bit(Issue)
  <2>1. CASE Issue
    <3>1. PICK i \in Waiting : i = entry[IssueEntry].tag
      BY <2>1, AluStep DEF Issue, Ready, BusyEntries, Waiting
    <3>2. i \in Tags /\ i \notin stay
      BY <3>1, WaitingExecutes, OutStep
    <3>3. \A u \in Tags : InAlu(u)' <=> u = i
      BY <2>1, <3>1, InAluStep
    <3>4. Out' = stay \cup {i}
      BY <1>1, <3>2, <3>3, OutStep
    <3> HIDE DEF stay
    <3> QED
      BY <1>2, <2>1, <3>2, <3>4, FS_AddElement DEF Bit
  <2>2. CASE ~Issue
    <3>1. Out' = stay
      BY <1>1, <2>2, InAluStep, OutStep
    <3> HIDE DEF stay
    <3> QED
      BY <1>2, <2>2, <3>1 DEF Bit
  <2> QED
    BY <2>1, <2>2
<1> HIDE DEF stay
<1> QED
  BY <1>2, <1>3, <1>4

(* Unless the oldest instruction commits, one may leave the station only   *)
(* when there is room for it among those that have left.                   *)
LEMMA OutBound ==
  ASSUME NEW next, Edge(next)
  PROVE  Cardinality(Out') <= NumEntries - 1
<1>1. /\ Cardinality(Out) <= NumEntries - 1
      /\ InAlu(commit_ptr_1) /\ Waiting # {}
           => Cardinality(Out) <= NumEntries - 2
      /\ \A t \in Waiting : Overtaken(t) <= NumEntries - 2
  BY DEF Edge, FullInv, CoreInv, Overtaking
<1>2. CASE commit_1 \/ ~Issue
  BY <1>1, <1>2, OutCount DEF Bit
<1>3. CASE ~commit_1 /\ Issue
  <2>1. PICK i \in Waiting : i = entry[IssueEntry].tag
    BY <1>3, AluStep DEF Issue, Ready, BusyEntries, Waiting
  <2>2. PICK h \in Tags : h = commit_ptr_1
    BY RingEdge DEF Tags
  <2>3. /\ i \in Tags /\ InFlight(i) /\ ~InLatch(i)
        /\ Offset(i) \in Nat /\ Offset(h) = 0 /\ InUse \in Int
    BY <2>1, <2>2, WaitingExecutes, OffsetIs, RingEdge DEF Edge, InUse
  <2>4. InFlight(h)
    BY <2>3 DEF InFlight
  <2>5. ~InLatch(h)
    <3> SUFFICES ASSUME InLatch(h) PROVE FALSE
      OBVIOUS
    <3>1. InUse = 1
      BY <2>3, LatchTag
    <3>2. Offset(i) = 0
      BY <2>3, <3>1 DEF InFlight
    <3> QED
      BY <2>2, <2>3, <3>2, OffsetIs DEF Edge
  <2>6. Executing(h)
    BY <1>3, <2>2, <2>4, <2>5, EdgeIsClock
    DEF PacedInv, EntriesHeld, commit_1, Executing
  <2>7. CASE InAlu(h)
    BY <1>1, <1>3, <2>1, <2>2, <2>7, OutCount DEF Bit
  <2>8. CASE h \in Waiting
    <3>1. Overtakers(h) = Out
      <4> SUFFICES ASSUME NEW u \in Out PROVE Offset(u) > Offset(h)
        BY DEF Overtakers
      <4>1. u \in Tags /\ u # h
        BY <2>8, OutStep DEF Out
      <4> QED
        BY <2>2, <2>3, <4>1, OffsetIs DEF Edge
    <3>2. Ahead(h) \subseteq Tags
      BY WaitingExecutes DEF Ahead
    <3>3. Cardinality(Ahead(h)) \in Nat
      BY <3>2, TagsFinite
    <3>4. Cardinality(Out) <= NumEntries - 2
      BY <1>1, <2>8, <3>1, <3>3, OutCount DEF Overtaken, Bit
    <3> QED
      BY <1>3, <3>4, OutCount DEF Bit
  <2> QED
    BY <2>6, <2>7, <2>8, WaitingExecutes
<1> QED
  BY <1>2, <1>3 DEF commit_1

(* The head of the ring in the ALU has left the station with those behind  *)
(* it.                                                                     *)
LEMMA HeadBound ==
  ASSUME NEW next, Edge(next), InAlu(commit_ptr_1)', Waiting' # {}
  PROVE  Cardinality(Out') <= NumEntries - 2
<1>1. PICK h \in Tags : h = commit_ptr_1'
  BY RingEdge DEF Tags
<1>2. InAlu(h)'
  BY <1>1 DEF InAlu
<1>3. h \in Waiting /\ InFlight(h) /\ ~Leaves(h) /\ h \notin Overtakers(h)
  BY <1>2, InAluStep, StaysInFlight, OutStep DEF Overtakers
<1>4. \A u \in Tags : InAlu(u)' <=> u = h
  BY <1>2 DEF InAlu
<1>5. /\ \A u \in Tags : Offset(u)' \in Nat /\ (Offset(u)' = 0 => u = h)
      /\ Offset(h)' = 0
  <2>1. h \in 1..NumTags
    BY DEF Tags
  <2>2. ASSUME NEW u \in 1..NumTags
        PROVE  Offset(u)' \in Nat /\ (Offset(u)' = 0 => u = h)
    <3>1. Offset(u)' = IF u >= h THEN u - h ELSE u - h + NumTags
      BY <1>1 DEF Offset
    <3> QED
      BY <2>1, <3>1
  <2>3. Offset(h)' = 0
    <3>1. Offset(h)' = IF h >= h THEN h - h ELSE h - h + NumTags
      BY <1>1 DEF Offset
    <3> QED
      BY <2>1, <3>1
  <2> QED
    BY <2>2, <2>3 DEF Tags
<1>6. Out' = Overtakers(h) \cup {h}
  <2>1. ASSUME NEW u \in Tags
        PROVE  u \in Out' <=> u \in Overtakers(h) \cup {h}
    <3>1. u \in Overtakers(h)' <=>
            u \in Overtakers(h) \/ (InAlu(u)' /\ Offset(u) > Offset(h))
      BY <1>3, OvertakersStep
    <3>2. u \in Overtakers(h)' <=> u \in Out' /\ Offset(u)' > Offset(h)'
      BY DEF Overtakers, Out
    <3>3. CASE u = h
      BY <1>2, <3>3, OutStep
    <3>4. CASE u # h
      BY <1>4, <1>5, <3>1, <3>2, <3>4
    <3> QED
      BY <3>3, <3>4
  <2>2. Out' \subseteq Tags /\ Overtakers(h) \subseteq Tags
    BY DEF Out, Overtakers
  <2> QED
    BY <2>1, <2>2
<1>7. /\ IsFiniteSet(Overtakers(h)) /\ Cardinality(Overtakers(h)) \in Nat
      /\ Cardinality(Ahead(h)) \in Nat
  <2>1. Overtakers(h) \subseteq Tags /\ Ahead(h) \subseteq Tags
    BY WaitingExecutes DEF Out, Overtakers, Ahead
  <2> QED
    BY <2>1, TagsFinite
<1>8. Cardinality(Out') = Cardinality(Overtakers(h)) + 1
  BY <1>3, <1>6, <1>7, FS_AddElement
<1>9. Behind(h)
  <2>1. PICK w \in Waiting' : TRUE
    OBVIOUS
  <2>2. w \in Tags
    BY PlacesPreserved DEF PlacesOK, Executing, InFlight
  <2>3. CASE InLatch(w)
    BY <2>2, <2>3, LatchTag DEF Behind
  <2>4. CASE ~InLatch(w)
    <3>1. w \in Waiting /\ ~InAlu(w)'
      BY <2>1, <2>2, <2>4, WaitingStep
    <3>2. w # h /\ Offset(w)' > Offset(h)'
      BY <1>2, <1>5, <2>2, <3>1
    <3>3. Offset(h)' < Offset(w)'
      BY <1>5, <2>2, <3>2
    <3>4. Offset(h) < Offset(w)
      BY <1>3, <2>2, <3>1, <3>3, StaysInFlight, OrderStep
    <3>5. Offset(h) \in Nat /\ Offset(w) \in Nat
      BY <2>2, OffsetIs DEF Edge
    <3> QED
      BY <3>1, <3>4, <3>5 DEF Behind
  <2> QED
    BY <2>3, <2>4
<1>10. Overtaken(h) <= NumEntries - 2
  BY <1>3 DEF Edge, FullInv, CoreInv, Overtaking
<1> QED
  BY <1>7, <1>8, <1>9, <1>10 DEF Overtaken, Bit

(* Every edge keeps the count.                                             *)
LEMMA OvertakingPreserved ==
  ASSUME NEW next, Edge(next), Paced(next, 1)
  PROVE  Overtaking'
<1>1. ASSUME NEW t \in Waiting' PROVE Overtaken(t)' <= NumEntries - 2
  <2>1. t \in Tags
    BY PlacesPreserved DEF PlacesOK, Executing, InFlight
  <2>2. CASE Overtakers(t)' = {}
    BY <2>2, OccupancyBound
  <2>3. CASE Overtakers(t)' # {} /\ t \in Waiting
    BY <2>3, OvertakenStep
  <2>4. CASE InLatch(t)
    <3>1. Offset(t) = InUse - 1 /\ InFlight(t) /\ ~Leaves(t)
      BY <2>1, <2>4, LatchTag, StaysInFlight
    <3>2. \A u \in Tags : InFlight(u) => ~(Offset(u) > Offset(t))
      <4> SUFFICES ASSUME NEW u \in Tags, InFlight(u)
                   PROVE  ~(Offset(u) > Offset(t))
        OBVIOUS
      <4>1. Offset(u) \in Nat /\ Offset(u) < InUse /\ InUse \in Int
        BY OffsetIs, RingEdge DEF Edge, InFlight, InUse
      <4> QED
        BY <3>1, <4>1
    <3>3. \A u \in Tags : u \notin Overtakers(t)'
      BY <2>1, <3>1, <3>2, OvertakersStep, OutStep, InAluStep, StaysInFlight
      DEF Overtakers
    <3>4. Overtakers(t)' \subseteq Tags
      BY DEF Overtakers, Out
    <3>5. Overtakers(t)' = {}
      BY <3>3, <3>4
    <3> QED
      BY <3>5, OccupancyBound
  <2> QED
    BY <2>1, <2>2, <2>3, <2>4, WaitingStep
<1>2. Cardinality(Out') <= NumEntries - 1
  BY OutBound
<1>3. InAlu(commit_ptr_1)' /\ Waiting' # {}
        => Cardinality(Out') <= NumEntries - 2
  BY HeadBound
<1> QED
  BY <1>1, <1>2, <1>3 DEF Overtaking

-----------------------------------------------------------------------------
(* Who is in flight has left the station, waits in it, or is on its way.   *)
LEMMA InUseBound ==
  ASSUME NEW next, Edge(next)
  PROVE  /\ InUse' <= Cardinality(Out') + Cardinality(Waiting')
                        + Bit(ForAlu(id))
         /\ Cardinality(Waiting') \in Nat
<1> DEFINE latch == IF ForAlu(id) THEN {rrfptr} ELSE {}
           T == {t \in Tags : InFlight(t)'}
<1>1. PICK c \in Tags : c = commit_ptr_1'
  BY RingEdge DEF Tags
<1>2. PICK n \in 0..NumTags : n = InUse'
  BY RingEdge DEF InUse
<1>3. T = {t \in Tags : (IF t >= c THEN t - c ELSE t - c + NumTags) < n}
  BY <1>1, <1>2 DEF InFlight, Offset, InUse
<1>4. n <= Cardinality(T)
  BY <1>3, RingCount
<1>5. Out' \subseteq Tags /\ Waiting' \subseteq Tags
  BY PlacesPreserved DEF Out, PlacesOK, Executing, InFlight
<1>6. /\ IsFiniteSet(Out') /\ Cardinality(Out') \in Nat
      /\ IsFiniteSet(Waiting') /\ Cardinality(Waiting') \in Nat
  BY <1>5, TagsFinite
<1>7. IsFiniteSet(latch) /\ Cardinality(latch) = Bit(ForAlu(id))
  BY FS_EmptySet, FS_Singleton DEF Bit
<1>8. T \subseteq (Out' \cup Waiting') \cup latch
  <2> SUFFICES ASSUME NEW t \in Tags, InFlight(t)',
                      t \notin Out', t \notin Waiting'
               PROVE  t \in latch
    OBVIOUS
  <2>1. ~InAlu(t)' /\ ~Executing(t)'
    BY OutStep, PlacesPreserved DEF PlacesOK
  <2>2. EntriesHeld'
    BY EdgeIsClock, EntriesHeldPreserved
  <2>3. InLatch(t)'
    BY <2>1, <2>2 DEF Out, Executing, EntriesHeld
  <2> QED
    BY <2>3, PipelineStep DEF InLatch, Edge, FullInv, CoreInv, AluOnlyStages
<1>9. /\ IsFiniteSet(Out' \cup Waiting')
      /\ Cardinality(Out' \cup Waiting')
           <= Cardinality(Out') + Cardinality(Waiting')
  <2>1. /\ IsFiniteSet(Out' \cup Waiting')
        /\ Cardinality(Out' \cup Waiting') =
             Cardinality(Out') + Cardinality(Waiting')
               - Cardinality(Out' \cap Waiting')
    BY <1>6, FS_Union
  <2>2. Cardinality(Out' \cap Waiting') \in Nat
    BY <1>5, TagsFinite
  <2> QED
    BY <1>6, <2>1, <2>2
<1> HIDE DEF latch, T
<1>10. /\ IsFiniteSet((Out' \cup Waiting') \cup latch)
       /\ Cardinality((Out' \cup Waiting') \cup latch)
            <= Cardinality(Out' \cup Waiting') + Cardinality(latch)
  <2>1. /\ IsFiniteSet((Out' \cup Waiting') \cup latch)
        /\ Cardinality((Out' \cup Waiting') \cup latch) =
             Cardinality(Out' \cup Waiting') + Cardinality(latch)
               - Cardinality((Out' \cup Waiting') \cap latch)
    BY <1>7, <1>9, FS_Union
  <2>2. (Out' \cup Waiting') \cap latch \in SUBSET Tags
    BY <1>5
  <2>3. Cardinality((Out' \cup Waiting') \cap latch) \in Nat
    BY <2>2, TagsFinite
  <2>4. Cardinality(Out' \cup Waiting') \in Nat
    BY <1>9, FS_CardinalityType
  <2> QED
    BY <1>7, <2>1, <2>3, <2>4 DEF Bit
<1>11. Cardinality(T) <= Cardinality((Out' \cup Waiting') \cup latch)
  BY <1>8, <1>10, FS_Subset
<1>12. /\ Cardinality(T) \in Nat
       /\ Cardinality((Out' \cup Waiting') \cup latch) \in Nat
       /\ Cardinality(Out' \cup Waiting') \in Nat
  <2>1. T \in SUBSET Tags
    BY DEF T
  <2> QED
    BY <1>9, <1>10, <2>1, TagsFinite, FS_CardinalityType
<1> QED
  BY <1>2, <1>4, <1>6, <1>7, <1>9, <1>10, <1>11, <1>12 DEF Bit

(* Whoever needs a tag finds two that are free.                            *)
LEMMA TagsSuffice ==
  ASSUME NEW next, Edge(next), Paced(next, 1), AluProgram, RingCovers
  PROVE  Headroom(next)
<1> SUFFICES ASSUME next.wr_reg PROVE FreeAfterEdge >= 2
  BY DEF Headroom
<1>1. ForAlu(id') /\ id' = next /\ dp'.ctl = id
  BY PipelineStep, StagesPreserved DEF AluOnlyStages
<1>2. Claimed' + 1 < NumEntries
  BY <1>1, RoomPreserved DEF RoomForAll, Bit
<1>3. Claimed' = Cardinality(Waiting') + Bit(ForAlu(id))
  BY <1>1, WaitingCount DEF Claimed
<1>4. InUse' <= Cardinality(Out') + Claimed'
  BY <1>3, InUseBound, OutCount DEF Bit
<1>5. Claimed' \in Nat /\ Cardinality(Out') \in Nat
  BY <1>3, InUseBound, OutCount DEF Bit
<1>6. InUse' <= NumTags - 2
  <2>1. Cardinality(Out') <= NumEntries - 1 /\ NumTags >= 2 * NumEntries - 1
    BY OutBound DEF RingCovers
  <2>2. InUse' \in Int
    BY RingEdge DEF InUse
  <2>3. PICK c, o, u \in Int : c = Claimed' /\ o = Cardinality(Out') /\ u = InUse'
    BY <1>5, <2>2
  <2>4. u <= o + c /\ c + 1 < NumEntries /\ o <= NumEntries - 1
    BY <1>2, <1>4, <2>1, <2>3
  <2>5. u <= 2 * NumEntries - 3
    BY <2>4
  <2>6. NumTags >= 2 * NumEntries - 1
    BY <2>1
  <2> QED
    BY <2>3, <2>5, <2>6
<1>7. freenum' = FreeAfterEdge
  BY RingEdge DEF FreeAfterEdge
<1> QED
  BY <1>6, <1>7, RingEdge DEF InUse

-----------------------------------------------------------------------------
(* The invariant holds after the reset, ...                                *)
LEMMA CoreInitInv ==
  ASSUME CoreInit
  PROVE  FullInv
<1>1. Init /\ RsInit /\ ExInit /\ insn = [t \in Tags |-> Bubble]
  BY DEF CoreInit
<1>2. PacedInv
  BY <1>1, PacedInitInv
<1>3. /\ freenum = NumTags /\ rrfptr = 1 /\ commit_ptr_1 = 1
      /\ nextrrfcyc = FALSE /\ nextrrfcyc_reg = FALSE
      /\ id = Bubble /\ dp.ctl = Bubble /\ dp.tag = 1 /\ dp.alloc = TRUE
  BY <1>1 DEF Init, DispatchInit, AllocInit, RobInit
<1>4. Bubble \in Control /\ Bubble.wr_reg = FALSE /\ Bubble.rs_ent = "none"
  BY FetchableIsControl DEF Fetchable, Bubble
<1>5. \A t \in Tags : ~InFlight(t)
  BY <1>3 DEF InFlight, Offset, InUse, Tags
<1>6. /\ \A e \in Entries : busy[e] = FALSE /\ entry[e].tag = 0
                            /\ sort_bit[e] = (e = 0)
      /\ BusyEntries = {}
  BY <1>1 DEF RsInit, BusyEntries
<1>7. Waiting = {}
  BY <1>6 DEF Waiting
<1>8. /\ alu_latch.rob_we = FALSE /\ alu_latch.rrf_we = FALSE
      /\ alu_latch.rrf_tag = 0
  BY <1>1 DEF ExInit
<1>9. CoreTypeOK
  <2>1. TypeOK
    BY <1>2 DEF PacedInv, Inv
  <2>2. RsTypeOK
    BY <1>1, <1>4 DEF RsInit, RsTypeOK, TagIndex, Operand
  <2>3. ExTypeOK
    BY <1>1 DEF ExInit, ExTypeOK, TagIndex
  <2> QED
    BY <1>1, <1>4, <2>1, <2>2, <2>3 DEF CoreTypeOK
<1>10. AluOnlyStages
  BY <1>3, <1>4, <1>6 DEF AluOnlyStages, ForAlu
<1>11. LatchLegal /\ PlacesOK
  BY <1>5, <1>6, <1>7, <1>8 DEF LatchLegal, PlacesOK, InAlu, Executing
<1>12. RoomForAll
  BY <1>3, <1>4, <1>6, <1>8, FS_EmptySet
  DEF RoomForAll, Claimed, ForAlu, Bit
<1>13. LastUnused
  <2>1. NumEntries - 1 \in Entries /\ (NumEntries > 1 => NumEntries - 1 # 0)
    BY DEF Entries
  <2> QED
    BY <1>6, <2>1 DEF LastUnused
<1>14. WaitsForOlder
  BY <1>3, <1>4, <1>6 DEF WaitsForOlder, ForAlu
<1>15. SortBits
  BY <1>3, <1>4, <1>6 DEF SortBits
<1>16. Overtaking
  <2>1. Out = {}
    BY <1>5 DEF Out
  <2>2. Cardinality(Out) = 0
    BY <2>1, FS_EmptySet
  <2> QED
    BY <1>7, <2>2 DEF Overtaking
<1>17. CoreInv
  BY <1>9, <1>10, <1>11, <1>12, <1>13, <1>14, <1>15, <1>16 DEF CoreInv
<1> QED
  BY <1>2, <1>17 DEF FullInv

(* ... and every clock edge of a stream that spares an entry keeps it.     *)
LEMMA EdgeKeeps ==
  ASSUME NEW next, Edge(next), Paced(next, 1), AluProgram, RingCovers
  PROVE  FullInv'
<1>1. /\ PacedInv /\ next \in Control /\ alu_latch \in Exe
      /\ Legal(alu_latch) /\ Clock(next, alu_latch)
  BY EdgeIsClock
<1>2. Headroom(next)
  BY TagsSuffice
<1>3. PacedInv'
  <2>1. Inv'
    BY <1>1, ClockInv DEF PacedInv
  <2>2. TwoFree' /\ LatchIsLast' /\ EntriesHeld'
    BY <1>1, <1>2, TwoFreePreserved, LatchIsLastPreserved,
       EntriesHeldPreserved
  <2>3. RenameTable' /\ RrfFollowsOwner'
    BY <1>1, RenameTablePreserved, RrfPreserved
  <2> QED
    BY <2>1, <2>2, <2>3 DEF PacedInv
<1>4. CoreInv'
  <2>1. CoreTypeOK' /\ AluOnlyStages' /\ LatchLegal' /\ PlacesOK'
    BY CoreTypePreserved, StagesPreserved, LegalPreserved, PlacesPreserved
  <2>2. RoomForAll' /\ LastUnused' /\ WaitsForOlder' /\ SortBits'
    BY RoomPreserved, LastPreserved, WaitsPreserved, SortBitsPreserved
  <2>3. Overtaking'
    BY OvertakingPreserved
  <2> QED
    BY <2>1, <2>2, <2>3 DEF CoreInv
<1> QED
  BY <1>3, <1>4 DEF FullInv

(* An edge that changes nothing keeps the invariant.                       *)
LEMMA CoreStutters ==
  ASSUME FullInv, UNCHANGED coreVars
  PROVE  FullInv'
<1>1. UNCHANGED <<vars, rsVars, alu_latch, insn>>
  BY DEF coreVars
<1>2. PacedInv'
  BY <1>1, PacedStepInv DEF FullInv
<1>3. /\ UNCHANGED <<entry, busy, sort_bit, alu_latch, insn>>
      /\ UNCHANGED <<freenum, rrfptr, nextrrfcyc, id, dp, nextrrfcyc_reg>>
      /\ UNCHANGED <<valid, finish, dstValid, dst, commit_ptr_1>>
  BY <1>1 DEF vars, rsVars, allocVars, dpVars, robVars
<1>4. CoreTypeOK'
  BY <1>2, <1>3
  DEF FullInv, CoreInv, CoreTypeOK, PacedInv, Inv, RsTypeOK, ExTypeOK
<1>5. AluOnlyStages' /\ LatchLegal' /\ PlacesOK'
  BY <1>3
  DEF FullInv, CoreInv, AluOnlyStages, LatchLegal, PlacesOK, BusyEntries,
      Waiting, InAlu, Executing, InFlight, InLatch, Offset, InUse, ForAlu
<1>6. RoomForAll' /\ LastUnused' /\ WaitsForOlder' /\ SortBits'
  BY <1>3
  DEF FullInv, CoreInv, RoomForAll, Claimed, BusyEntries, LastUnused,
      WaitsForOlder, Awaits, InFlight, Offset, InUse, SortBits, Wrapping,
      BeforeWrap, ForAlu
<1>7. Overtaking'
  BY <1>3
  DEF FullInv, CoreInv, Overtaking, Overtaken, Overtakers, Out, Ahead, Behind,
      AluIsOldest, BusyEntries, Waiting, InAlu, InFlight, InLatch, Offset,
      InUse, ForAlu
<1> QED
  BY <1>2, <1>4, <1>5, <1>6, <1>7 DEF FullInv, CoreInv

(* So it always holds.                                                     *)
LEMMA CoreSpecInv == AluProgram /\ RingCovers => (SpareSpec => []FullInv)
<1> SUFFICES ASSUME AluProgram /\ RingCovers PROVE SpareSpec => []FullInv
  OBVIOUS
<1>1. CoreInit => FullInv
  BY CoreInitInv
<1>2. FullInv /\ [CoreNext(1)]_coreVars => FullInv'
  BY EdgeKeeps, CoreStutters DEF CoreNext, Edge
<1> QED
  BY <1>1, <1>2, PTL DEF SpareSpec

-----------------------------------------------------------------------------
(* Every register of the core, of the station and of the ALU's latch keeps *)
(* its width.                                                              *)
THEOREM CoreTypeCorrect ==
  ASSUME AluProgram /\ RingCovers
  PROVE  SpareSpec => []CoreTypeOK
<1>1. FullInv => CoreTypeOK
  BY DEF FullInv, CoreInv
<1> QED
  BY <1>1, CoreSpecInv, PTL

(* The inductive invariant, part by part (HeliosXInv).                     *)
THEOREM CoreInvariant ==
  ASSUME AluProgram /\ RingCovers
  PROVE  SpareSpec => []CoreInv
<1>1. FullInv => CoreInv
  BY DEF FullInv
<1> QED
  BY <1>1, CoreSpecInv, PTL

(* Of the ready instructions the station issues the oldest, although the   *)
(* tags wrap and the sort bits are cleared an edge later.                  *)
THEOREM StationIssuesOldest ==
  ASSUME AluProgram /\ RingCovers
  PROVE  SpareSpec => []OldestFirst
<1>1. FullInv => OldestFirst
  BY IssuesOldest
<1> QED
  BY <1>1, CoreSpecInv, PTL

(* An unfinished instruction is in exactly one place.                      *)
LEMMA PlacesAreOne ==
  ASSUME FullInv
  PROVE  ExactlyOnce
<1> SUFFICES ASSUME NEW t \in Tags
             PROVE  Cardinality(Places(t)) =
                      IF InFlight(t) /\ (InLatch(t) \/ ~finish[t]) THEN 1 ELSE 0
  BY DEF ExactlyOnce
<1> DEFINE held == {e \in Entries : busy[e] /\ entry[e].tag = t}
<1>1. Places(t) = (IF InLatch(t) THEN {"latch"} ELSE {})
                    \cup held \cup (IF InAlu(t) THEN {"alu"} ELSE {})
  BY DEF Places, InAlu
<1>2. /\ t \in Waiting => Executing(t) /\ ~InAlu(t)
      /\ InAlu(t) => Executing(t)
      /\ Executing(t) => t \in Waiting \/ InAlu(t)
  BY DEF FullInv, CoreInv, PlacesOK, LatchLegal, InAlu
<1>3. InFlight(t) /\ ~InLatch(t) /\ ~finish[t] <=> Executing(t)
  BY DEF FullInv, PacedInv, EntriesHeld, Executing
<1>4. InLatch(t) => InFlight(t)
  BY DEF FullInv, PacedInv, LatchIsLast, InLatch
<1>5. t \in Waiting => \E e : held = {e}
  <2> SUFFICES ASSUME t \in Waiting PROVE \E e : held = {e}
    OBVIOUS
  <2>1. PICK e \in BusyEntries : entry[e].tag = t
    BY DEF Waiting
  <2>2. \A f \in BusyEntries : entry[f].tag = t => f = e
    BY <2>1 DEF FullInv, CoreInv, PlacesOK
  <2> QED
    BY <2>1, <2>2 DEF BusyEntries
<1>6. t \notin Waiting => held = {}
  BY DEF Waiting, BusyEntries
<1> HIDE DEF held
<1>7. CASE InLatch(t)
  <2>1. Places(t) = {"latch"}
    BY <1>1, <1>2, <1>3, <1>6, <1>7
  <2> QED
    BY <1>4, <1>7, <2>1, FS_Singleton
<1>8. CASE ~InLatch(t) /\ t \in Waiting
  <2>1. \E e : Places(t) = {e}
    BY <1>1, <1>2, <1>5, <1>8
  <2> QED
    BY <1>2, <1>3, <1>8, <2>1, FS_Singleton
<1>9. CASE ~InLatch(t) /\ t \notin Waiting /\ InAlu(t)
  <2>1. Places(t) = {"alu"}
    BY <1>1, <1>6, <1>9
  <2> QED
    BY <1>2, <1>3, <1>9, <2>1, FS_Singleton
<1>10. CASE ~InLatch(t) /\ t \notin Waiting /\ ~InAlu(t)
  <2>1. Places(t) = {}
    BY <1>1, <1>6, <1>10
  <2> QED
    BY <1>2, <1>3, <1>10, <2>1, FS_EmptySet
<1> QED
  BY <1>7, <1>8, <1>9, <1>10

(* The station neither loses an instruction nor holds one twice.           *)
THEOREM NothingLostOrDoubled ==
  ASSUME AluProgram /\ RingCovers
  PROVE  SpareSpec => []ExactlyOnce
<1>1. FullInv => ExactlyOnce
  BY PlacesAreOne
<1> QED
  BY <1>1, CoreSpecInv, PTL

(* A waiting operand becomes ready by the result it waits for and by no    *)
(* other, though the idle ALU's tag is on the bus on every cycle.          *)
THEOREM WokenByOwnResult ==
  ASSUME AluProgram /\ RingCovers
  PROVE  SpareSpec => WokenByResult
<1> DEFINE Woken ==
      \A e \in Entries : busy'[e] =>
        LET was == IF busy[e] THEN entry[e] ELSE RsPort
            is  == entry'[e]
        IN /\ WokenBy(was.op1, was.valid1, is.op1, is.valid1)
           /\ WokenBy(was.op2, was.valid2, is.op2, is.valid2)
<1>1. FullInv /\ [CoreNext(1)]_coreVars => [Woken]_coreVars
  <2> SUFFICES ASSUME FullInv, CoreNext(1) PROVE Woken
    OBVIOUS
  <2>1. PICK next \in Fetchable : Cycle(next)
    BY DEF CoreNext
  <2>2. Edge(next)
    BY <2>1 DEF Edge
  <2> SUFFICES ASSUME NEW e \in Entries, busy'[e]
               PROVE  LET was == IF busy[e] THEN entry[e] ELSE RsPort
                          is  == entry'[e]
                      IN /\ WokenBy(was.op1, was.valid1, is.op1, is.valid1)
                         /\ WokenBy(was.op2, was.valid2, is.op2, is.valid2)
    OBVIOUS
  <2>3. e \in BusyEntries'
    BY DEF BusyEntries
  <2>4. (IF busy[e] THEN entry[e] ELSE RsPort) = Content(e)
    BY <2>2, <2>3, EntryOrigin, StationStep DEF Content, BusyEntries
  <2>5. PICK was : was = Content(e)
    OBVIOUS
  <2>6. PICK t \in Tags : /\ InFlight(t) /\ ~Leaves(t)
                          /\ ~was.valid1 => Awaits(was.op1, t)
                          /\ ~was.valid2 => Awaits(was.op2, t)
                          /\ was.valid1 \in BOOLEAN /\ was.valid2 \in BOOLEAN
    BY <2>2, <2>3, <2>5, ContentWaits
  <2>7. /\ entry'[e].op1 = Resolve(was.op1, was.valid1, ResultBuses)
        /\ entry'[e].valid1 = Resolved(was.op1, was.valid1, ResultBuses)
        /\ entry'[e].op2 = Resolve(was.op2, was.valid2, ResultBuses)
        /\ entry'[e].valid2 = Resolved(was.op2, was.valid2, ResultBuses)
    BY <2>2, <2>5, EntryStep
  <2>8. WokenBy(was.op1, was.valid1, entry'[e].op1, entry'[e].valid1)
    BY <2>2, <2>6, <2>7, OperandStep DEF WokenBy
  <2>9. WokenBy(was.op2, was.valid2, entry'[e].op2, entry'[e].valid2)
    BY <2>2, <2>6, <2>7, OperandStep DEF WokenBy
  <2> QED
    BY <2>4, <2>5, <2>8, <2>9
<1> QED
  BY <1>1, CoreSpecInv, PTL DEF SpareSpec, WokenByResult

-----------------------------------------------------------------------------
(* The way of an instruction in flight, in the words of the invariant.     *)
LEMMA StagesAre ==
  ASSUME NEW t
  PROVE  /\ StagesLeft(t) = IF InLatch(t) THEN 3
                            ELSE IF t \in Waiting THEN 2
                            ELSE IF InAlu(t) THEN 1 ELSE 0
         /\ StagesLeft(t)' = IF InLatch(t)' THEN 3
                             ELSE IF t \in Waiting' THEN 2
                             ELSE IF InAlu(t)' THEN 1 ELSE 0
<1>1. t \in Waiting <=> \E e \in Entries : busy[e] /\ entry[e].tag = t
  BY DEF Waiting, BusyEntries
<1>2. t \in Waiting' <=> \E e \in Entries : busy'[e] /\ entry'[e].tag = t
  BY DEF Waiting, BusyEntries
<1> QED
  BY <1>1, <1>2 DEF StagesLeft, InAlu, Bit

(* The oldest instruction in flight has all its operands: it waits for     *)
(* nobody.  When it is in the station it issues on this edge.              *)
LEMMA HeadIssues ==
  ASSUME NEW next, Edge(next), commit_ptr_1 \in Waiting
  PROVE  Issue /\ entry[IssueEntry].tag = commit_ptr_1
<1> DEFINE h == commit_ptr_1
<1>1. h \in Tags /\ Offset(h) = 0
  BY WaitingExecutes, OffsetIs DEF Edge
<1>2. PICK e \in BusyEntries : entry[e].tag = h
  BY DEF Waiting
<1>3. e \in Entries /\ busy[e]
  BY DEF BusyEntries
<1>4. \A op : ~Awaits(op, h)
  <2> SUFFICES ASSUME NEW op, Awaits(op, h) PROVE FALSE
    OBVIOUS
  <2>1. op \in Tags /\ Offset(op) < 0
    BY <1>1 DEF Awaits
  <2>2. Offset(op) \in Nat
    BY <2>1, OffsetIs DEF Edge
  <2> QED
    BY <2>1, <2>2
<1>5. Ready(e)
  <2>1. /\ ~entry[e].valid1 => Awaits(entry[e].op1, entry[e].tag)
        /\ ~entry[e].valid2 => Awaits(entry[e].op2, entry[e].tag)
    BY DEF Edge, FullInv, CoreInv, WaitsForOlder
  <2> QED
    BY <1>2, <1>3, <1>4, <2>1 DEF Ready
<1>6. Issue
  <2>1. RsTypeOK
    BY DEF Edge, FullInv, CoreInv, CoreTypeOK
  <2>2. TagsInRange
    BY <2>1 DEF RsTypeOK, TagsInRange
  <2> QED
    BY <1>3, <1>5, <2>2, SelectsLeast
<1>7. entry[IssueEntry].tag \in Tags
  <2>1. IssueEntry \in BusyEntries
    BY <1>6, AluStep DEF Issue, Ready, BusyEntries
  <2> QED
    BY <2>1, WaitingExecutes DEF Waiting
<1>8. Offset(entry[IssueEntry].tag) <= Offset(h)
  <2>1. OldestFirst
    BY IssuesOldest DEF Edge
  <2> QED
    BY <1>2, <1>3, <1>5, <1>6, <2>1 DEF OldestFirst
<1>9. Offset(entry[IssueEntry].tag) = 0
  <2>1. Offset(entry[IssueEntry].tag) \in Nat
    BY <1>7, OffsetIs DEF Edge
  <2> QED
    BY <1>1, <1>8, <2>1
<1> QED
  BY <1>6, <1>7, <1>9, OffsetIs DEF Edge

(* What a clock edge does to the oldest instruction in flight.             *)
HeadMoves ==
  InUse > 0 =>
    \/ StagesLeft(commit_ptr_1) = 0 /\ commit_1
    \/ /\ ~commit_1 /\ commit_ptr_1' = commit_ptr_1
       /\ StagesLeft(commit_ptr_1)' = StagesLeft(commit_ptr_1) - 1

(* It commits, or is one stage further on after the edge.                  *)
LEMMA HeadStep ==
  ASSUME NEW next, Edge(next)
  PROVE  HeadMoves
<1> SUFFICES ASSUME InUse > 0
             PROVE  \/ StagesLeft(commit_ptr_1) = 0 /\ commit_1
                    \/ /\ ~commit_1 /\ commit_ptr_1' = commit_ptr_1
                       /\ StagesLeft(commit_ptr_1)' =
                            StagesLeft(commit_ptr_1) - 1
  BY DEF HeadMoves
<1>1. PICK h \in Tags : h = commit_ptr_1
  BY RingEdge DEF Tags
<1>2. InFlight(h)
  BY <1>1, OffsetIs DEF Edge, InFlight
<1>3. commit_1 <=> valid[h] /\ finish[h]
  BY <1>1 DEF commit_1
<1>4. ~commit_1 => commit_ptr_1' = h
  BY <1>1, RingEdge
<1>5. StagesLeft(commit_ptr_1)' = StagesLeft(h)' \/ commit_1
  BY <1>4
<1>6. ~commit_1 => ~InLatch(h)'
  <2>1. ~(id.wr_reg /\ h = rrfptr)
    BY <1>2, EdgeIsClock, TagStep
  <2> QED
    BY <2>1, EdgeIsClock, TagStep
<1>7. CASE InLatch(h)
  <2>1. ~commit_1
    BY <1>1, <1>7, EdgeIsClock, HeadWrites DEF PacedInv, Leaves
  <2>2. h \in Waiting'
    BY <1>7, WaitingStep
  <2> QED
    BY <1>1, <1>4, <1>6, <1>7, <2>1, <2>2, StagesAre
<1>8. CASE h \in Waiting
  <2>1. ~commit_1 /\ ~InLatch(h)
    BY <1>3, <1>8, WaitingExecutes
  <2>2. InAlu(h)'
    BY <1>1, <1>8, HeadIssues, InAluStep
  <2>3. h \notin Waiting'
    BY <2>1, <2>2, WaitingStep
  <2> QED
    BY <1>1, <1>4, <1>6, <1>8, <2>1, <2>2, <2>3, StagesAre
<1>9. CASE InAlu(h)
  <2>1. Executing(h) /\ h \notin Waiting
    BY <1>9, ExecutingStep, WaitingExecutes
  <2>2. ~commit_1 /\ ~InLatch(h)
    BY <1>3, <2>1 DEF Executing
  <2>3. h \notin Waiting' /\ ~InAlu(h)'
    BY <2>1, <2>2, WaitingStep, InAluStep
  <2> QED
    BY <1>1, <1>4, <1>6, <1>9, <2>1, <2>2, <2>3, StagesAre
<1>10. CASE ~InLatch(h) /\ h \notin Waiting /\ ~InAlu(h)
  <2>1. ~Executing(h)
    BY <1>10, WaitingExecutes
  <2>2. commit_1
    BY <1>2, <1>3, <1>10, <2>1, EdgeIsClock
    DEF PacedInv, EntriesHeld, Executing
  <2> QED
    BY <1>1, <1>10, <2>2, StagesAre
<1> QED
  BY <1>7, <1>8, <1>9, <1>10

(* The oldest instruction in flight never waits: on every clock edge it    *)
(* commits or moves one stage on.                                          *)
THEOREM HeadNeverWaits ==
  ASSUME AluProgram /\ RingCovers
  PROVE  SpareSpec => HeadAdvances
<1>1. FullInv /\ [CoreNext(1)]_coreVars => [HeadMoves]_coreVars
  BY HeadStep DEF CoreNext, Edge
<1> QED
  BY <1>1, CoreSpecInv, PTL DEF SpareSpec, HeadAdvances, HeadMoves

(* The oldest instruction in flight with k stages left.                    *)
HeadAt(k) == InUse > 0 /\ StagesLeft(commit_ptr_1) = k

(* An edge brings it one stage nearer to its commit, ...                   *)
LEMMA HeadNears ==
  ASSUME FullInv, CoreNext(1)
  PROVE  /\ HeadAt(3) => HeadAt(2)'
         /\ HeadAt(2) => HeadAt(1)'
         /\ HeadAt(1) => HeadAt(0)'
         /\ HeadAt(0) => commit_1
<1>1. PICK next \in Fetchable : Edge(next)
  BY DEF CoreNext, Edge
<1>2. HeadMoves
  BY <1>1, HeadStep
<1>3. InUse > 0 /\ ~commit_1 => InUse' > 0
  BY <1>1, RingEdge DEF InUse, Bit
<1>4. ASSUME NEW k \in {1, 2, 3}, HeadAt(k) PROVE HeadAt(k - 1)'
  BY <1>2, <1>3, <1>4 DEF HeadAt, HeadMoves
<1>5. HeadAt(0) => commit_1
  <2>1. PICK h : h = commit_ptr_1
    OBVIOUS
  <2>2. commit_ptr_1' = h => StagesLeft(commit_ptr_1)' = StagesLeft(h)'
    OBVIOUS
  <2>3. StagesLeft(h)' # -1
    BY StagesAre
  <2> QED
    BY <1>2, <2>1, <2>2, <2>3 DEF HeadAt, HeadMoves
<1>6. (HeadAt(3 - 1) <=> HeadAt(2))' /\ (HeadAt(2 - 1) <=> HeadAt(1))'
        /\ (HeadAt(1 - 1) <=> HeadAt(0))'
  BY DEF HeadAt
<1> QED
  BY <1>4, <1>5, <1>6

(* ... and nothing else moves it.                                          *)
LEMMA HeadStays ==
  ASSUME UNCHANGED coreVars, NEW k
  PROVE  HeadAt(k) => HeadAt(k)'
<1>1. UNCHANGED <<vars, rsVars, alu_latch, insn>>
  BY DEF coreVars
<1>2. UNCHANGED <<freenum, dp, entry, busy, alu_latch, commit_ptr_1>>
  BY <1>1 DEF vars, rsVars, allocVars, dpVars, robVars
<1> QED
  BY <1>2 DEF HeadAt, InUse, StagesLeft, InLatch

(* While the clock runs and edges are possible, the oldest instruction in  *)
(* flight commits in the end: none starves, whatever the program, the      *)
(* sizes and the stream.  The proof counts down its stages.                *)
THEOREM HeadCommitsInTheEnd ==
  ASSUME AluProgram /\ RingCovers
  PROVE  SpareSpec /\ ClockRuns /\ []EdgePossible => HeadCommits
<1> DEFINE Going == InUse > 0
<1>1. FullInv => (Going <=> HeadAt(3) \/ HeadAt(2) \/ HeadAt(1) \/ HeadAt(0))
  <2>1. StagesLeft(commit_ptr_1) \in {0, 1, 2, 3}
    BY StagesAre
  <2> QED
    BY <2>1 DEF HeadAt
<1>2. FullInv /\ HeadAt(3) /\ [CoreNext(1)]_coreVars => HeadAt(3)' \/ HeadAt(2)'
  BY HeadNears, HeadStays
<1>3. FullInv /\ HeadAt(2) /\ [CoreNext(1)]_coreVars => HeadAt(2)' \/ HeadAt(1)'
  BY HeadNears, HeadStays
<1>4. FullInv /\ HeadAt(1) /\ [CoreNext(1)]_coreVars => HeadAt(1)' \/ HeadAt(0)'
  BY HeadNears, HeadStays
<1>5. FullInv /\ HeadAt(0) /\ [CoreNext(1)]_coreVars => HeadAt(0)' \/ commit_1
  BY HeadNears, HeadStays
<1>6. FullInv /\ <<CoreNext(1)>>_coreVars =>
        /\ HeadAt(3) => HeadAt(2)'
        /\ HeadAt(2) => HeadAt(1)'
        /\ HeadAt(1) => HeadAt(0)'
        /\ HeadAt(0) => commit_1
  BY HeadNears
<1>7. EdgePossible <=> (Going => ENABLED <<CoreNext(1)>>_coreVars)
  BY DEF EdgePossible
<1>8. HeadCommits <=> (Going ~> commit_1)
  BY DEF HeadCommits
<1> HIDE DEF Going
<1> QED
  BY <1>1, <1>2, <1>3, <1>4, <1>5, <1>6, <1>7, <1>8, CoreSpecInv, PTL
  DEF SpareSpec, ClockRuns

-----------------------------------------------------------------------------
(* An ALU that has executed nothing is, for the two units, no result.      *)
LEMMA IdleLatch ==
  ASSUME NEW next, Edge(next), ~alu_latch.rob_we
  PROVE  Clock(next, NoResult)
<1>1. /\ alu_latch.rrf_tag = 0 /\ alu_latch.rrf_we = FALSE
      /\ alu_latch.rob_we = FALSE
  BY DEF Edge, FullInv, CoreInv, LatchLegal, CoreTypeOK, ExTypeOK
<1>2. /\ NoResult.rrf_tag = 0 /\ NoResult.rrf_we = FALSE
      /\ NoResult.rob_we = FALSE
  BY DEF NoResult
<1>3. \A t : /\ RrfValidOut(t, alu_latch) = RrfValidOut(t, NoResult)
             /\ RrfDataOut(t, alu_latch) = RrfDataOut(t, NoResult)
  BY <1>1, <1>2 DEF RrfValidOut, RrfDataOut, ForwardAccessible
<1>4. \A r : /\ SourceBus(r, alu_latch) = SourceBus(r, NoResult)
             /\ SourceReady(r, alu_latch) = SourceReady(r, NoResult)
  BY <1>3 DEF SourceBus, SourceReady
<1>5. Clock(next, alu_latch)
  BY EdgeIsClock
<1>6. RrfClock(CommitPort, NoResult)
  BY <1>1, <1>2, <1>5 DEF Clock, DispatchClock, RrfClock, RrfValidAfter
<1>7. RobClock(RobPort, NoResult)
  BY <1>1, <1>2, <1>5 DEF Clock, RobClock, FinishAfter
<1>8. DispatchClock(commit_1, CommitPort, NoResult, next)
  BY <1>4, <1>5, <1>6 DEF Clock, DispatchClock
<1> QED
  BY <1>7, <1>8 DEF Clock

(* The core is the in-order skeleton with the station and the ALU in the   *)
(* place of its environment, and its allocator keeps two tags free.        *)
THEOREM CoreRefinesRenameCommit ==
  ASSUME AluProgram /\ RingCovers
  PROVE  SpareSpec => ImplementsRenameCommit
<1>1. FullInv /\ [CoreNext(1)]_coreVars => [PacedNext]_vars
  <2> SUFFICES ASSUME FullInv, CoreNext(1) PROVE PacedNext
    BY DEF coreVars
  <2>1. PICK next \in Fetchable : Cycle(next) /\ Paced(next, 1)
    BY DEF CoreNext
  <2>2. Edge(next)
    BY <2>1 DEF Edge
  <2>3. Headroom(next) /\ Clock(next, alu_latch)
    BY <2>1, <2>2, TagsSuffice, EdgeIsClock
  <2>4. CASE ~alu_latch.rob_we
    BY <2>2, <2>3, <2>4, IdleLatch DEF PacedNext, PacedIdle, CycleIdle
  <2>5. CASE alu_latch.rob_we
    <3>1. PICK t \in Tags : InAlu(t) /\ Executing(t)
      BY <2>5 DEF FullInv, CoreInv, LatchLegal
    <3>2. PICK d \in Data : d = alu_latch.result
      BY DEF FullInv, CoreInv, CoreTypeOK, ExTypeOK
    <3>3. alu_latch \in [result: Data, rrf_tag: TagIndex,
                         rob_we: BOOLEAN, rrf_we: BOOLEAN]
      BY DEF FullInv, CoreInv, CoreTypeOK, ExTypeOK
    <3>4. alu_latch.rrf_tag = t /\ alu_latch.rob_we = TRUE
          /\ alu_latch.rrf_we = TRUE
      BY <2>5, <3>1, <3>3 DEF InAlu, FullInv, CoreInv, LatchLegal
    <3>5. alu_latch = Result(t, d)
      BY <3>2, <3>3, <3>4 DEF Result
    <3> QED
      BY <2>1, <2>3, <3>1, <3>5 DEF PacedNext, PacedFinish, CycleFinish
  <2> QED
    BY <2>4, <2>5
<1>2. CoreInit => Init
  BY DEF CoreInit
<1> QED
  BY <1>1, <1>2, CoreSpecInv, PTL DEF SpareSpec, PacedSpec, ImplementsRenameCommit

-----------------------------------------------------------------------------
(* A register changes when its oldest writer leaves, and takes the result  *)
(* of that one.                                                            *)
LEMMA RegisterStep ==
  ASSUME NEW next, Edge(next), NEW r \in Regs
  PROVE  /\ (\A w \in Writers(r) : ~Leaves(w)) => arf_data'[r] = arf_data[r]
         /\ \A w \in Writers(r) : Leaves(w) => arf_data'[r] = rrf_data[w]
<1>1. PacedInv /\ Inv /\ EntriesHeld /\ Clock(next, alu_latch) /\ TypeOK
  BY EdgeIsClock DEF PacedInv
<1>2. /\ arf_data \in [Regs -> Data] /\ commit_ptr_1 \in Tags
      /\ commit_1 \in BOOLEAN
  BY <1>1, WireTypes DEF ArfTypeOK, RobTypeOK
<1>3. arf_data' = IF arfwe_1
                  THEN [arf_data EXCEPT ![dst[commit_ptr_1]]
                          = rrf_data[commit_ptr_1]]
                  ELSE arf_data
  BY <1>1 DEF Clock, DispatchClock, ArfClock, CommitPort
<1>4. CASE ~commit_1
  BY <1>3, <1>4 DEF arfwe_1, Leaves
<1>5. CASE commit_1
  <2>1. PICK h \in Tags : h = commit_ptr_1 /\ Leaves(h)
    BY <1>2, <1>5 DEF Leaves
  <2>2. InFlight(h) /\ ~InLatch(h) /\ arfwe_1 /\ Offset(h) = 0
    BY <1>1, <2>1, HeadWrites
  <2>3. arf_data' = [arf_data EXCEPT ![dst[h]] = rrf_data[h]]
    BY <1>3, <2>1, <2>2
  <2>4. h \in Writers(r) <=> dst[h] = r
    BY <2>2 DEF Writers, Destination
  <2>5. \A w : Leaves(w) => w = h
    BY <2>1 DEF Leaves
  <2> QED
    BY <1>2, <2>1, <2>3, <2>4, <2>5
<1> QED
  BY <1>2, <1>4, <1>5

(* The result of the ALU enters the RRF; a result that is there stays.     *)
LEMMA ResultStays ==
  ASSUME NEW next, Edge(next), NEW t \in Tags, InFlight(t), ~InLatch(t)
  PROVE  /\ finish'[t] <=> finish[t] \/ InAlu(t)
         /\ finish[t] => rrf_data'[t] = rrf_data[t]
         /\ InAlu(t) => rrf_data'[t] = alu_latch.result
<1>1. PacedInv /\ Clock(next, alu_latch) /\ alu_latch \in Exe /\ TypeOK
  BY EdgeIsClock
<1>2. finish'[t] <=> finish[t] \/ InAlu(t)
  BY <1>1, FinishStep DEF InAlu
<1>3. rrf_data' = IF alu_latch.rrf_we
                  THEN [rrf_data EXCEPT ![alu_latch.rrf_tag]
                          = alu_latch.result]
                  ELSE rrf_data
  BY <1>1 DEF Clock, DispatchClock, RrfClock
<1>4. alu_latch.rrf_we = alu_latch.rob_we
  BY DEF Edge, FullInv, CoreInv, LatchLegal
<1>5. rrf_data \in [TagIndex -> Data] /\ t \in TagIndex
  BY <1>1, WireTypes DEF RrfTypeOK, Tags, TagIndex
<1>6. finish[t] => ~InAlu(t)
  BY ExecutingStep DEF Executing
<1> QED
  BY <1>2, <1>3, <1>4, <1>5, <1>6 DEF InAlu

(* When those who leave are taken away, the youngest of the rest is the    *)
(* youngest of all, or it was the only one.                                *)
LEMMA YoungestStep ==
  ASSUME NEW next, Edge(next), NEW S \in SUBSET Tags,
         \A u \in S : InFlight(u),
         NEW T, T = {u \in S : ~Leaves(u)},
         NEW w \in Tags, IsYoungest(w, S)
  PROVE  /\ Leaves(w) => T = {}
         /\ ~Leaves(w) => IsYoungest(w, T)'
<1>1. PacedInv /\ Clock(next, alu_latch) /\ commit_1 \in BOOLEAN
  BY EdgeIsClock, WireTypes
<1>2. \A u \in S : ~Leaves(u) => Offset(u)' = Offset(u) - Bit(commit_1)
  BY <1>1, TagStep
<1>3. commit_ptr_1 \in 1..NumTags
  BY RingEdge
<1>4. \A u \in S : /\ Offset(u) \in Nat
                   /\ Offset(u) = 0 => u = commit_ptr_1
  BY <1>3 DEF Offset, Tags
<1>5. w \in S /\ \A u \in S : Offset(u) <= Offset(w)
  BY DEF IsYoungest
<1>6. ASSUME Leaves(w) PROVE T = {}
  <2>1. Offset(w) = 0
    BY <1>3, <1>6 DEF Leaves, Offset
  <2>2. \A u \in S : Leaves(u)
    BY <1>4, <1>5, <1>6, <2>1 DEF Leaves
  <2> QED
    BY <2>2
<1>7. ASSUME ~Leaves(w) PROVE IsYoungest(w, T)'
  <2>1. w \in T /\ \A u \in T : Offset(u)' <= Offset(w)'
    BY <1>1, <1>2, <1>4, <1>5, <1>7 DEF Bit
  <2> QED
    BY <2>1 DEF IsYoungest
<1> QED
  BY <1>6, <1>7

(* Who is older than an instruction that is in flight after the edge: all  *)
(* the writers that stay when it is new, else the older ones that stay.    *)
LEMMA OlderStep ==
  ASSUME NEW next, Edge(next), NEW r \in Regs, NEW t \in Tags, InFlight(t)'
  PROVE  /\ id.wr_reg /\ t = rrfptr =>
              Older(r, t)' = {w \in Writers(r) : ~Leaves(w)}
         /\ ~(id.wr_reg /\ t = rrfptr) =>
              Older(r, t)' = {w \in Older(r, t) : ~Leaves(w)}
<1>1. /\ PacedInv /\ Clock(next, alu_latch) /\ commit_1 \in BOOLEAN
      /\ id.wr_reg \in BOOLEAN
  BY EdgeIsClock, WireTypes
<1>2. /\ \A w : w \in Writers(r) => w \in Tags /\ InFlight(w)
      /\ \A w : w \in Writers(r)' => w \in Tags /\ InFlight(w)'
  BY DEF Writers
<1>3. \A w \in Tags : Offset(w) \in Nat /\ Offset(w)' \in Nat
  BY RingEdge DEF Offset, Tags
<1>4. InUse' \in Nat /\ \A w \in Tags : InFlight(w)' <=> Offset(w)' < InUse'
  BY RingEdge DEF InFlight, InUse
<1>5. \A w \in Tags : w \in Writers(r)' <=>
           \/ id.wr_reg /\ id.rd = r /\ w = rrfptr
           \/ w \in Writers(r) /\ ~Leaves(w)
  BY <1>1, WritersStep
<1>6. \A w \in Tags : id.wr_reg /\ w = rrfptr =>
                        Offset(w)' = InUse' - 1 /\ ~InFlight(w)
  BY <1>1, TagStep
<1>7. \A w \in Tags : InFlight(w) /\ ~Leaves(w) =>
                        Offset(w)' = Offset(w) - Bit(commit_1)
  BY <1>1, TagStep
<1>8. \A w \in Tags : InFlight(w) /\ ~Leaves(w) => InFlight(w)'
  BY <1>1, <1>6, TagStep
<1>9. \A w : w \in Older(r, t)' <=> w \in Writers(r)' /\ Offset(w)' < Offset(t)'
  BY DEF Older
<1>10. ASSUME id.wr_reg, t = rrfptr
       PROVE  Older(r, t)' = {w \in Writers(r) : ~Leaves(w)}
  <2>1. ASSUME NEW w \in Tags, w \in Writers(r), ~Leaves(w)
        PROVE  Offset(w)' < Offset(t)'
    <3>1. w # t /\ Offset(t)' = InUse' - 1
      BY <1>2, <1>6, <1>10, <2>1
    <3>2. Offset(w)' < InUse'
      BY <1>2, <1>4, <1>8, <2>1
    <3>3. Offset(w)' # Offset(t)'
      BY <3>1, RingEdge DEF Offset, Tags
    <3> QED
      BY <1>3, <1>4, <3>1, <3>2, <3>3
  <2>2. ~(Offset(t)' < Offset(t)')
    BY <1>3
  <2> QED
    BY <1>2, <1>5, <1>9, <1>10, <2>1, <2>2
<1>11. ASSUME ~(id.wr_reg /\ t = rrfptr)
       PROVE  Older(r, t)' = {w \in Older(r, t) : ~Leaves(w)}
  <2>1. InFlight(t) /\ ~Leaves(t)
    BY <1>1, <1>11, TagStep
  <2>2. Offset(t)' = Offset(t) - Bit(commit_1)
    BY <1>7, <2>1
  <2>3. ASSUME NEW w \in Tags, w \in Writers(r), ~Leaves(w)
        PROVE  Offset(w)' < Offset(t)' <=> Offset(w) < Offset(t)
    BY <1>1, <1>2, <1>3, <1>7, <2>2, <2>3 DEF Bit
  <2>4. ASSUME id.wr_reg, NEW w \in Tags, w = rrfptr
        PROVE  ~(Offset(w)' < Offset(t)')
    BY <1>3, <1>4, <1>6, <2>4
  <2> QED
    BY <1>2, <1>5, <1>9, <2>3, <2>4 DEF Older
<1> QED
  BY <1>10, <1>11

(* An operand that is right for the writers S before the edge is right for *)
(* those of S that stay, after it.                                         *)
LEMMA SupplyStep ==
  ASSUME NEW next, Edge(next), NEW r \in Regs, NEW t \in Tags,
         NEW S \in SUBSET Writers(r), Older(r, t)' = {w \in S : ~Leaves(w)},
         \A w \in Writers(r) : Leaves(w) => w \in S,
         NEW src, NEW rdy \in BOOLEAN,
         \/ r = 0 /\ rdy /\ src = 0
         \/ r # 0 /\ S = {} /\ rdy /\ src = arf_data[r]
         \/ /\ r # 0
            /\ \E w \in Tags : /\ IsYoungest(w, S)
                               /\ IF rdy THEN finish'[w] /\ ~InLatch(w)
                                              /\ src = rrf_data'[w]
                                  ELSE ~finish'[w] /\ src = w
  PROVE  Supplies(r, t, src, rdy)'
<1>1. PacedInv /\ Clock(next, alu_latch) /\ EntriesHeld /\ Inv
  BY EdgeIsClock DEF PacedInv
<1>2. CASE r = 0
  BY <1>2 DEF Supplies
<1>3. CASE r # 0 /\ S = {}
  <2>1. Older(r, t)' = {} /\ \A w \in Writers(r) : ~Leaves(w)
    BY <1>3
  <2>2. arf_data'[r] = arf_data[r]
    BY <2>1, RegisterStep
  <2>3. rdy /\ src = arf_data[r]
    BY <1>3 DEF IsYoungest
  <2> QED
    BY <1>3, <2>1, <2>2, <2>3 DEF Supplies
<1>4. CASE r # 0 /\ S # {}
  <2>1. PICK w \in Tags :
          /\ IsYoungest(w, S)
          /\ IF rdy THEN finish'[w] /\ ~InLatch(w) /\ src = rrf_data'[w]
             ELSE ~finish'[w] /\ src = w
    BY <1>4
  <2>2. w \in S /\ w \in Writers(r) /\ InFlight(w) /\ S \in SUBSET Tags
        /\ \A u \in S : InFlight(u)
    BY <2>1 DEF IsYoungest, Writers
  <2>3. PICK T : T = {u \in S : ~Leaves(u)} /\ T = Older(r, t)'
    OBVIOUS
  <2>4. /\ Leaves(w) => T = {}
        /\ ~Leaves(w) => IsYoungest(w, T)'
    BY <2>1, <2>2, <2>3, YoungestStep
  <2>5. CASE Leaves(w)
    <3>1. finish[w] /\ ~InLatch(w)
      BY <1>1, <2>5, HeadWrites
    <3>2. finish'[w] /\ rrf_data'[w] = rrf_data[w]
      BY <2>2, <3>1, ResultStays
    <3>3. arf_data'[r] = rrf_data[w]
      BY <2>2, <2>5, RegisterStep
    <3> QED
      BY <1>4, <2>1, <2>3, <2>4, <2>5, <3>2, <3>3 DEF Supplies
  <2>6. CASE ~Leaves(w)
    <3>1. ~InLatch(w)'
      BY <1>1, <2>2, <2>6, TagStep
    <3>2. IsYoungest(w, T)'
      BY <2>4, <2>6
    <3>3. IsYoungest(w, Older(r, t))'
      BY <2>3, <3>2 DEF IsYoungest
    <3> QED
      BY <1>4, <2>1, <3>1, <3>3 DEF Supplies
  <2> QED
    BY <2>5, <2>6
<1> QED
  BY <1>2, <1>3, <1>4

(* A right operand stays right: waiting, woken, ready, and when the older  *)
(* instruction it came from commits.                                       *)
LEMMA SuppliesKept ==
  ASSUME NEW next, Edge(next), NEW r \in Regs,
         NEW t \in Tags, InFlight(t), ~Leaves(t),
         NEW src, NEW rdy \in BOOLEAN, ~rdy => Awaits(src, t),
         Supplies(r, t, src, rdy),
         NEW src2, src2 = Resolve(src, rdy, ResultBuses),
         NEW rdy2 \in BOOLEAN, rdy2 <=> Resolved(src, rdy, ResultBuses)
  PROVE  Supplies(r, t, src2, rdy2)'
<1>1. PacedInv /\ Clock(next, alu_latch)
  BY EdgeIsClock
<1>2. InFlight(t)' /\ ~(id.wr_reg /\ t = rrfptr)
  BY <1>1, TagStep
<1>3. Older(r, t)' = {w \in Older(r, t) : ~Leaves(w)}
  BY <1>2, OlderStep
<1>4. ASSUME NEW w \in Writers(r), Leaves(w) PROVE w \in Older(r, t)
  <2>1. w = commit_ptr_1 /\ t # commit_ptr_1
    BY <1>4 DEF Leaves
  <2>2. Offset(w) < Offset(t)
    BY <2>1, RingEdge DEF Offset, Tags
  <2> QED
    BY <2>2 DEF Older
<1>5. rdy => rdy2 /\ src2 = src
  BY DEF Resolve, Resolved
<1>6. \/ r = 0 /\ rdy2 /\ src2 = 0
      \/ r # 0 /\ Older(r, t) = {} /\ rdy2 /\ src2 = arf_data[r]
      \/ /\ r # 0
         /\ \E w \in Tags : /\ IsYoungest(w, Older(r, t))
                            /\ IF rdy2 THEN finish'[w] /\ ~InLatch(w)
                                            /\ src2 = rrf_data'[w]
                               ELSE ~finish'[w] /\ src2 = w
  <2>1. CASE r = 0
    BY <1>5, <2>1 DEF Supplies
  <2>2. CASE r # 0 /\ Older(r, t) = {}
    BY <1>5, <2>2 DEF Supplies, IsYoungest
  <2>3. CASE r # 0 /\ Older(r, t) # {}
    <3>1. PICK w \in Tags :
            /\ IsYoungest(w, Older(r, t))
            /\ IF rdy THEN finish[w] /\ ~InLatch(w) /\ src = rrf_data[w]
               ELSE src = w
      BY <2>3 DEF Supplies
    <3>2. InFlight(w)
      BY <3>1 DEF IsYoungest, Older, Writers
    <3>3. CASE rdy
      <4>1. finish'[w] /\ rrf_data'[w] = rrf_data[w]
        BY <3>1, <3>2, <3>3, ResultStays
      <4> QED
        BY <1>5, <2>3, <3>1, <3>3, <4>1
    <3>4. CASE ~rdy /\ rdy2
      <4>1. finish'[w] /\ src2 = rrf_data'[w]
        BY <3>1, <3>4, OperandStep
      <4>2. ~InLatch(w)
        BY <1>1, <3>2, <4>1, FinishStep
      <4> QED
        BY <2>3, <3>1, <3>4, <4>1, <4>2
    <3>5. CASE ~rdy2
      <4>1. src2 = w /\ Awaits(w, t)'
        BY <1>5, <3>1, <3>5, OperandStep
      <4> QED
        BY <1>5, <2>3, <3>1, <3>5, <4>1 DEF Awaits
    <3> QED
      BY <3>3, <3>4, <3>5
  <2> QED
    BY <2>1, <2>2, <2>3
<1>7. Older(r, t) \in SUBSET Writers(r)
  BY DEF Older
<1> QED
  BY <1>3, <1>4, <1>6, <1>7, SupplyStep

(* A result stays the right one while its instruction waits to commit.     *)
LEMMA ComputedKept ==
  ASSUME NEW next, Edge(next), NEW t \in Tags, InFlight(t), ~Leaves(t),
         insn[t] \in Control, NEW v, Computed(t, v)
  PROVE  Computed(t, v)'
<1>1. insn'[t] = insn[t]
  <2>1. ~(id.wr_reg /\ t = rrfptr)
    BY EdgeIsClock, TagStep
  <2> QED
    BY <2>1 DEF Edge, Cycle, Leaves
<1>2. PICK a, b \in Operand :
        /\ Supplies(insn[t].rs1, t, a, TRUE)
        /\ Supplies(insn[t].rs2, t, b, TRUE)
        /\ v = AluResult(insn[t], a, b)
  BY DEF Computed
<1>3. PICK c \in Control : c = insn[t]
  OBVIOUS
<1>4. c.rs1 \in Regs /\ c.rs2 \in Regs
  BY DEF Control
<1>5. ASSUME NEW r \in Regs, NEW x, Supplies(r, t, x, TRUE)
      PROVE  Supplies(r, t, x, TRUE)'
  <2>1. Resolve(x, TRUE, ResultBuses) = x /\ Resolved(x, TRUE, ResultBuses)
    BY DEF Resolve, Resolved
  <2> QED
    BY <1>5, <2>1, SuppliesKept
<1>6. Supplies(c.rs1, t, a, TRUE)' /\ Supplies(c.rs2, t, b, TRUE)'
  BY <1>2, <1>3, <1>4, <1>5
<1>7. insn'[t] = c
  BY <1>1, <1>3
<1>8. v = AluResult(c, a, b)
  BY <1>2, <1>3
<1> QED
  BY <1>6, <1>7, <1>8 DEF Computed, Supplies, Older, Writers, IsYoungest,
     Destination, InFlight, InLatch, Offset, InUse

(* An instruction in flight, and not a new one, keeps its control word.    *)
LEMMA InsnStep ==
  ASSUME NEW next, Edge(next), NEW t \in Tags
  PROVE  /\ id.wr_reg /\ t = rrfptr => insn'[t] = id
         /\ InFlight(t) /\ ~Leaves(t) =>
              /\ insn'[t] = insn[t] /\ InFlight(t)' /\ ~InLatch(t)'
              /\ ~(id.wr_reg /\ t = rrfptr)
              /\ Destination(t)' = Destination(t)
         /\ InFlight(t)' /\ ~(id.wr_reg /\ t = rrfptr) =>
              InFlight(t) /\ ~Leaves(t)
<1>1. PacedInv /\ Clock(next, alu_latch) /\ ~StallDP(commit_1)
  BY EdgeIsClock
<1>2. /\ id.wr_reg /\ t = rrfptr => ~InFlight(t)
      /\ InFlight(t) /\ ~Leaves(t) => InFlight(t)' /\ ~InLatch(t)'
           /\ Destination(t)' = Destination(t)
      /\ InFlight(t)' /\ ~(id.wr_reg /\ t = rrfptr) =>
           InFlight(t) /\ ~Leaves(t)
  BY <1>1, TagStep
<1> QED
  BY <1>1, <1>2 DEF Edge, Cycle, Leaves

(* The operands loaded into the DP/SW register are right there ...         *)
LEMMA LatchValues ==
  ASSUME NEW next, Edge(next), NEW t \in Tags, id.wr_reg, t = rrfptr
  PROVE  /\ Supplies(insn[t].rs1, t, dp.src1, dp.rdy1)'
         /\ Supplies(insn[t].rs2, t, dp.src2, dp.rdy2)'
<1>1. /\ PacedInv /\ Clock(next, alu_latch) /\ TypeOK /\ Legal(alu_latch)
      /\ next \in Control /\ alu_latch \in Exe
  BY EdgeIsClock
<1>2. InFlight(t)'
  BY <1>1, TagStep
<1>3. ASSUME NEW r \in Regs, NEW src, src = SourceBus(r, alu_latch),
             NEW rdy \in BOOLEAN, rdy <=> SourceReady(r, alu_latch)
      PROVE  Supplies(r, t, src, rdy)'
  <2>1. Older(r, t)' = {w \in Writers(r) : ~Leaves(w)}
    BY <1>2, OlderStep
  <2>2. SourceReady(r, alu_latch) \in BOOLEAN
    BY <1>1, WireTypes, SourceTypes
  <2>3. IsOperand(r, src, rdy)
    BY <1>1, <1>3, <2>2, SourceSound
  <2>4. \A w \in Writers(r) : InLatch(w) => ~finish'[w]
    BY <1>1, FinishStep DEF Writers
  <2>5. \A w : IsYoungest(w, Writers(r)) => w \in Writers(r)
    BY DEF IsYoungest
  <2> QED
    BY <2>1, <2>3, <2>4, <2>5, SupplyStep DEF IsOperand
<1>4. /\ insn'[t] = id /\ id.rs1 \in Regs /\ id.rs2 \in Regs
  BY <1>1, InsnStep, WireTypes
<1>5. PICK r1 \in Regs, r2 \in Regs : r1 = insn'[t].rs1 /\ r2 = insn'[t].rs2
  BY <1>4
<1>6. PICK s1, v1, s2, v2 : /\ s1 = dp'.src1 /\ v1 = dp'.rdy1
                            /\ s2 = dp'.src2 /\ v2 = dp'.rdy2
  OBVIOUS
<1>7. /\ s1 = SourceBus(r1, alu_latch) /\ v1 = SourceReady(r1, alu_latch)
      /\ s2 = SourceBus(r2, alu_latch) /\ v2 = SourceReady(r2, alu_latch)
  BY <1>4, <1>5, <1>6, PipelineStep
<1>8. v1 \in BOOLEAN /\ v2 \in BOOLEAN
  BY <1>1, <1>7, WireTypes, SourceTypes
<1>9. Supplies(r1, t, s1, v1)' /\ Supplies(r2, t, s2, v2)'
  BY <1>3, <1>7, <1>8
<1> QED
  BY <1>5, <1>6, <1>9 DEF Supplies, Older, Writers, IsYoungest,
     Destination, InFlight, InLatch, Offset, InUse

(* ... and stay so in the station.                                         *)
LEMMA EntryValues ==
  ASSUME NEW next, Edge(next), ValuesOK, NEW e \in BusyEntries',
         NEW t \in Tags, t = entry'[e].tag
  PROVE  /\ insn'[t] = entry'[e].ctl
         /\ Supplies(insn[t].rs1, t, entry[e].op1, entry[e].valid1)'
         /\ Supplies(insn[t].rs2, t, entry[e].op2, entry[e].valid2)'
<1>1. PICK was : was = Content(e)
  OBVIOUS
<1>2. /\ t = was.tag /\ InFlight(t) /\ ~Leaves(t)
      /\ ~was.valid1 => Awaits(was.op1, t)
      /\ ~was.valid2 => Awaits(was.op2, t)
      /\ was.valid1 \in BOOLEAN /\ was.valid2 \in BOOLEAN
  BY <1>1, ContentWaits
<1>3. e \in Entries /\ TypeOK
  BY EntryOrigin, EdgeIsClock
<1>4. /\ insn[t] = was.ctl
      /\ Supplies(insn[t].rs1, t, was.op1, was.valid1)
      /\ Supplies(insn[t].rs2, t, was.op2, was.valid2)
  <2>1. CASE Arrives(e)
    <3>1. /\ was.ctl = dp.ctl /\ was.op1 = dp.src1 /\ was.valid1 = dp.rdy1
          /\ was.op2 = dp.src2 /\ was.valid2 = dp.rdy2 /\ was.tag = dp.tag
      BY <1>1, <1>3, <2>1, PortTyped DEF Content
    <3>2. InLatch(t)
      BY <1>2, <2>1, <3>1, EntryOrigin
    <3> QED
      BY <1>2, <3>1, <3>2 DEF ValuesOK
  <2>2. CASE ~Arrives(e)
    <3>1. was = entry[e] /\ e \in BusyEntries
      BY <1>1, <2>2, EntryOrigin DEF Content
    <3> QED
      BY <1>2, <3>1 DEF ValuesOK
  <2> QED
    BY <2>1, <2>2
<1>5. /\ entry'[e].ctl = was.ctl
      /\ entry'[e].op1 = Resolve(was.op1, was.valid1, ResultBuses)
      /\ entry'[e].valid1 = Resolved(was.op1, was.valid1, ResultBuses)
      /\ entry'[e].op2 = Resolve(was.op2, was.valid2, ResultBuses)
      /\ entry'[e].valid2 = Resolved(was.op2, was.valid2, ResultBuses)
      /\ entry'[e].valid1 \in BOOLEAN /\ entry'[e].valid2 \in BOOLEAN
  BY <1>1, <1>3, EntryStep
<1>6. insn'[t] = insn[t] /\ insn[t] \in Control
  BY <1>2, InsnStep DEF Edge, FullInv, CoreInv, CoreTypeOK
<1>7. PICK r1 \in Regs, r2 \in Regs : r1 = insn[t].rs1 /\ r2 = insn[t].rs2
  BY <1>6 DEF Control
<1>8. PICK s1, v1, s2, v2 :
        /\ s1 = entry'[e].op1 /\ v1 = entry'[e].valid1
        /\ s2 = entry'[e].op2 /\ v2 = entry'[e].valid2
  OBVIOUS
<1>9. Supplies(r1, t, s1, v1)'
  BY <1>2, <1>4, <1>5, <1>7, <1>8, SuppliesKept
<1>10. Supplies(r2, t, s2, v2)'
  BY <1>2, <1>4, <1>5, <1>7, <1>8, SuppliesKept
<1>11. r1 = insn'[t].rs1 /\ r2 = insn'[t].rs2
  BY <1>6, <1>7
<1>12. /\ Supplies(insn[t].rs1, t, entry[e].op1, entry[e].valid1)'
       /\ Supplies(insn[t].rs2, t, entry[e].op2, entry[e].valid2)'
  BY <1>8, <1>9, <1>10, <1>11 DEF Supplies, Older, Writers, IsYoungest,
     Destination, InFlight, InLatch, Offset, InUse
<1> QED
  BY <1>4, <1>5, <1>6, <1>12

(* What the ALU computes from an issued entry is that instruction's result.*)
LEMMA AluValues ==
  ASSUME NEW next, Edge(next), ValuesOK, NEW t \in Tags, InAlu(t)'
  PROVE  Computed(t, alu_latch.result)'
<1>1. /\ Issue /\ entry[IssueEntry].tag = t /\ t \in Waiting
      /\ IssueEntry \in BusyEntries
  BY InAluStep
<1>2. PICK e \in BusyEntries : e = IssueEntry
  BY <1>1
<1>3. e \in Entries /\ entry[e].valid1 /\ entry[e].valid2 /\ t = entry[e].tag
  BY <1>1, <1>2 DEF Issue, Ready, BusyEntries
<1>4. InFlight(t) /\ Executing(t) /\ ~Leaves(t)
  BY <1>1, WaitingExecutes, ExecutingStep
<1>5. /\ insn[t] = entry[e].ctl
      /\ Supplies(insn[t].rs1, t, entry[e].op1, TRUE)
      /\ Supplies(insn[t].rs2, t, entry[e].op2, TRUE)
  <2>1. /\ entry[e].valid1 = TRUE /\ entry[e].valid2 = TRUE
    BY <1>3 DEF Edge, FullInv, CoreInv, CoreTypeOK, RsTypeOK
  <2> QED
    BY <1>3, <1>4, <2>1 DEF ValuesOK
<1>6. /\ entry[e] \in [tag: TagIndex, ctl: Control, op1: Operand,
                       valid1: BOOLEAN, op2: Operand, valid2: BOOLEAN]
      /\ alu_latch \in Exe
  BY <1>3, EdgeIsClock DEF Edge, FullInv, CoreInv, CoreTypeOK, RsTypeOK
<1>7. alu_latch'.result = AluResult(entry[e].ctl, entry[e].op1, entry[e].op2)
  <2>1. PICK sel : sel = Wakeup(entry[e], ResultBuses)
    OBVIOUS
  <2>2. sel.ctl = entry[e].ctl /\ sel.op1 = entry[e].op1
        /\ sel.op2 = entry[e].op2
    BY <1>3, <1>6, <2>1, WakeupIs DEF Resolve
  <2>3. alu_latch'.result = AluResult(sel.ctl, sel.op1, sel.op2)
    BY <1>2, <2>1 DEF Edge, Cycle, ExClock, Issued
  <2> QED
    BY <2>2, <2>3
<1>8. PICK v : v = alu_latch'.result
  OBVIOUS
<1>9. Computed(t, v)
  BY <1>5, <1>6, <1>7, <1>8 DEF Computed
<1>10. insn[t] \in Control
  BY <1>5, <1>6
<1>11. Computed(t, v)'
  BY <1>4, <1>9, <1>10, ComputedKept
<1> QED
  BY <1>8, <1>11 DEF Computed

(* A result in the RRF came from the ALU and stays.                        *)
LEMMA RrfValues ==
  ASSUME NEW next, Edge(next), ValuesOK, NEW t \in Tags,
         InFlight(t)', finish'[t], ~InLatch(t)'
  PROVE  Computed(t, rrf_data[t])'
<1>1. PacedInv /\ Clock(next, alu_latch)
  BY EdgeIsClock
<1>2. ~(id.wr_reg /\ t = rrfptr)
  BY <1>1, TagStep
<1>3. InFlight(t) /\ ~Leaves(t)
  BY <1>2, InsnStep
<1>4. ~InLatch(t)
  BY <1>1, <1>3, FinishStep
<1>5. finish[t] \/ InAlu(t)
  BY <1>3, <1>4, ResultStays
<1>6. PICK v : v = rrf_data'[t]
  OBVIOUS
<1>7. Computed(t, v)
  BY <1>3, <1>4, <1>5, <1>6, ResultStays DEF ValuesOK
<1>8. insn[t] \in Control
  BY DEF Edge, FullInv, CoreInv, CoreTypeOK
<1>9. Computed(t, v)'
  BY <1>3, <1>7, <1>8, ComputedKept
<1> QED
  BY <1>6, <1>9 DEF Computed

(* Every edge keeps operands and results right.                            *)
LEMMA ValuesPreserved ==
  ASSUME NEW next, Edge(next), ValuesOK
  PROVE  ValuesOK'
<1>1. id' \in Fetchable
  BY PipelineStep DEF Edge
<1>2. ASSUME NEW t \in Tags, InFlight(t)'
      PROVE  insn'[t] \in {Decode(i) : i \in Program}
             /\ insn'[t].rd = Destination(t)'
  <2>1. CASE id.wr_reg /\ t = rrfptr
    <3>1. insn'[t] = id /\ Destination(t)' = id.rd
      BY <2>1, InsnStep, EdgeIsClock, TagStep
    <3>2. id # Bubble
      BY <2>1 DEF Bubble
    <3> QED
      BY <3>1, <3>2 DEF ValuesOK, Fetchable
  <2>2. CASE ~(id.wr_reg /\ t = rrfptr)
    <3>1. InFlight(t) /\ ~Leaves(t)
      BY <1>2, <2>2, InsnStep
    <3> QED
      BY <3>1, InsnStep DEF ValuesOK
  <2> QED
    BY <2>1, <2>2
<1>3. ASSUME NEW t \in Tags, InFlight(t)', InLatch(t)'
      PROVE  /\ insn'[t] = dp'.ctl
             /\ Supplies(insn[t].rs1, t, dp.src1, dp.rdy1)'
             /\ Supplies(insn[t].rs2, t, dp.src2, dp.rdy2)'
  <2>1. id.wr_reg /\ t = rrfptr
    BY <1>3, InsnStep
  <2> QED
    BY <2>1, InsnStep, PipelineStep, LatchValues
<1>4. ASSUME NEW t \in Tags, NEW e \in BusyEntries', entry'[e].tag = t
      PROVE  /\ insn'[t] = entry'[e].ctl
             /\ Supplies(insn[t].rs1, t, entry[e].op1, entry[e].valid1)'
             /\ Supplies(insn[t].rs2, t, entry[e].op2, entry[e].valid2)'
  BY <1>4, EntryValues
<1>5. \A t \in Tags : InAlu(t)' => Computed(t, alu_latch.result)'
  BY AluValues
<1>6. \A t \in Tags : InFlight(t)' /\ finish'[t] /\ ~InLatch(t)' =>
        Computed(t, rrf_data[t])'
  BY RrfValues
<1> QED
  BY <1>1, <1>2, <1>3, <1>4, <1>5, <1>6 DEF ValuesOK

(* After the reset nothing is in flight.                                   *)
LEMMA ValuesInit ==
  ASSUME CoreInit
  PROVE  ValuesOK
<1>1. /\ freenum = NumTags /\ commit_ptr_1 = 1 /\ id = Bubble
  BY DEF CoreInit, Init, DispatchInit, AllocInit, RobInit
<1>2. \A t \in Tags : ~InFlight(t)
  BY <1>1 DEF InFlight, Offset, InUse, Tags
<1> QED
  BY <1>1, <1>2 DEF ValuesOK, Fetchable

(* An edge that changes nothing keeps them right.                          *)
LEMMA ValuesStutter ==
  ASSUME ValuesOK, UNCHANGED coreVars
  PROVE  ValuesOK'
<1>1. /\ UNCHANGED <<entry, busy, alu_latch, insn, arf_data, rrf_data>>
      /\ UNCHANGED <<freenum, id, dp, finish, dst, commit_ptr_1>>
  BY DEF coreVars, vars, rsVars, allocVars, arfVars, rrfVars, dpVars, robVars
<1> QED
  BY <1>1 DEF ValuesOK, Computed, Supplies, Older, Writers, IsYoungest,
     Destination, InFlight, InLatch, InAlu, Offset, InUse, BusyEntries

-----------------------------------------------------------------------------
(* The queue of the sequential machine: the instructions in flight.        *)
Queue == [k \in 1..InUse |-> insn[TagAt(k)]]

(* It has one place for each tag in use.                                   *)
LEMMA QueueIs ==
  CoreTypeOK =>
    /\ InUse \in 0..NumTags
    /\ Queue \in Seq(Control) /\ Len(Queue) = InUse
    /\ \A k \in 1..InUse : Queue[k] = insn[TagAt(k)]
<1> SUFFICES ASSUME CoreTypeOK
             PROVE  /\ InUse \in 0..NumTags
                    /\ Queue \in Seq(Control) /\ Len(Queue) = InUse
                    /\ \A k \in 1..InUse : Queue[k] = insn[TagAt(k)]
  OBVIOUS
<1>1. AllocTypeOK /\ RobTypeOK /\ insn \in [Tags -> Control]
  BY DEF CoreTypeOK, TypeOK, DispatchTypeOK
<1>2. InUse \in 0..NumTags
  BY <1>1 DEF AllocTypeOK, InUse
<1>3. \A k \in 1..InUse : insn[TagAt(k)] \in Control
  BY <1>1, TagAtIs
<1>4. Queue \in [1..InUse -> Control]
  BY <1>3 DEF Queue
<1>5. Queue \in Seq(Control) /\ Len(Queue) = InUse
  BY <1>2, <1>4, SeqDef, LenProperties
<1> QED
  BY <1>2, <1>5 DEF Queue

(* The head leaves and the renamed instruction joins at the end.           *)
LEMMA QueueStep ==
  ASSUME NEW next, Edge(next)
  PROVE  /\ InUse' = InUse - Bit(commit_1) + Bit(id.wr_reg)
         /\ \A k \in 1..(InUse - Bit(commit_1)) :
              Queue'[k] = Queue[k + Bit(commit_1)]
         /\ id.wr_reg => Queue'[InUse'] = id
         /\ commit_1 => InUse >= 1
<1>1. /\ PacedInv /\ Clock(next, alu_latch) /\ AllocTypeOK /\ RobTypeOK
      /\ id.wr_reg \in BOOLEAN /\ commit_1 \in BOOLEAN
      /\ CoreTypeOK /\ CoreTypeOK'
  BY EdgeIsClock, WireTypes, CoreTypePreserved DEF Edge, FullInv, CoreInv
<1>2. AllocTypeOK' /\ RobTypeOK'
  BY <1>1 DEF CoreTypeOK, TypeOK, DispatchTypeOK
<1>3. InUse' = InUse - Bit(commit_1) + Bit(id.wr_reg)
      /\ InUse \in Int /\ InUse' \in Int /\ (commit_1 => InUse >= 1)
  BY <1>1, RingEdge DEF InUse, Bit
<1>4. \A k \in 1..InUse' : /\ TagAt(k)' \in Tags /\ InFlight(TagAt(k))'
                           /\ Offset(TagAt(k))' = k - 1
                           /\ Queue'[k] = insn'[TagAt(k)']
  <2>1. (AllocTypeOK /\ RobTypeOK => \A k \in 1..InUse :
           TagAt(k) \in Tags /\ InFlight(TagAt(k)) /\ Offset(TagAt(k)) = k - 1)'
    BY TagAtIs, PTL
  <2>2. (CoreTypeOK => \A k \in 1..InUse : Queue[k] = insn[TagAt(k)])'
    BY QueueIs, PTL
  <2> QED
    BY <1>1, <1>2, <2>1, <2>2
<1>5. ASSUME NEW k \in 1..InUse', NEW t \in Tags, t = TagAt(k)'
      PROVE  /\ id.wr_reg /\ t = rrfptr => k = InUse'
             /\ ~(id.wr_reg /\ t = rrfptr) =>
                  /\ InFlight(t) /\ ~Leaves(t)
                  /\ t = TagAt(k + Bit(commit_1))
                  /\ k + Bit(commit_1) \in 1..InUse
  <2>1. InFlight(t)' /\ Offset(t)' = k - 1
    BY <1>4, <1>5
  <2>2. CASE id.wr_reg /\ t = rrfptr
    <3>1. Offset(t)' = InUse' - 1 /\ InUse' \in Int
      BY <1>1, <1>3, <2>2, TagStep
    <3> QED
      BY <2>1, <2>2, <3>1
  <2>3. CASE ~(id.wr_reg /\ t = rrfptr)
    <3>1. InFlight(t) /\ ~Leaves(t)
      BY <2>1, <2>3, InsnStep
    <3>2. Offset(t)' = Offset(t) - Bit(commit_1)
      BY <1>1, <3>1, TagStep
    <3>3. Offset(t) \in Int
      BY <1>1 DEF Offset, RobTypeOK, Tags
    <3>4. Offset(t) + 1 = k + Bit(commit_1)
      BY <1>1, <1>3, <2>1, <3>2, <3>3 DEF Bit
    <3> QED
      BY <1>1, <2>3, <3>1, <3>4, TagAtIs
  <2> QED
    BY <2>2, <2>3
<1>6. ASSUME NEW k \in 1..(InUse - Bit(commit_1))
      PROVE  Queue'[k] = Queue[k + Bit(commit_1)]
  <2>1. k \in 1..InUse'
    BY <1>1, <1>3 DEF Bit
  <2>2. PICK t \in Tags : t = TagAt(k)'
    BY <1>4, <2>1
  <2>3. ~(id.wr_reg /\ t = rrfptr)
    BY <1>1, <1>3, <1>5, <2>1, <2>2 DEF Bit
  <2>4. /\ InFlight(t) /\ ~Leaves(t)
        /\ t = TagAt(k + Bit(commit_1)) /\ k + Bit(commit_1) \in 1..InUse
    BY <1>5, <2>1, <2>2, <2>3
  <2>5. Queue'[k] = insn'[t]
    BY <1>4, <2>1, <2>2
  <2>6. Queue[k + Bit(commit_1)] = insn[t]
    BY <1>1, <2>4, QueueIs
  <2> QED
    BY <2>4, <2>5, <2>6, InsnStep
<1>7. ASSUME id.wr_reg PROVE Queue'[InUse'] = id
  <2>1. PICK k \in 1..InUse' : k = InUse'
    <3>1. InUse - Bit(commit_1) >= 0
      BY <1>3, RingEdge DEF InUse, Bit
    <3>2. InUse' >= 1 /\ InUse' \in Int
      BY <1>3, <1>7, <3>1 DEF Bit
    <3>3. InUse' \in 1..InUse'
      BY <3>2
    <3> QED
      BY <3>3, Zenon
  <2>2. PICK t \in Tags : t = TagAt(k)'
    BY <1>4
  <2>3. id.wr_reg /\ t = rrfptr
    BY <1>1, <1>3, <1>5, <1>7, <2>1, <2>2 DEF Bit
  <2>4. Queue'[k] = insn'[t]
    BY <1>4, <2>2
  <2> QED
    BY <2>1, <2>3, <2>4, InsnStep
<1> QED
  BY <1>3, <1>6, <1>7

(* The head commits what its instruction computes from the registers.      *)
LEMMA CommitExecutes ==
  ASSUME NEW next, Edge(next), ValuesOK, commit_1
  PROVE  InUse >= 1 /\ Sequential!Execute(Queue[1])
<1>1. /\ PacedInv /\ Clock(next, alu_latch) /\ AllocTypeOK /\ RobTypeOK
      /\ Inv /\ EntriesHeld
  BY EdgeIsClock, WireTypes DEF PacedInv
<1>2. PICK h \in Tags : h = commit_ptr_1 /\ Leaves(h)
  BY <1>1 DEF RobTypeOK, Leaves
<1>3. InFlight(h) /\ ~InLatch(h) /\ finish[h] /\ arfwe_1 /\ Offset(h) = 0
  BY <1>1, <1>2, HeadWrites
<1>4. InUse >= 1 /\ Queue[1] = insn[h]
  <2>1. 0 + 1 \in 1..InUse /\ TagAt(1) = h
    BY <1>1, <1>3, TagAtIs
  <2>2. CoreTypeOK
    BY DEF Edge, FullInv, CoreInv
  <2> QED
    BY <2>1, <2>2, QueueIs, QueueStep
<1>5. arf_data' = [arf_data EXCEPT ![dst[h]] = rrf_data[h]]
  BY <1>1, <1>2, <1>3 DEF Clock, DispatchClock, ArfClock, CommitPort
<1>6. insn[h].rd = dst[h] /\ Computed(h, rrf_data[h])
  BY <1>3 DEF ValuesOK, Destination
<1>7. PICK a, b \in Operand :
        /\ Supplies(insn[h].rs1, h, a, TRUE)
        /\ Supplies(insn[h].rs2, h, b, TRUE)
        /\ rrf_data[h] = AluResult(insn[h], a, b)
  BY <1>6 DEF Computed
<1>8. ASSUME NEW r, NEW x, Supplies(r, h, x, TRUE)
      PROVE  x = Sequential!Read(r)
  <2>1. \A w \in Tags : ~(Offset(w) < Offset(h))
    <3>1. commit_ptr_1 \in 1..NumTags
      BY RingEdge
    <3>2. \A w \in Tags : Offset(w) \in Nat
      BY <3>1 DEF Offset, Tags
    <3> QED
      BY <1>3, <3>2
  <2>2. Older(r, h) = {}
    BY <2>1 DEF Older, Writers
  <2> QED
    BY <1>8, <2>2 DEF Supplies, IsYoungest, Sequential!Read
<1>9. a = Sequential!Read(insn[h].rs1) /\ b = Sequential!Read(insn[h].rs2)
  BY <1>7, <1>8
<1>10. \A c, x, y : AluResult(c, x, y) = Sequential!AluResult(c, x, y)
  BY DEF AluResult, SrcA, SrcB, Sequential!AluResult, Sequential!SrcA,
         Sequential!SrcB
<1> QED
  BY <1>4, <1>5, <1>6, <1>7, <1>9, <1>10 DEF Sequential!Execute

(* The queue after the edge: what is left of it, or that and the renamed   *)
(* instruction.                                                            *)
LEMMA QueueAccepts ==
  ASSUME NEW next, Edge(next), ValuesOK
  PROVE  Queue' \in Sequential!Accepted(IF commit_1 THEN Tail(Queue)
                                        ELSE Queue)
<1> DEFINE s == Bit(commit_1)
           B == IF commit_1 THEN Tail(Queue) ELSE Queue
<1>1. /\ CoreTypeOK /\ CoreTypeOK' /\ TypeOK
      /\ commit_1 \in BOOLEAN /\ id.wr_reg \in BOOLEAN
  BY EdgeIsClock, WireTypes, CoreTypePreserved DEF Edge, FullInv, CoreInv
<1>2. InUse \in 0..NumTags /\ Queue \in Seq(Control) /\ Len(Queue) = InUse
  BY <1>1, QueueIs
<1>3. Queue' \in Seq(Control) /\ Len(Queue') = InUse'
  <2>1. (CoreTypeOK =>
          /\ InUse \in 0..NumTags
          /\ Queue \in Seq(Control) /\ Len(Queue) = InUse
          /\ \A k \in 1..InUse : Queue[k] = insn[TagAt(k)])'
    BY QueueIs, PTL
  <2> QED
    BY <1>1, <2>1 DEF Control
<1>4. commit_1 => InUse >= 1 /\ Queue # <<>>
  <2> SUFFICES ASSUME commit_1 PROVE InUse >= 1 /\ Queue # <<>>
    OBVIOUS
  <2>1. InUse >= 1
    BY QueueStep
  <2> QED
    BY <1>2, <2>1, EmptySeq
<1>5. /\ B \in Seq(Control) /\ Len(B) = InUse - s
      /\ \A k \in 1..Len(B) : B[k] = Queue[k + s]
  <2>1. CASE commit_1
    BY <1>2, <1>4, <2>1, HeadTailProperties DEF Bit
  <2>2. CASE ~commit_1
    BY <1>2, <2>2 DEF Bit
  <2> QED
    BY <2>1, <2>2
<1>6. /\ InUse' = InUse - s + Bit(id.wr_reg)
      /\ \A k \in 1..Len(B) : Queue'[k] = B[k]
      /\ id.wr_reg => Queue'[InUse'] = id
  BY <1>5, QueueStep
<1>7. Len(B) \in Nat /\ s \in Int
  BY <1>1, <1>5, LenProperties DEF Bit
<1> HIDE DEF B, s
<1>8. PICK V \in Seq(Control), W \in Seq(Control) : V = Queue' /\ W = B
  BY <1>3, <1>5
<1>9. CASE id.wr_reg
  <2>1. PICK c \in Control : c = id
    BY <1>1, WireTypes
  <2>2. c \in {Sequential!Decode(i) : i \in Program}
    <3>1. c # Bubble
      BY <1>9, <2>1 DEF Bubble
    <3>2. \A i : Decode(i) = Sequential!Decode(i)
      BY DEF Decode, wr_reg, rs_ent, src_a_sel, src_b_sel, alu_op,
         Sequential!Decode, Sequential!wr_reg, Sequential!rs_ent,
         Sequential!src_a_sel, Sequential!src_b_sel, Sequential!alu_op
    <3> QED
      BY <2>1, <3>1, <3>2 DEF ValuesOK, Fetchable
  <2>3. PICK a \in Seq(Control) :
          /\ a = Append(W, c) /\ Len(a) = Len(W) + 1
          /\ \A i \in 1..Len(W) : a[i] = W[i]
          /\ a[Len(W) + 1] = c
    BY AppendProperties
  <2>4. Len(V) = Len(W) + 1
    BY <1>2, <1>3, <1>5, <1>6, <1>7, <1>8, <1>9 DEF Bit
  <2>5. V[Len(W) + 1] = c
    BY <1>3, <1>6, <1>8, <1>9, <2>1, <2>4
  <2>6. \A i \in 1..Len(V) : V[i] = a[i]
    BY <1>6, <1>7, <1>8, <2>3, <2>4, <2>5
  <2>7. V = a
    BY <2>3, <2>4, <2>6, SeqEqual
  <2> QED
    BY <1>8, <2>2, <2>3, <2>7 DEF Sequential!Accepted, B
<1>10. CASE ~id.wr_reg
  <2>1. Len(V) = Len(W)
    BY <1>2, <1>3, <1>5, <1>6, <1>7, <1>8, <1>10 DEF Bit
  <2>2. V = W
    BY <1>6, <1>8, <2>1, SeqEqual
  <2> QED
    BY <1>8, <2>2 DEF Sequential!Accepted, B
<1> QED
  BY <1>1, <1>9, <1>10

-----------------------------------------------------------------------------
(* Operands and results are always right.                                  *)
LEMMA ValuesSpecInv ==
  AluProgram /\ RingCovers => (SpareSpec => [](FullInv /\ ValuesOK))
<1> SUFFICES ASSUME AluProgram /\ RingCovers
             PROVE  SpareSpec => [](FullInv /\ ValuesOK)
  OBVIOUS
<1>1. CoreInit => ValuesOK
  BY ValuesInit
<1>2. FullInv /\ ValuesOK /\ [CoreNext(1)]_coreVars => ValuesOK'
  BY ValuesPreserved, ValuesStutter DEF CoreNext, Edge
<1> QED
  BY <1>1, <1>2, CoreSpecInv, PTL DEF SpareSpec

(* Every operand and every result on its way through the core is the one   *)
(* of its instruction in program order.                                    *)
THEOREM ValuesCorrect ==
  ASSUME AluProgram /\ RingCovers
  PROVE  SpareSpec => []ValuesOK
BY ValuesSpecInv, PTL

(* The core executes the program: seen from the architectural registers    *)
(* the accepted instructions take effect one after the other, each on what *)
(* the ones before it left.                                                *)
THEOREM CoreExecutesProgram ==
  ASSUME AluProgram /\ RingCovers
  PROVE  SpareSpec => ImplementsSequentialMachine
<1>1. FullInv /\ ValuesOK /\ [CoreNext(1)]_coreVars =>
        [Sequential!Next]_<<arf_data, Queue>>
  <2> SUFFICES ASSUME FullInv, ValuesOK, [CoreNext(1)]_coreVars
               PROVE  [Sequential!Next]_<<arf_data, Queue>>
    OBVIOUS
  <2>1. CASE CoreNext(1)
    <3>1. PICK next \in Fetchable : Edge(next)
      BY <2>1 DEF CoreNext, Edge
    <3>2. Queue' \in Sequential!Accepted(IF commit_1 THEN Tail(Queue)
                                         ELSE Queue)
      BY <3>1, QueueAccepts
    <3>3. CASE commit_1
      <4>1. InUse >= 1 /\ Sequential!Execute(Queue[1])
        BY <3>1, <3>3, CommitExecutes
      <4>2. CoreTypeOK
        BY DEF FullInv, CoreInv
      <4>3. Queue \in Seq(Control) /\ Len(Queue) = InUse
        BY <4>2, QueueIs
      <4>4. Queue # <<>> /\ Head(Queue) = Queue[1]
        BY <4>1, <4>3, EmptySeq
      <4> QED
        BY <3>2, <3>3, <4>1, <4>4 DEF Sequential!Next, Queue
    <3>4. CASE ~commit_1
      <4>1. arf_data' = arf_data
        BY <3>1, <3>4, EdgeIsClock
        DEF Clock, DispatchClock, ArfClock, CommitPort, arfwe_1
      <4> QED
        BY <3>2, <3>4, <4>1 DEF Sequential!Next, Queue
    <3> QED
      BY <3>3, <3>4
  <2>2. CASE UNCHANGED coreVars
    <3>1. UNCHANGED <<arf_data, insn, freenum, commit_ptr_1>>
      BY <2>2 DEF coreVars, vars, allocVars, arfVars, robVars
    <3> QED
      BY <3>1 DEF Queue, InUse, TagAt
  <2> QED
    BY <2>1, <2>2
<1>2. CoreInit => Sequential!Init
  <2> SUFFICES ASSUME CoreInit PROVE Sequential!Init
    OBVIOUS
  <2>1. CoreTypeOK
    BY CoreInitInv DEF FullInv, CoreInv
  <2>2. InUse = 0 /\ arf_data \in [Regs -> Data]
    BY DEF CoreInit, Init, DispatchInit, AllocInit, ArfInit, InUse
  <2>3. Queue \in Seq(Control) /\ Len(Queue) = 0
    BY <2>1, <2>2, QueueIs
  <2>4. Queue = <<>>
    BY <2>3, EmptySeq
  <2> QED
    BY <2>2, <2>4 DEF Sequential!Init, Sequential!Regs, Regs, Queue
<1> QED
  BY <1>1, <1>2, ValuesSpecInv, PTL
  DEF SpareSpec, ImplementsSequentialMachine, Sequential!Spec, Queue

(* The registers change in program order, one instruction at a time.       *)
THEOREM CoreKeepsProgramOrder ==
  ASSUME AluProgram /\ RingCovers
  PROVE  SpareSpec => ImplementsProgramOrder
BY CoreRefinesRenameCommit, RenamingRefinesProgramOrder, PTL
DEF ImplementsRenameCommit
==============================================================================
