----------------------------- MODULE RSAluProofs -----------------------------
(***************************************************************************)
(* Lemmas about the ALU reservation station, for every number of entries   *)
(* and tags: which entry is selected, which one a request takes, and what  *)
(* a result does to an operand.                                            *)
(***************************************************************************)
EXTENDS RSAlu, FiniteSetTheorems, WellFoundedInduction, TLAPS

USE NumEntriesAssumption, NumTagsAssumption, DataAssumption

-----------------------------------------------------------------------------
(* A set of numbers that is not empty has a least one; of a set of         *)
(* entries there are a least and a greatest one.                           *)
LEMMA LeastExists ==
  ASSUME NEW S \in SUBSET Nat, S # {}
  PROVE  \E x \in S : \A y \in S : x <= y
<1>1. PICK m \in S : \A y \in S : ~(<<y, m>> \in OpToRel(<, Nat))
  BY WFMin, NatLessThanWellFounded
<1>2. ASSUME NEW y \in S PROVE m <= y
  <2>1. m \in Nat /\ y \in Nat
    OBVIOUS
  <2>2. OpToRel(<, Nat) = {ss \in Nat \X Nat : ss[1] < ss[2]}
    BY DEF OpToRel
  <2>3. <<y, m>> \notin {ss \in Nat \X Nat : ss[1] < ss[2]}
    BY <1>1, <2>2, Zenon
  <2>4. ~(y < m)
    BY <2>1, <2>3
  <2> QED
    BY <2>1, <2>4
<1> QED
  BY <1>2

(* There are NumEntries entries, and every set of them is finite.          *)
LEMMA EntriesFinite ==
  /\ IsFiniteSet(Entries) /\ Cardinality(Entries) = NumEntries
  /\ \A S \in SUBSET Entries : IsFiniteSet(S) /\ Cardinality(S) \in Nat
<1>1. IsFiniteSet(Entries) /\ Cardinality(Entries) = NumEntries
  BY FS_Interval DEF Entries
<1>2. ASSUME NEW S \in SUBSET Entries
      PROVE  IsFiniteSet(S) /\ Cardinality(S) \in Nat
  BY <1>1, FS_Subset, FS_CardinalityType
<1> QED
  BY <1>1, <1>2

(* A set of entries has one with the lowest index ...                      *)
LEMMA LeastEntry ==
  ASSUME NEW S \in SUBSET Entries, S # {}
  PROVE  \E e \in S : \A f \in S : e <= f
<1>1. S \in SUBSET Nat
  BY DEF Entries
<1> QED
  BY <1>1, LeastExists

(* ... and one with the highest.                                           *)
LEMMA GreatestEntry ==
  ASSUME NEW S \in SUBSET Entries, S # {}
  PROVE  \E e \in S : \A f \in S : f <= e
<1> DEFINE T == {NumEntries - 1 - e : e \in S}
<1>1. T \in SUBSET Nat
  BY DEF Entries
<1>2. T # {}
  OBVIOUS
<1>3. PICK m \in T : \A y \in T : m <= y
  <2> HIDE DEF T
  <2> QED
    BY <1>1, <1>2, LeastExists
<1>4. PICK e \in S : m = NumEntries - 1 - e
  OBVIOUS
<1>5. ASSUME NEW f \in S PROVE f <= e
  <2>1. NumEntries - 1 - f \in T
    OBVIOUS
  <2>2. m <= NumEntries - 1 - f
    BY <1>3, <2>1
  <2> QED
    BY <1>4, <2>2 DEF Entries
<1> QED
  BY <1>5

-----------------------------------------------------------------------------
(* Issue.                                                                  *)
TagsInRange == \A e \in Entries : entry[e].tag \in TagIndex

(* What the finder compares: a ready entry counts less than any other.     *)
LEMMA AgeIsNat ==
  ASSUME TagsInRange, NEW e \in Entries
  PROVE  /\ Age(e) \in Nat /\ Age(e) < 2 * (NumTags + 1)
         /\ HistoryValue(e) = IF Ready(e) THEN Age(e)
                              ELSE 2 * (NumTags + 1) + Age(e)
BY DEF TagsInRange, Age, HistoryValue, Bit, TagIndex

(* One entry is selected, and none has a smaller value.                    *)
LEMMA SelectsOne ==
  ASSUME TagsInRange
  PROVE  /\ IssueEntry \in Entries
         /\ \A f \in Entries : HistoryValue(IssueEntry) <= HistoryValue(f)
<1> DEFINE values == {HistoryValue(e) : e \in Entries}
           Least(e) == \A f \in Entries : HistoryValue(e) <= HistoryValue(f)
           least == {e \in Entries : Least(e)}
           First(e) == \A f \in Entries :
                         \/ HistoryValue(e) < HistoryValue(f)
                         \/ HistoryValue(e) = HistoryValue(f) /\ f <= e
<1>1. \A e \in Entries : HistoryValue(e) \in Nat
  BY AgeIsNat
<1>2. PICK v \in values : \A w \in values : v <= w
  <2>1. values \in SUBSET Nat
    BY <1>1
  <2>2. 0 \in Entries
    BY DEF Entries
  <2>3. HistoryValue(0) \in values
    BY <2>2
  <2>4. values # {}
    BY <2>3
  <2> HIDE DEF values
  <2> QED
    BY <2>1, <2>4, LeastExists
<1>3. PICK a \in Entries : v = HistoryValue(a)
  OBVIOUS
<1>4. Least(a)
  BY <1>2, <1>3
<1>5. PICK b \in least : \A f \in least : f <= b
  <2>1. least \in SUBSET Entries /\ least # {}
    BY <1>4
  <2> HIDE DEF least
  <2> QED
    BY <2>1, GreatestEntry
<1>6. b \in Entries /\ First(b)
  <2> SUFFICES ASSUME NEW f \in Entries
               PROVE  \/ HistoryValue(b) < HistoryValue(f)
                      \/ HistoryValue(b) = HistoryValue(f) /\ f <= b
    OBVIOUS
  <2>1. HistoryValue(b) <= HistoryValue(f)
    OBVIOUS
  <2>2. ASSUME HistoryValue(b) = HistoryValue(f) PROVE f <= b
    <3>1. f \in least
      BY <2>2
    <3> QED
      BY <1>5, <3>1
  <2>3. HistoryValue(b) \in Nat /\ HistoryValue(f) \in Nat
    BY <1>1
  <2> QED
    BY <2>1, <2>2, <2>3
<1>7. IssueEntry = CHOOSE e \in Entries : First(e)
  BY DEF IssueEntry
<1>8. IssueEntry \in Entries /\ First(IssueEntry)
  <2> HIDE DEF First
  <2> QED
    BY <1>6, <1>7
<1>9. ASSUME NEW f \in Entries PROVE HistoryValue(IssueEntry) <= HistoryValue(f)
  BY <1>1, <1>8
<1> QED
  BY <1>8, <1>9

(* If anything is ready the selected entry is, and it has the least age of *)
(* all that are; otherwise it has the least age of all entries.            *)
LEMMA SelectsLeast ==
  ASSUME TagsInRange
  PROVE  /\ IssueEntry \in Entries
         /\ Issue => \A f \in Entries : Ready(f) => Age(IssueEntry) <= Age(f)
         /\ ~Issue => \A f \in Entries : ~Ready(f) /\ Age(IssueEntry) <= Age(f)
<1>1. /\ IssueEntry \in Entries
      /\ \A f \in Entries : HistoryValue(IssueEntry) <= HistoryValue(f)
  BY SelectsOne
<1>2. ASSUME Issue, NEW f \in Entries, Ready(f)
      PROVE  Age(IssueEntry) <= Age(f)
  BY <1>1, <1>2, AgeIsNat DEF Issue
<1>3. ASSUME ~Issue, NEW f \in Entries
      PROVE  ~Ready(f) /\ Age(IssueEntry) <= Age(f)
  <2>1. /\ HistoryValue(IssueEntry) = 2 * (NumTags + 1) + Age(IssueEntry)
        /\ Age(IssueEntry) \in Nat
    BY <1>1, <1>3, AgeIsNat DEF Issue
  <2>2. /\ HistoryValue(f) = IF Ready(f) THEN Age(f)
                             ELSE 2 * (NumTags + 1) + Age(f)
        /\ Age(f) \in Nat /\ Age(f) < 2 * (NumTags + 1)
    BY AgeIsNat
  <2>3. HistoryValue(IssueEntry) <= HistoryValue(f)
    BY <1>1
  <2> QED
    BY <2>1, <2>2, <2>3
<1> QED
  BY <1>1, <1>2, <1>3

-----------------------------------------------------------------------------
(* Allocation: a single request takes the least of the free entries.       *)
IsSlot(e) == e \in FreeEntries /\ \A f \in FreeEntries : e <= f

(* The first port belongs to the lowest free entry.                        *)
LEMMA PortIsOne ==
  ASSUME NEW e \in FreeEntries
  PROVE  /\ Port(e) \in Nat
         /\ Port(e) = 1 <=> IsSlot(e)
<1> DEFINE below == {f \in FreeEntries : f <= e}
<1>1. FreeEntries \subseteq Entries
  BY DEF FreeEntries
<1>2. e \in Nat /\ e \in below
  BY <1>1 DEF Entries
<1>3. IsFiniteSet(below) /\ Cardinality(below) \in Nat
  <2>1. below \in SUBSET Entries
    BY <1>1
  <2> QED
    BY <2>1, EntriesFinite
<1>4. Port(e) = Cardinality(below)
  BY DEF Port
<1>5. Cardinality(below) = 1 <=> \E x : below = {x}
  BY <1>3, FS_Singleton
<1>6. ASSUME IsSlot(e) PROVE below = {e}
  <2>1. ASSUME NEW f \in below PROVE f = e
    BY <1>1, <1>2, <1>6 DEF IsSlot, Entries
  <2> QED
    BY <1>2, <2>1
<1>7. ASSUME NEW x, below = {x} PROVE IsSlot(e)
  <2>1. below = {e}
    BY <1>2, <1>7
  <2>2. ASSUME NEW f \in FreeEntries PROVE e <= f
    BY <1>1, <1>2, <2>1 DEF Entries
  <2> QED
    BY <2>2 DEF IsSlot
<1> QED
  BY <1>3, <1>4, <1>5, <1>6, <1>7

(* The entry a request is written into, if there is one.                   *)
Takes(e, reqs, stall) == ~stall /\ reqs # <<>> /\ IsSlot(e)

(* With one request at a time, that entry alone is written.                *)
LEMMA WrittenIs ==
  ASSUME NEW req, NEW reqs, reqs = <<>> \/ reqs = <<req>>, NEW stall,
         NEW e \in Entries
  PROVE  /\ Written(e, reqs, stall) <=> Takes(e, reqs, stall)
         /\ Written(e, reqs, stall) => reqs[Port(e)] = req
<1>1. CASE reqs = <<>>
  <2>1. DOMAIN reqs = {}
    BY <1>1
  <2> QED
    BY <1>1, <2>1 DEF Written, Takes
<1>2. CASE reqs = <<req>>
  <2>1. DOMAIN reqs = {1} /\ reqs[1] = req /\ Len(reqs) = 1 /\ reqs # <<>>
    BY <1>2
  <2>2. FreeEntries \in SUBSET Entries
    BY DEF FreeEntries
  <2>3. ASSUME NEW f \in FreeEntries PROVE Cardinality(FreeEntries) >= 1
    <3>1. IsFiniteSet(FreeEntries) /\ Cardinality(FreeEntries) \in Nat
      BY <2>2, EntriesFinite
    <3>2. Cardinality(FreeEntries) # 0
      BY <3>1, FS_EmptySet
    <3> QED
      BY <3>1, <3>2
  <2>4. ASSUME e \in FreeEntries
        PROVE  /\ Accepts(reqs, stall) <=> ~stall
               /\ Port(e) \in DOMAIN reqs <=> IsSlot(e)
    <3>1. Cardinality(FreeEntries) >= 1 /\ Cardinality(FreeEntries) \in Nat
      BY <2>2, <2>3, <2>4, EntriesFinite
    <3>2. Accepts(reqs, stall) <=> ~stall
      BY <2>1, <3>1 DEF Accepts
    <3>3. Port(e) \in DOMAIN reqs <=> IsSlot(e)
      BY <2>1, <2>4, PortIsOne
    <3> QED
      BY <3>2, <3>3
  <2>5. Written(e, reqs, stall) <=> Takes(e, reqs, stall)
    BY <2>1, <2>4 DEF Written, Takes, IsSlot
  <2>6. Written(e, reqs, stall) => Port(e) = 1
    BY <2>1 DEF Written
  <2> QED
    BY <2>1, <2>5, <2>6
<1> QED
  BY <1>1, <1>2

(* Two entries are never the slot at once, and if one is free there is one. *)
LEMMA SlotIs ==
  /\ \A e, f \in Entries : IsSlot(e) /\ IsSlot(f) => e = f
  /\ FreeEntries # {} => \E e \in Entries : IsSlot(e)
<1>1. FreeEntries \in SUBSET Entries
  BY DEF FreeEntries
<1>2. ASSUME NEW e \in Entries, NEW f \in Entries, IsSlot(e), IsSlot(f)
      PROVE  e = f
  BY <1>2 DEF IsSlot, Entries
<1>3. ASSUME FreeEntries # {} PROVE \E e \in Entries : IsSlot(e)
  BY <1>1, <1>3, LeastEntry DEF IsSlot
<1> QED
  BY <1>2, <1>3

-----------------------------------------------------------------------------
(* Wakeup, with one bus that carries a result and one that is idle.        *)
LEMMA ResolveIs ==
  ASSUME NEW bus, NEW op, NEW ready
  PROVE  LET buses == <<bus, IdleBus>> IN
         /\ Resolved(op, ready, buses) <=>
              ready \/ op = bus.rrf_tag \/ op = 0
         /\ Resolve(op, ready, buses) =
              IF ready THEN op
              ELSE IF op = bus.rrf_tag THEN bus.result
              ELSE IF op = 0 THEN 0 ELSE op
<1> DEFINE buses == <<bus, IdleBus>>
<1>1. /\ DOMAIN buses = {1, 2} /\ buses[1] = bus
      /\ buses[2] = IdleBus
  OBVIOUS
<1>2. IdleBus.rrf_tag = 0 /\ IdleBus.result = 0
  BY DEF IdleBus
<1> HIDE DEF buses
<1>3. Carriers(op, buses) = {k \in {1, 2} : buses[k].rrf_tag = op}
  BY <1>1 DEF Carriers
<1>4. CASE op = bus.rrf_tag
  <2>1. 1 \in Carriers(op, buses) /\ Carriers(op, buses) \subseteq {1, 2}
    BY <1>1, <1>3, <1>4
  <2>2. Min(Carriers(op, buses)) = 1
    BY <2>1 DEF Min
  <2> QED
    BY <1>1, <1>4, <2>1, <2>2 DEF Resolved, Resolve, buses
<1>5. CASE op # bus.rrf_tag /\ op = 0
  <2>1. Carriers(op, buses) = {2}
    BY <1>1, <1>2, <1>3, <1>5
  <2>2. Min(Carriers(op, buses)) = 2
    BY <2>1 DEF Min
  <2> QED
    BY <1>1, <1>2, <1>5, <2>1, <2>2 DEF Resolved, Resolve, buses
<1>6. CASE op # bus.rrf_tag /\ op # 0
  <2>1. Carriers(op, buses) = {}
    BY <1>1, <1>2, <1>3, <1>6
  <2> QED
    BY <1>6, <2>1 DEF Resolved, Resolve, buses
<1> QED
  BY <1>4, <1>5, <1>6
=============================================================================
