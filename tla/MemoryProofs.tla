---------------------------- MODULE MemoryProofs ----------------------------
(***************************************************************************)
(* Proofs about the memory path: the store buffer in front of the RAM, for *)
(* every size of the buffer and all sets of addresses and words, and the   *)
(* memory reservation station, for every number of entries and tags.       *)
(***************************************************************************)
EXTENDS MemAccess, MemDispatch, FiniteSetTheorems, FunctionTheorems,
        WellFoundedInduction, TLAPS

USE StoreBufferAssumption

-----------------------------------------------------------------------------
(* A set of numbers below a bound has a greatest one.                      *)
LEMMA GreatestExists ==
  ASSUME NEW S \in SUBSET Nat, S # {}, NEW b \in Nat, \A x \in S : x <= b
  PROVE  \E x \in S : \A y \in S : y <= x
<1> DEFINE T == {b - x : x \in S}
<1>1. T \subseteq Nat
  <2>1. \A x \in S : x \in Nat /\ x <= b
    OBVIOUS
  <2> QED
    BY <2>1
<1>2. T # {}
  <2>1. PICK x \in S : TRUE
    OBVIOUS
  <2>2. b - x \in T
    OBVIOUS
  <2> QED
    BY <2>2
<1>3. PICK m \in T : \A y \in T : ~(<<y, m>> \in OpToRel(<, Nat))
  <2> HIDE DEF T
  <2> QED
    BY <1>1, <1>2, WFMin, NatLessThanWellFounded
<1>4. ASSUME NEW y \in T PROVE m <= y
  <2>1. m \in Nat /\ y \in Nat
    BY <1>1
  <2>2. OpToRel(<, Nat) = {ss \in Nat \X Nat : ss[1] < ss[2]}
    BY DEF OpToRel
  <2>3. <<y, m>> \notin {ss \in Nat \X Nat : ss[1] < ss[2]}
    BY <1>3, <2>2, Zenon
  <2>4. ~(y < m)
    BY <2>1, <2>3
  <2> QED
    BY <2>1, <2>4
<1>5. PICK x \in S : m = b - x
  OBVIOUS
<1>6. ASSUME NEW y \in S PROVE y <= x
  <2>1. b - y \in T
    OBVIOUS
  <2>2. m <= b - y
    BY <1>4, <2>1
  <2>3. x \in Nat /\ y \in Nat
    OBVIOUS
  <2> QED
    BY <1>5, <2>2, <2>3
<1> QED
  BY <1>6

(* The entry a load selects, when there is one.                            *)
LEMMA MatchIs ==
  ASSUME NEW a, Matches(a) # {}
  PROVE  /\ Match(a) \in Matches(a)
         /\ \A j \in Matches(a) : j <= Match(a)
<1>1. \E i \in Matches(a) : \A j \in Matches(a) : j <= i
  <2>1. Matches(a) \in SUBSET Nat /\ \A i \in Matches(a) : i <= NumStores
    BY DEF Matches, Slots
  <2> QED
    BY <2>1, GreatestExists
<1>2. \E i \in Matches(a) : \A j \in Matches(a) : i >= j
  BY <1>1 DEF Matches, Slots
<1>3. Match(a) = CHOOSE i \in Matches(a) : \A j \in Matches(a) : i >= j
  BY DEF Match, Max
<1>4. Match(a) \in Matches(a) /\ \A j \in Matches(a) : Match(a) >= j
  BY <1>2, <1>3
<1> QED
  BY <1>4 DEF Matches, Slots

-----------------------------------------------------------------------------
(* The ring of entries.                                                    *)
PointersOK == used_ptr \in Slots /\ complete_ptr \in Slots /\ retire_ptr \in Slots

(* Distances are indices, and different for different entries.             *)
LEMMA DistanceIs ==
  ASSUME PointersOK
  PROVE  /\ \A p \in Slots : Distance(p) \in Slots
         /\ \A p, q \in Slots : Distance(p) = Distance(q) => p = q
BY DEF PointersOK, Distance, Slots

(* The youngest of the entries that wait with an address: there is one,    *)
(* and no other is as far from the retire pointer.                         *)
LEMMA YoungestIs ==
  ASSUME PointersOK, NEW a, Pending(a) # {}
  PROVE  /\ YoungestPending(a) \in Pending(a)
         /\ \A j \in Pending(a) : Distance(j) <= Distance(YoungestPending(a))
<1> DEFINE S == {Distance(i) : i \in Pending(a)}
<1>1. S \in SUBSET Nat /\ S # {} /\ \A x \in S : x <= NumStores
  BY DistanceIs DEF Pending, Slots
<1>2. PICK x \in S : \A y \in S : y <= x
  <2> HIDE DEF S
  <2> QED
    BY <1>1, GreatestExists
<1>3. \E i \in Pending(a) : \A j \in Pending(a) : Distance(j) <= Distance(i)
  BY <1>2
<1> QED
  BY <1>3 DEF YoungestPending

IsYoungestStore(i, a) ==
  i \in Pending(a) /\ \A j \in Pending(a) : Distance(j) <= Distance(i)

YoungestUnique ==
  \A a \in Addr, i \in Slots : IsYoungestStore(i, a) => YoungestPending(a) = i

(* The youngest store of an address is one entry.                          *)
LEMMA YoungestIsUnique == PointersOK => YoungestUnique
<1> SUFFICES ASSUME PointersOK, NEW a \in Addr, NEW i \in Slots, IsYoungestStore(i, a)
             PROVE  YoungestPending(a) = i
  BY DEF YoungestUnique
<1>1. /\ YoungestPending(a) \in Pending(a)
      /\ \A j \in Pending(a) : Distance(j) <= Distance(YoungestPending(a))
  BY YoungestIs DEF IsYoungestStore
<1>2. Distance(YoungestPending(a)) = Distance(i)
  BY <1>1, DistanceIs DEF Pending, Slots, IsYoungestStore
<1> QED
  BY <1>1, <1>2, DistanceIs DEF Pending

-----------------------------------------------------------------------------
(* The inductive invariant.  Which entries wait is recorded twice, by the  *)
(* bits and by the pointers.                                               *)
Waits(i) == Distance(i) \in 1..Distance(used_ptr)

BufferInv ==
  /\ SbTypeOK
  /\ memory \in [Addr -> Word] /\ read_data \in Word
  /\ RetiresInBounds
  /\ \A i \in Slots : buffered[i] <=> Waits(i)

(* The pointers are part of the invariant.                                 *)
LEMMA InvPointers == BufferInv => PointersOK
BY DEF BufferInv, SbTypeOK, PointersOK

(* The buffer is empty after the reset.                                    *)
LEMMA InitBuffer == MemInit => BufferInv
<1> SUFFICES ASSUME MemInit PROVE BufferInv
  OBVIOUS
<1>1. SbTypeOK
  <2>1. 0 \in Slots
    BY DEF Slots
  <2> QED
    BY <2>1 DEF MemInit, SbInit, SbTypeOK
<1>2. Distance(used_ptr) = 0 /\ Distance(complete_ptr) = 0
  BY DEF MemInit, SbInit, Distance
<1>3. \A i \in Slots : ~buffered[i] /\ ~Waits(i)
  BY <1>2 DEF MemInit, SbInit, Waits, Slots
<1> QED
  BY <1>1, <1>2, <1>3 DEF MemInit, BufferInv, RetiresInBounds

(* What an edge does to the three pointers, and who waits afterwards.  The *)
(* new store takes the place behind the youngest, never one that waits or  *)
(* one that leaves; the oldest leaves, and waited.                         *)
LEMMA PointersMove ==
  ASSUME BufferInv, NEW op \in Operations, NEW complete \in BOOLEAN,
         Ordinary(op, complete), SbClock(op, complete)
  PROVE  /\ PointersOK' /\ RetiresInBounds'
         /\ op.kind = "store" =>
              ~Waits(used_ptr') /\ Waits(used_ptr)'
         /\ Retires(op, complete) =>
              Waits(retire_ptr') /\ Distance(retire_ptr') = 1
         /\ \A i \in Slots : Waits(i)' <=>
              /\ Waits(i) \/ (op.kind = "store" /\ i = used_ptr')
              /\ ~(Retires(op, complete) /\ i = retire_ptr')
         /\ \A i \in Slots : Waits(i)' => Distance(i)' <= Distance(used_ptr)'
         /\ \A i \in Slots : Waits(i)' =>
              Distance(i)' = Distance(i) - (IF Retires(op, complete) THEN 1 ELSE 0)
<1> DEFINE store == op.kind = "store"
           retires == Retires(op, complete)
           c == Completed(complete)
<1>1. /\ used_ptr \in Slots /\ complete_ptr \in Slots /\ retire_ptr \in Slots
      /\ Distance(complete_ptr) <= Distance(used_ptr)
  BY DEF BufferInv, SbTypeOK, RetiresInBounds
<1>2. /\ used_ptr' = IF store THEN Following(used_ptr) ELSE used_ptr
      /\ complete_ptr' = c
      /\ retire_ptr' = IF retires THEN Following(retire_ptr) ELSE retire_ptr
  BY DEF SbClock
<1>3. store => Following(used_ptr) # retire_ptr
  BY DEF Ordinary
<1>4. retires => c # retire_ptr
  BY DEF Retires
<1>5. \A p \in Slots :
        /\ Following(p) \in Slots
        /\ Following(p) # retire_ptr => Distance(Following(p)) = Distance(p) + 1
  BY <1>1 DEF Following, Distance, Slots
<1>6. /\ \A p \in Slots : Distance(p) \in 0..(NumStores - 1)
      /\ \A p \in Slots : Distance(p) = 0 <=> p = retire_ptr
      /\ \A p, q \in Slots : Distance(p) = Distance(q) => p = q
  BY <1>1 DEF Distance, Slots
<1>7. c \in Slots /\ Distance(c) <= Distance(used_ptr)
  <2>1. CASE complete
    <3>1. c = Following(complete_ptr)
      BY <2>1 DEF Completed
    <3>2. Distance(complete_ptr) # Distance(used_ptr)
      BY <1>1, <1>6, <2>1 DEF Ordinary
    <3>3. Distance(complete_ptr) < Distance(used_ptr)
      BY <1>1, <1>6, <3>2
    <3>4. Distance(c) = 0 \/ Distance(c) = Distance(complete_ptr) + 1
      BY <1>1, <1>5, <1>6, <3>1
    <3> QED
      BY <1>1, <1>5, <1>6, <3>1, <3>3, <3>4
  <2>2. CASE ~complete
    BY <1>1, <2>2 DEF Completed
  <2> QED
    BY <2>1, <2>2
<1>8. /\ used_ptr' \in Slots /\ complete_ptr' \in Slots /\ retire_ptr' \in Slots
      /\ Distance(used_ptr') = Distance(used_ptr) + (IF store THEN 1 ELSE 0)
      /\ retires => Distance(retire_ptr') = 1 /\ Distance(used_ptr) >= 1
                    /\ Distance(c) >= 1
  <2>1. /\ used_ptr' \in Slots /\ complete_ptr' \in Slots /\ retire_ptr' \in Slots
    BY <1>1, <1>2, <1>5, <1>7
  <2>2. Distance(used_ptr') = Distance(used_ptr) + (IF store THEN 1 ELSE 0)
    BY <1>1, <1>2, <1>3, <1>5, <1>6
  <2>3. ASSUME retires
        PROVE  Distance(retire_ptr') = 1 /\ Distance(used_ptr) >= 1
               /\ Distance(c) >= 1
    <3>1. Following(retire_ptr) # retire_ptr
      BY <1>1 DEF Following, Slots
    <3>2. Distance(retire_ptr) = 0
      BY <1>1, <1>6
    <3>3. Distance(c) # 0
      BY <1>4, <1>6, <1>7, <2>3
    <3> QED
      BY <1>1, <1>2, <1>5, <1>6, <1>7, <2>3, <3>1, <3>2, <3>3
  <2> QED
    BY <2>1, <2>2, <2>3
<1>9. \A p \in Slots : Distance(p)' =
        IF ~retires THEN Distance(p)
        ELSE IF p = retire_ptr THEN NumStores - 1 ELSE Distance(p) - 1
  BY <1>1, <1>2 DEF Distance, Following, Slots
<1> HIDE DEF store, retires, c
<1>10. /\ Distance(used_ptr)' = Distance(used_ptr') - (IF retires THEN 1 ELSE 0)
       /\ Distance(complete_ptr)' = Distance(c) - (IF retires THEN 1 ELSE 0)
  <2>1. \A p \in Slots : p # retire_ptr \/ ~retires =>
          Distance(p)' = Distance(p) - (IF retires THEN 1 ELSE 0)
    BY <1>1, <1>6, <1>9 DEF Slots
  <2>2. PICK u \in Slots : u = used_ptr'
    BY <1>8
  <2>3. PICK k \in Slots : k = complete_ptr'
    BY <1>8
  <2>4. Distance(used_ptr)' = Distance(u)' /\ Distance(complete_ptr)' = Distance(k)'
    BY <2>2, <2>3 DEF Distance
  <2>5. retires => u # retire_ptr /\ k # retire_ptr
    BY <1>1, <1>2, <1>6, <1>7, <1>8, <2>2, <2>3
  <2> QED
    BY <1>2, <2>1, <2>2, <2>3, <2>4, <2>5
<1>11. PointersOK' /\ RetiresInBounds'
  <2>1. /\ Distance(c) \in Int /\ Distance(used_ptr) \in Int
        /\ Distance(used_ptr') \in Int
    BY <1>1, <1>6, <1>7, <1>8
  <2>2. Distance(complete_ptr)' <= Distance(used_ptr)'
    BY <1>7, <1>8, <1>10, <2>1
  <2> QED
    BY <1>8, <2>2 DEF PointersOK, RetiresInBounds
<1>12. \A i \in Slots : Waits(i)' <=> Distance(i)' \in 1..Distance(used_ptr)'
  BY DEF Waits
<1>13. ASSUME NEW i \in Slots
       PROVE  /\ Waits(i)' <=> /\ Waits(i) \/ (store /\ i = used_ptr')
                               /\ ~(retires /\ i = retire_ptr')
              /\ Waits(i)' => Distance(i)' <= Distance(used_ptr)'
              /\ Waits(i)' =>
                   Distance(i)' = Distance(i) - (IF retires THEN 1 ELSE 0)
  <2>1. /\ Distance(i) \in 0..(NumStores - 1)
        /\ Distance(used_ptr) \in 0..(NumStores - 1)
        /\ Distance(used_ptr') \in 0..(NumStores - 1)
    BY <1>1, <1>6, <1>8
  <2>2. store => (i = used_ptr' <=> Distance(i) = Distance(used_ptr) + 1)
    BY <1>6, <1>8
  <2>3. retires => (i = retire_ptr' <=> Distance(i) = 1)
    BY <1>6, <1>8
  <2>4. i = retire_ptr <=> Distance(i) = 0
    BY <1>6
  <2>5. Waits(i) <=> Distance(i) \in 1..Distance(used_ptr)
    BY DEF Waits
  <2>6. CASE retires
    BY <1>8, <1>9, <1>10, <1>12, <2>1, <2>2, <2>3, <2>4, <2>5, <2>6
  <2>7. CASE ~retires
    BY <1>8, <1>9, <1>10, <1>12, <2>1, <2>2, <2>4, <2>5, <2>7
  <2> QED
    BY <2>6, <2>7
<1>14. store => ~Waits(used_ptr') /\ Waits(used_ptr)'
  <2>1. ASSUME store PROVE ~Waits(used_ptr')
    BY <1>1, <1>6, <1>8, <2>1 DEF Waits
  <2>2. ASSUME store PROVE Waits(used_ptr)'
    <3>1. /\ Distance(used_ptr) \in Nat
          /\ Distance(used_ptr') = Distance(used_ptr) + 1
      BY <1>1, <1>6, <1>8, <2>2
    <3>2. Distance(used_ptr)' \in Nat /\ Distance(used_ptr)' >= 1
      BY <1>8, <1>10, <3>1
    <3> QED
      BY <3>2 DEF Waits
  <2> QED
    BY <2>1, <2>2
<1>15. retires => Waits(retire_ptr') /\ Distance(retire_ptr') = 1
  BY <1>1, <1>6, <1>8 DEF Waits
<1> QED
  BY <1>11, <1>13, <1>14, <1>15 DEF store, retires

-----------------------------------------------------------------------------
(* Who steps: both next-state relations are ordinary use.                  *)
LEMMA OperationIs ==
  ASSUME NEW op \in Operations
  PROVE  /\ op.kind \in {"none", "load", "store"}
         /\ op.kind = "none" => op = Idle
         /\ op.kind = "load" =>
              op.addr \in Addr /\ op = [kind |-> "load", addr |-> op.addr]
         /\ op.kind = "store" =>
              /\ op.addr \in Addr /\ op.word \in Word
              /\ op = [kind |-> "store", addr |-> op.addr, word |-> op.word]
<1>1. CASE op = Idle
  BY <1>1 DEF Idle
<1>2. ASSUME NEW a \in Addr, op = [kind |-> "load", addr |-> a]
      PROVE  op.kind = "load" /\ op.addr = a
  BY <1>2
<1>3. ASSUME NEW a \in Addr, NEW w \in Word,
             op = [kind |-> "store", addr |-> a, word |-> w]
      PROVE  op.kind = "store" /\ op.addr = a /\ op.word = w
  BY <1>3
<1> QED
  BY <1>1, <1>2, <1>3 DEF Operations, Idle

(* Every step of WrapNext is an edge with some operation.                  *)
LEMMA WrapIsOrdinary ==
  ASSUME WrapNext
  PROVE  \E op \in Operations, complete \in BOOLEAN :
           Ordinary(op, complete) /\ MemClock(op, complete)
BY DEF WrapNext

(* A step of MemNext is one of WrapNext.                                   *)
LEMMA MemIsWrap == MemNext => WrapNext
BY DEF MemNext, WrapNext, Careful

(* An edge keeps the invariant.                                            *)
LEMMA BufferClock ==
  ASSUME BufferInv, NEW op \in Operations, NEW complete \in BOOLEAN,
         Ordinary(op, complete), MemClock(op, complete)
  PROVE  BufferInv'
<1>1. SbClock(op, complete)
  BY DEF MemClock
<1>2. PointersOK' /\ RetiresInBounds'
  BY <1>1, PointersMove
<1>3. /\ address \in [Slots -> Addr] /\ data \in [Slots -> Word]
      /\ retire_ptr \in Slots /\ load_index \in Slots
      /\ memory \in [Addr -> Word] /\ read_data \in Word
  BY DEF BufferInv, SbTypeOK
<1>4. op.kind = "store" => op.addr \in Addr /\ op.word \in Word
  BY OperationIs
<1>5. address' \in [Slots -> Addr] /\ data' \in [Slots -> Word]
  BY <1>1, <1>3, <1>4 DEF SbClock
<1>6. buffered' \in [Slots -> BOOLEAN]
  BY <1>1 DEF SbClock, Retires
<1>7. load_index' \in Slots
  <2>1. CASE op.kind = "load" /\ Matches(op.addr) # {}
    <3>1. Match(op.addr) \in Slots
      BY <2>1, MatchIs DEF Matches
    <3> QED
      BY <1>1, <2>1, <3>1 DEF SbClock
  <2>2. CASE ~(op.kind = "load" /\ Matches(op.addr) # {})
    BY <1>1, <1>3, <2>2 DEF SbClock
  <2> QED
    BY <2>1, <2>2
<1>8. hit' \in BOOLEAN /\ mem_we' \in BOOLEAN
  BY <1>1 DEF SbClock, Retires
<1>9. memory' \in [Addr -> Word]
  BY <1>3 DEF MemClock
<1>10. read_data' \in Word
  <2>1. CASE op.kind = "load"
    <3>1. read_data' \in MemoryRead(op.addr) /\ op.addr \in Addr
      BY <2>1, OperationIs DEF MemClock
    <3> QED
      BY <1>3, <3>1 DEF MemoryRead
  <2>2. CASE op.kind # "load"
    BY <1>3, <2>2 DEF MemClock
  <2> QED
    BY <2>1, <2>2
<1>11. ASSUME NEW i \in Slots PROVE buffered'[i] <=> Waits(i)'
  <2>1. buffered[i] <=> Waits(i)
    BY DEF BufferInv
  <2>2. buffered'[i] <=>
          /\ buffered[i] \/ (op.kind = "store" /\ i = used_ptr')
          /\ ~(Retires(op, complete) /\ i = retire_ptr')
    BY <1>1 DEF SbClock
  <2> QED
    BY <1>1, <2>1, <2>2, PointersMove
<1>12. SbTypeOK'
  BY <1>2, <1>5, <1>6, <1>7, <1>8 DEF SbTypeOK, PointersOK
<1> QED
  BY <1>2, <1>9, <1>10, <1>11, <1>12 DEF BufferInv

(* So does every step, whatever the loads do, ...                          *)
LEMMA WrapStep == BufferInv /\ [WrapNext]_memVars => BufferInv'
<1>1. ASSUME BufferInv, WrapNext PROVE BufferInv'
  BY <1>1, WrapIsOrdinary, BufferClock
<1>2. ASSUME BufferInv, UNCHANGED memVars PROVE BufferInv'
  BY <1>2
  DEF BufferInv, SbTypeOK, RetiresInBounds, Distance, Waits, memVars, sbVars
<1> QED
  BY <1>1, <1>2

(* ... and every step with careful ones, ...                               *)
LEMMA BufferStep == BufferInv /\ [MemNext]_memVars => BufferInv'
BY WrapStep, MemIsWrap

(* ... so the invariant always holds.                                      *)
LEMMA WrapSpecInv == WrapSpec => []BufferInv
BY InitBuffer, WrapStep, PTL DEF WrapSpec

(* MemSpec is WrapSpec with less freedom for the loads.                    *)
LEMMA MemSpecIsWrapSpec == MemSpec => WrapSpec
<1>1. [MemNext]_memVars => [WrapNext]_memVars
  BY MemIsWrap
<1> QED
  BY <1>1, PTL DEF MemSpec, WrapSpec

(* The registers of the buffer keep their widths.                          *)
THEOREM BufferTypeCorrect == WrapSpec => []SbTypeOK
<1>1. BufferInv => SbTypeOK
  BY DEF BufferInv
<1> QED
  BY <1>1, WrapSpecInv, PTL

(* The pointer of the entries written to memory never overtakes the one of *)
(* the committed entries, nor that one the pointer of the stored ones,     *)
(* whatever the loads do.                                                  *)
THEOREM PointersInOrder == WrapSpec => []RetiresInBounds
<1>1. BufferInv => RetiresInBounds
  BY DEF BufferInv
<1> QED
  BY <1>1, WrapSpecInv, PTL

-----------------------------------------------------------------------------
(* What a program sees.                                                    *)

(* What an edge does to the stores that wait with an address.              *)
LEMMA PendingMoves ==
  ASSUME BufferInv, NEW op \in Operations, NEW complete \in BOOLEAN,
         Ordinary(op, complete), SbClock(op, complete), NEW a \in Addr,
         ~(op.kind = "store" /\ op.addr = a)
  PROVE  /\ Pending(a)' = {i \in Pending(a) :
                            ~(Retires(op, complete) /\ i = retire_ptr')}
         /\ \A i \in Pending(a) : data'[i] = data[i] /\ address'[i] = a
         /\ Retires(op, complete) =>
              (address'[retire_ptr'] = a <=> retire_ptr' \in Pending(a))
<1>1. PointersOK' /\ address \in [Slots -> Addr] /\ data \in [Slots -> Word]
  BY PointersMove DEF BufferInv, SbTypeOK
<1>2. retire_ptr' \in Slots /\ used_ptr' \in Slots
  BY <1>1 DEF PointersOK
<1>3. Retires(op, complete) => Waits(retire_ptr')
  BY PointersMove
<1>4. op.kind = "store" => ~Waits(used_ptr')
  BY PointersMove
<1>5. \A i \in Slots :
        /\ address'[i] = IF op.kind = "store" /\ i = used_ptr'
                         THEN op.addr ELSE address[i]
        /\ data'[i] = IF op.kind = "store" /\ i = used_ptr'
                      THEN op.word ELSE data[i]
  BY <1>1 DEF SbClock
<1>6. /\ Pending(a) = {i \in Slots : Waits(i) /\ address[i] = a}
      /\ Pending(a)' = {i \in Slots : Waits(i)' /\ address'[i] = a}
  BY DEF Pending, Waits
<1>7. \A i \in Slots : Waits(i)' <=>
        /\ Waits(i) \/ (op.kind = "store" /\ i = used_ptr')
        /\ ~(Retires(op, complete) /\ i = retire_ptr')
  BY PointersMove
<1> QED
  BY <1>2, <1>3, <1>4, <1>5, <1>6, <1>7

(* The store of this edge is what its address shows.                       *)
LEMMA StoreSeen ==
  ASSUME BufferInv, NEW op \in Operations, NEW complete \in BOOLEAN,
         Ordinary(op, complete), SbClock(op, complete), op.kind = "store"
  PROVE  Seen(op.addr)' = op.word
<1>1. PointersOK' /\ address \in [Slots -> Addr] /\ data \in [Slots -> Word]
  BY PointersMove DEF BufferInv, SbTypeOK
<1>2. PICK u \in Slots : u = used_ptr'
  BY <1>1 DEF PointersOK
<1>3. Waits(u)' /\ Distance(u)' = Distance(used_ptr)'
  BY <1>2, PointersMove DEF Waits, Distance
<1>4. address'[u] = op.addr /\ data'[u] = op.word
  BY <1>1, <1>2 DEF SbClock
<1>5. u \in Pending(op.addr)'
  BY <1>3, <1>4 DEF Pending, Waits
<1>6. \A j \in Pending(op.addr)' : Distance(j)' <= Distance(u)'
  BY <1>3, PointersMove DEF Pending, Waits
<1>7. (PointersOK => YoungestUnique)'
  BY YoungestIsUnique, PTL
<1>8. IsYoungestStore(u, op.addr)'
  BY <1>5, <1>6 DEF IsYoungestStore
<1>9. op.addr \in Addr
  BY OperationIs
<1>10. YoungestPending(op.addr)' = u
  BY <1>1, <1>7, <1>8, <1>9 DEF YoungestUnique
<1> QED
  BY <1>4, <1>5, <1>10 DEF Seen

(* Every other address shows what it showed, although its youngest store   *)
(* may leave the buffer on this edge, or reach the RAM.                    *)
LEMMA SeenStays ==
  ASSUME BufferInv, NEW op \in Operations, NEW complete \in BOOLEAN,
         Ordinary(op, complete), MemClock(op, complete), NEW a \in Addr,
         ~(op.kind = "store" /\ op.addr = a)
  PROVE  Seen(a)' = Seen(a)
<1> DEFINE retires == Retires(op, complete)
<1>1. SbClock(op, complete)
  BY DEF MemClock
<1>2. /\ PointersOK /\ PointersOK'
      /\ retire_ptr \in Slots /\ retire_ptr' \in Slots
  BY <1>1, InvPointers, PointersMove DEF PointersOK
<1>3. /\ Pending(a)' = {i \in Pending(a) : ~(retires /\ i = retire_ptr')}
      /\ \A i \in Pending(a) : data'[i] = data[i] /\ address'[i] = a
      /\ retires => (address'[retire_ptr'] = a <=> retire_ptr' \in Pending(a))
  BY <1>1, PendingMoves
<1>4. mem_we' = retires
  BY <1>1 DEF SbClock
<1>5. CASE Pending(a)' # {}
  <2>1. Pending(a) # {}
    BY <1>3, <1>5
  <2>2. PICK y \in Slots : y = YoungestPending(a)
    BY <1>2, <2>1, YoungestIs DEF Pending
  <2>3. /\ y \in Pending(a)
        /\ \A j \in Pending(a) : Distance(j) <= Distance(y)
    BY <1>2, <2>1, <2>2, YoungestIs
  <2>4. \A j \in Pending(a) : j \in Slots /\ Distance(j) \in Slots /\ Distance(j) >= 1
    BY <1>2, DistanceIs DEF Pending, Slots
  <2>5. ~(retires /\ y = retire_ptr')
    <3> SUFFICES ASSUME retires, y = retire_ptr' PROVE FALSE
      OBVIOUS
    <3>1. Distance(y) = 1
      BY <1>1, PointersMove
    <3>2. PICK j \in Pending(a) : j # y
      BY <1>3, <1>5
    <3>3. Distance(j) = Distance(y)
      BY <2>3, <2>4, <3>1, <3>2 DEF Slots
    <3> QED
      BY <1>2, <2>3, <2>4, <3>2, <3>3, DistanceIs
  <2>6. y \in Pending(a)'
    BY <1>3, <2>3, <2>5
  <2>7. ASSUME NEW j \in Pending(a)' PROVE Distance(j)' <= Distance(y)'
    <3>1. j \in Pending(a) /\ j \in Slots
      BY <1>3, <2>4
    <3>2. Waits(j)' /\ Waits(y)'
      BY <2>6 DEF Pending, Waits
    <3>3. /\ Distance(j)' = Distance(j) - (IF retires THEN 1 ELSE 0)
          /\ Distance(y)' = Distance(y) - (IF retires THEN 1 ELSE 0)
      BY <1>1, <3>1, <3>2, PointersMove
    <3>4. Distance(j) \in Int /\ Distance(y) \in Int /\ Distance(j) <= Distance(y)
      BY <2>3, <2>4, <3>1 DEF Slots
    <3> QED
      BY <3>3, <3>4
  <2>8. IsYoungestStore(y, a)'
    BY <2>6, <2>7 DEF IsYoungestStore
  <2>9. (PointersOK => YoungestUnique)'
    BY YoungestIsUnique, PTL
  <2>10. YoungestPending(a)' = y
    BY <1>2, <2>8, <2>9 DEF YoungestUnique
  <2> QED
    BY <1>3, <1>5, <2>1, <2>2, <2>3, <2>10 DEF Seen
<1>6. CASE Pending(a)' = {} /\ Pending(a) # {}
  <2>1. PICK y \in Pending(a) : y = YoungestPending(a)
    BY <1>2, <1>6, YoungestIs
  <2>2. retires /\ y = retire_ptr'
    BY <1>3, <1>6, <2>1
  <2>3. mem_we' /\ address'[retire_ptr'] = a /\ data'[retire_ptr'] = data[y]
    BY <1>3, <1>4, <2>1, <2>2
  <2> QED
    BY <1>6, <2>1, <2>3 DEF Seen
<1>7. CASE Pending(a)' = {} /\ Pending(a) = {}
  <2>1. ~(mem_we' /\ address'[retire_ptr'] = a)
    BY <1>3, <1>4, <1>7
  <2>2. memory'[a] = IF mem_we /\ address[retire_ptr] = a
                     THEN data[retire_ptr] ELSE memory[a]
    BY DEF MemClock, BufferInv
  <2> QED
    BY <1>7, <2>1, <2>2 DEF Seen
<1> QED
  BY <1>5, <1>6, <1>7

(* While the stores do not reach beyond the end of the buffer, the order   *)
(* of the entries is the order of the stores, and entry 0 is not in use.   *)
LEMMA LoadSees ==
  ASSUME BufferInv, NEW op \in Operations, NEW complete \in BOOLEAN,
         Ordinary(op, complete), Careful(op), MemClock(op, complete),
         op.kind = "load"
  PROVE  LoadData(read_data)' = Seen(op.addr)
<1> DEFINE a == op.addr
<1>1. SbClock(op, complete)
  BY DEF MemClock
<1>2. PointersOK /\ retire_ptr <= used_ptr /\ a \in Addr
  BY InvPointers, OperationIs DEF Careful
<1>3. \A i \in Slots :
        /\ Waits(i) <=> retire_ptr < i /\ i <= used_ptr
        /\ Waits(i) => Distance(i) = i - retire_ptr
  BY <1>2 DEF PointersOK, Waits, Distance, Slots
<1>4. Matches(a) = Pending(a)
  <2>1. \A i \in Slots : buffered[i] <=> Waits(i)
    BY DEF BufferInv
  <2>2. \A i \in Slots : Waits(i) => i # 0
    BY <1>2, <1>3 DEF PointersOK, Slots
  <2> QED
    BY <2>1, <2>2 DEF Matches, Pending, Waits
<1>5. data' = data
  BY <1>1 DEF SbClock
<1>6. CASE Pending(a) # {}
  <2>1. hit' /\ load_index' = Match(a)
    BY <1>1, <1>4, <1>6 DEF SbClock
  <2>2. PICK i \in Slots : i = Match(a)
    BY <1>4, <1>6, MatchIs DEF Matches
  <2>3. i \in Pending(a) /\ \A j \in Pending(a) : j <= i
    BY <1>4, <1>6, <2>2, MatchIs
  <2>4. \A j \in Pending(a) : Distance(j) = j - retire_ptr /\ j \in Slots
    BY <1>3 DEF Pending, Waits
  <2>5. \A j \in Pending(a) : Distance(j) <= Distance(i)
    BY <1>2, <2>3, <2>4 DEF PointersOK, Slots
  <2>6. YoungestPending(a) = i
    BY <1>2, <2>3, <2>5, YoungestIsUnique DEF IsYoungestStore, YoungestUnique
  <2> QED
    BY <1>5, <1>6, <2>1, <2>2, <2>6 DEF Seen, LoadData
<1>7. CASE Pending(a) = {}
  <2>1. ~hit'
    BY <1>1, <1>4, <1>7 DEF SbClock
  <2>2. read_data' = memory[a]
    BY DEF MemClock, MemoryRead, Careful
  <2> QED
    BY <1>7, <2>1, <2>2 DEF Seen, LoadData, Careful
<1> QED
  BY <1>6, <1>7

-----------------------------------------------------------------------------
(* Every edge is a step of the memory without a buffer.                    *)
LEMMA ClockRefines ==
  ASSUME BufferInv, NEW op \in Operations, NEW complete \in BOOLEAN,
         Ordinary(op, complete), Careful(op), MemClock(op, complete)
  PROVE  Flat!Next
<1> DEFINE seen == [a \in Addr |-> Seen(a)]
<1>1. SbClock(op, complete) /\ last' = op
  BY DEF MemClock
<1>2. CASE op.kind = "none"
  <2>1. seen' = seen
    BY <1>2, SeenStays
  <2> QED
    BY <1>1, <1>2, <2>1, OperationIs DEF Flat!Next, Flat!Pause, Idle
<1>3. CASE op.kind = "load"
  <2>1. seen' = seen
    BY <1>3, SeenStays
  <2>2. LoadData(read_data)' = Seen(op.addr)
    BY <1>3, LoadSees
  <2>3. op.addr \in Addr /\ op = [kind |-> "load", addr |-> op.addr]
    BY <1>3, OperationIs
  <2>4. Flat!Load(op.addr)
    BY <1>1, <1>3, <2>1, <2>2, <2>3 DEF Flat!Load
  <2> QED
    BY <2>3, <2>4 DEF Flat!Next
<1>4. CASE op.kind = "store"
  <2>1. /\ op.addr \in Addr /\ op.word \in Word
        /\ op = [kind |-> "store", addr |-> op.addr, word |-> op.word]
    BY <1>4, OperationIs
  <2>2. seen' = [seen EXCEPT ![op.addr] = op.word]
    <3>1. Seen(op.addr)' = op.word
      BY <1>1, <1>4, StoreSeen
    <3>2. \A a \in Addr : a # op.addr => Seen(a)' = Seen(a)
      BY SeenStays
    <3> QED
      BY <2>1, <3>1, <3>2
  <2>3. Flat!Store(op.addr, op.word)
    BY <1>1, <1>4, <2>1, <2>2 DEF Flat!Store
  <2> QED
    BY <2>1, <2>3 DEF Flat!Next
<1> QED
  BY <1>2, <1>3, <1>4, OperationIs

(* An empty buffer over a memory of zeros is the memory of zeros.          *)
LEMMA InitRefines == MemInit => Flat!Init
<1> SUFFICES ASSUME MemInit PROVE Flat!Init
  OBVIOUS
<1>1. Distance(used_ptr) = 0
  BY DEF MemInit, SbInit, Distance
<1>2. \A a \in Addr : Pending(a) = {}
  BY <1>1 DEF Pending
<1>3. \A a \in Addr : Seen(a) = 0
  BY <1>2 DEF Seen, MemInit, SbInit
<1> QED
  BY <1>3 DEF Flat!Init, MemInit, Idle

(* Buffer and RAM are a plain memory to a program whose loads keep clear   *)
(* of the end of the buffer and of a write to their own address.           *)
THEOREM MemoryIsFlat == MemSpec => ImplementsFlatMemory
<1> DEFINE seen == [a \in Addr |-> Seen(a)]
           reply == IF last.kind = "load" THEN LoadData(read_data) ELSE 0
<1>1. BufferInv /\ [MemNext]_memVars => [Flat!Next]_<<seen, last, reply>>
  <2> SUFFICES ASSUME BufferInv, [MemNext]_memVars
               PROVE  [Flat!Next]_<<seen, last, reply>>
    OBVIOUS
  <2>1. CASE MemNext
    BY <2>1, ClockRefines DEF MemNext
  <2>2. CASE UNCHANGED memVars
    BY <2>2 DEF memVars, sbVars, Seen, Pending, YoungestPending, Distance,
                LoadData
  <2> QED
    BY <2>1, <2>2
<1>2. MemSpec => []BufferInv
  BY MemSpecIsWrapSpec, WrapSpecInv, PTL
<1> QED
  BY <1>1, <1>2, InitRefines, PTL
  DEF MemSpec, ImplementsFlatMemory, Flat!Spec

-----------------------------------------------------------------------------
HIDE StoreBufferAssumption

(* The reservation station of the memory accesses.  Age(e) counts the      *)
(* entries written after e; Place(k) is the entry of age k - 1.            *)
Age(e) == (alloc_ptr - 1 - e) % NumMem

Place(k) == (alloc_ptr - k) % NumMem

(* The first entries of a ring that ends at the allocation pointer.        *)
Ring(c) ==
  /\ c \in 0..NumMem
  /\ \A e \in MemEntries : mem_busy[e] <=> Age(e) < c

StationInv ==
  /\ MemRsTypeOK
  /\ next_tag \in Tags
  /\ Ring(Cardinality(Ones))

(* Ages and places: each entry has one age, the next entry of the ring is  *)
(* one younger, and the two functions are inverse to each other.           *)
LEMMA AgeIs ==
  ASSUME alloc_ptr \in MemEntries
  PROVE  /\ \A e \in MemEntries : Age(e) \in MemEntries
         /\ \A e, f \in MemEntries : Age(e) = Age(f) => e = f
         /\ \A e \in MemEntries, d \in MemEntries :
              d = (e + 1) % NumMem /\ Age(e) # 0 => Age(d) = Age(e) - 1
         /\ \A k \in 1..NumMem : Place(k) \in MemEntries /\ Age(Place(k)) = k - 1
         /\ \A e \in MemEntries : (e - alloc_ptr) % NumMem = NumMem - 1 - Age(e)
         /\ \A e \in MemEntries : Age(e) + 1 \in 1..NumMem /\ Place(Age(e) + 1) = e
<1> USE NumMemAssumption DEF Age, Place, MemEntries
<1>1. \A e \in MemEntries : Age(e) \in MemEntries
  OBVIOUS
<1>2. \A e, f \in MemEntries : Age(e) = Age(f) => e = f
  OBVIOUS
<1>3. \A e \in MemEntries, d \in MemEntries :
              d = (e + 1) % NumMem /\ Age(e) # 0 => Age(d) = Age(e) - 1
  OBVIOUS
<1>4. \A k \in 1..NumMem : Place(k) \in MemEntries /\ Age(Place(k)) = k - 1
  OBVIOUS
<1>5. \A e \in MemEntries : (e - alloc_ptr) % NumMem = NumMem - 1 - Age(e)
  OBVIOUS
<1>6. \A e \in MemEntries : Age(e) + 1 \in 1..NumMem /\ Place(Age(e) + 1) = e
  OBVIOUS
<1> QED
  BY <1>1, <1>2, <1>3, <1>4, <1>5, <1>6

(* As many entries are busy as the ring has.                               *)
LEMMA RingCounts ==
  ASSUME alloc_ptr \in MemEntries, NEW c, Ring(c)
  PROVE  Cardinality(Ones) = c
<1> DEFINE f == [k \in 1..c |-> Place(k)]
<1>1. c \in Nat /\ c <= NumMem /\ 1..c \subseteq 1..NumMem
  BY NumMemAssumption DEF Ring
<1>2. ASSUME NEW k \in 1..c PROVE f[k] \in Ones /\ Age(f[k]) = k - 1
  <2>1. k \in 1..NumMem
    BY <1>1
  <2>2. Place(k) \in MemEntries /\ Age(Place(k)) = k - 1
    BY <2>1, AgeIs
  <2>3. mem_busy[Place(k)]
    BY <1>1, <2>2 DEF Ring
  <2> QED
    BY <2>2, <2>3 DEF Ones
<1>3. ASSUME NEW k \in 1..c, NEW l \in 1..c, f[k] = f[l] PROVE k = l
  <2>1. k - 1 = l - 1
    BY <1>2, <1>3
  <2> QED
    BY <1>1, <2>1
<1>4. ASSUME NEW e \in Ones PROVE \E k \in 1..c : f[k] = e
  <2>1. e \in MemEntries /\ Age(e) < c
    BY DEF Ones, Ring
  <2>2. Age(e) \in MemEntries /\ Place(Age(e) + 1) = e
    BY <2>1, AgeIs
  <2>3. Age(e) + 1 \in 1..c
    BY <1>1, <2>1, <2>2 DEF MemEntries
  <2> QED
    BY <2>2, <2>3
<1>5. f \in Bijection(1..c, Ones)
  <2>1. f \in [1..c -> Ones]
    BY <1>2
  <2> HIDE DEF f
  <2> QED
    BY <1>3, <1>4, <2>1, Fun_IsBij
<1>6. ExistsBijection(1..c, Ones)
  BY <1>5, Fun_ExistsBij
<1> QED
  BY <1>1, <1>6, FS_CountingElements

RingCounted == \A n \in 0..NumMem : Ring(n) => Cardinality(Ones) = n

(* The same as a state predicate, for the state after an edge.             *)
LEMMA RingIsCounted == alloc_ptr \in MemEntries => RingCounted
BY RingCounts DEF RingCounted

(* A set of entries has a greatest and a least one.                        *)
LEMMA GreatestMemEntry ==
  ASSUME NEW S \in SUBSET MemEntries, S # {}
  PROVE  Max(S) \in S /\ \A e \in S : e <= Max(S)
<1>1. S \in SUBSET Nat /\ \A x \in S : x <= NumMem
  BY NumMemAssumption DEF MemEntries
<1>2. \E x \in S : \A y \in S : y <= x
  BY <1>1, NumMemAssumption, GreatestExists
<1>3. \E x \in S : \A y \in S : x >= y
  BY <1>1, <1>2
<1> QED
  BY <1>1, <1>3 DEF Max

(* The least one.                                                          *)
LEMMA LeastMemEntry ==
  ASSUME NEW S \in SUBSET MemEntries, S # {}
  PROVE  Min(S) \in S /\ \A e \in S : Min(S) <= e
<1> DEFINE T == {NumMem - e : e \in S}
<1>1. T \in SUBSET Nat /\ T # {} /\ \A x \in T : x <= NumMem
  <2>1. \A e \in S : NumMem - e \in Nat /\ NumMem - e <= NumMem
    BY NumMemAssumption DEF MemEntries
  <2> QED
    BY <2>1
<1>2. PICK x \in T : \A y \in T : y <= x
  <2> HIDE DEF T
  <2> QED
    BY <1>1, NumMemAssumption, GreatestExists
<1>3. PICK m \in S : x = NumMem - m
  OBVIOUS
<1>4. \A y \in S : m <= y
  <2> SUFFICES ASSUME NEW y \in S PROVE m <= y
    OBVIOUS
  <2>1. NumMem - y <= NumMem - m
    BY <1>2, <1>3
  <2> QED
    BY <2>1, NumMemAssumption DEF MemEntries
<1> QED
  BY <1>4 DEF Min

(* The pointer worked out from the busy bits is the oldest entry.          *)
LEMMA IssuePtrIsOldest ==
  ASSUME alloc_ptr \in MemEntries, NEW c, Ring(c), c # 0
  PROVE  IssuePtr = Place(c) /\ IssuePtr \in MemEntries /\ mem_busy[IssuePtr]
<1>1. c \in 1..NumMem
  BY NumMemAssumption DEF Ring
<1>2. Place(c) \in MemEntries /\ Age(Place(c)) = c - 1 /\ mem_busy[Place(c)]
  BY <1>1, AgeIs, NumMemAssumption DEF Ring
<1>3. /\ Ones \in SUBSET MemEntries /\ Zeros \in SUBSET MemEntries
      /\ \A e \in MemEntries : e \in Zeros <=> e \notin Ones
      /\ \A e \in MemEntries : e \in Ones <=> Age(e) < c
  BY DEF Ones, Zeros, Ring
<1>4. ASSUME NEW e \in MemEntries, NEW d \in MemEntries,
             d = (e + 1) % NumMem, e \in Zeros, d \in Ones
      PROVE  d = Place(c)
  <2>1. Age(e) \in MemEntries /\ Age(e) >= c /\ Age(d) < c /\ Age(d) \in MemEntries
    BY <1>1, <1>3, <1>4, AgeIs DEF MemEntries
  <2>2. Age(d) = Age(e) - 1
    BY <1>1, <1>4, <2>1, AgeIs DEF MemEntries
  <2>3. Age(d) = c - 1
    BY <1>1, <2>1, <2>2 DEF MemEntries
  <2> QED
    BY <1>2, <2>3, AgeIs
<1>5. Ones # {}
  BY <1>2, <1>3 DEF Ones
<1>6. CASE Zeros = {}
  <2>1. c = NumMem
    <3>1. Place(NumMem) \in MemEntries /\ Age(Place(NumMem)) = NumMem - 1
      BY AgeIs, NumMemAssumption
    <3>2. NumMem - 1 < c
      BY <1>3, <1>6, <3>1
    <3> QED
      BY <1>1, <3>2, NumMemAssumption
  <2>2. Place(NumMem) = alloc_ptr
    BY NumMemAssumption DEF Place, MemEntries
  <2> QED
    BY <1>2, <1>6, <2>1, <2>2 DEF IssuePtr
<1>7. CASE Zeros # {} /\ {0, NumMem - 1} \subseteq Ones
  <2>1. Max(Zeros) \in Zeros /\ \A e \in Zeros : e <= Max(Zeros)
    BY <1>3, <1>7, GreatestMemEntry
  <2>2. PICK z \in MemEntries : z = Max(Zeros)
    BY <1>3, <2>1
  <2>3. z # NumMem - 1
    BY <1>3, <1>7, <2>1, <2>2
  <2>4. (z + 1) % NumMem = z + 1 /\ z + 1 \in MemEntries
    BY <2>3, NumMemAssumption DEF MemEntries
  <2>5. z + 1 \in Ones
    <3>1. z + 1 \notin Zeros
      BY <2>1, <2>2 DEF MemEntries
    <3> QED
      BY <1>3, <2>4, <3>1
  <2>6. z + 1 = Place(c)
    BY <1>4, <2>1, <2>2, <2>4, <2>5
  <2> QED
    BY <1>2, <1>7, <2>2, <2>4, <2>6 DEF IssuePtr
<1>8. CASE Zeros # {} /\ ~({0, NumMem - 1} \subseteq Ones)
  <2>1. Min(Ones) \in Ones /\ \A e \in Ones : Min(Ones) <= e
    BY <1>3, <1>5, LeastMemEntry
  <2>2. PICK m \in MemEntries : m = Min(Ones)
    BY <1>3, <2>1
  <2>3. CASE m = 0
    <3>1. NumMem - 1 \in MemEntries /\ NumMem - 1 \in Zeros
      BY <1>3, <1>8, <2>1, <2>2, <2>3, NumMemAssumption DEF MemEntries
    <3>2. m = (NumMem - 1 + 1) % NumMem
      BY <2>3, NumMemAssumption
    <3> QED
      BY <1>2, <1>4, <1>5, <1>8, <2>1, <2>2, <3>1, <3>2 DEF IssuePtr
  <2>4. CASE m # 0
    <3>1. m - 1 \in MemEntries /\ m = (m - 1 + 1) % NumMem
      BY <2>4, NumMemAssumption DEF MemEntries
    <3>2. m - 1 \in Zeros
      <4>1. m - 1 \notin Ones
        BY <2>1, <2>2 DEF MemEntries
      <4> QED
        BY <1>3, <3>1, <4>1
    <3> QED
      BY <1>2, <1>4, <1>5, <1>8, <2>1, <2>2, <3>1, <3>2 DEF IssuePtr
  <2> QED
    BY <2>3, <2>4
<1> QED
  BY <1>6, <1>7, <1>8

-----------------------------------------------------------------------------
(* Requests and buses.                                                     *)
Came(reqs, stall, beyond) ==
  IF MemAccepts(reqs, stall, beyond) THEN Len(reqs) ELSE 0

(* A batch has up to two requests, for the next tags.                      *)
LEMMA BatchIs ==
  ASSUME NEW reqs \in Batches
  PROVE  /\ Len(reqs) \in 0..2 /\ DOMAIN reqs = 1..Len(reqs)
         /\ \A k \in 1..Len(reqs) :
              /\ k \in {1, 2}
              /\ reqs[k] \in Accesses(IF k = 1 THEN next_tag
                                      ELSE After(next_tag, 1))
<1>1. CASE reqs = <<>>
  BY <1>1
<1>2. CASE \E a \in Accesses(next_tag) : reqs = <<a>>
  <2>1. PICK a \in Accesses(next_tag) : reqs = <<a>>
    BY <1>2
  <2>2. Len(reqs) = 1 /\ DOMAIN reqs = 1..1 /\ reqs[1] = a
    BY <2>1
  <2> QED
    BY <2>2
<1>3. CASE \E a \in Accesses(next_tag), b \in Accesses(After(next_tag, 1)) :
             reqs = <<a, b>>
  <2>1. PICK a \in Accesses(next_tag), b \in Accesses(After(next_tag, 1)) :
             reqs = <<a, b>>
    BY <1>3
  <2>2. Len(reqs) = 2 /\ DOMAIN reqs = 1..2 /\ reqs[1] = a /\ reqs[2] = b
    BY <2>1
  <2> QED
    BY <2>2
<1> QED
  BY <1>1, <1>2, <1>3 DEF Batches

(* An instruction is accepted only into entries beyond the ring.           *)
LEMMA CameFits ==
  ASSUME StationInv, NEW reqs \in Batches, NEW stall \in BOOLEAN,
         NEW beyond \in Beyond, NoPairAcrossEnd(reqs)
  PROVE  LET c == Cardinality(Ones)
             m == Came(reqs, stall, beyond)
         IN  c \in 0..NumMem /\ m \in 0..2 /\ c + m <= NumMem
<1> DEFINE c == Cardinality(Ones)
           m == Came(reqs, stall, beyond)
<1>1. Ring(c) /\ alloc_ptr \in MemEntries /\ c \in 0..NumMem
  BY DEF StationInv, MemRsTypeOK, Ring
<1>2. m \in 0..2
  BY BatchIs DEF Came
<1> HIDE DEF c
<1>3. ASSUME m # 0 PROVE c <= NumMem - 1
  <2>1. MemAccepts(reqs, stall, beyond) /\ Len(reqs) # 0
    BY <1>3 DEF Came
  <2>2. ~mem_busy[alloc_ptr]
    BY <2>1 DEF MemAccepts, MemAllocatable
  <2>3. Age(alloc_ptr) = NumMem - 1
    BY <1>1, NumMemAssumption DEF Age, MemEntries
  <2> QED
    BY <1>1, <2>2, <2>3, NumMemAssumption DEF Ring
<1>4. ASSUME m = 2 PROVE c <= NumMem - 2
  <2>1. MemAccepts(reqs, stall, beyond) /\ Len(reqs) = 2
    BY <1>4 DEF Came
  <2>2. ~(IF alloc_ptr = NumMem - 1 THEN beyond ELSE mem_busy[alloc_ptr + 1])
    BY <2>1 DEF MemAccepts, MemAllocatable
  <2>3. PICK d \in MemEntries : d = (alloc_ptr + 1) % NumMem
    BY <1>1, NumMemAssumption DEF MemEntries
  <2>4. ~mem_busy[d]
    BY <1>1, <2>1, <2>2, <2>3, NumMemAssumption DEF NoPairAcrossEnd, MemEntries
  <2>5. Age(d) = NumMem - 2
    BY <1>1, <2>3, NumMemAssumption DEF Age, MemEntries
  <2> QED
    BY <1>1, <2>3, <2>4, <2>5, NumMemAssumption DEF Ring
<1> QED
  BY <1>1, <1>2, <1>3, <1>4, NumMemAssumption DEF c

(* Ages after an edge: those of the entries just written start again.      *)
LEMMA AgesMove ==
  ASSUME alloc_ptr \in MemEntries, NEW m \in 0..2,
         alloc_ptr' = (alloc_ptr + m) % NumMem
  PROVE  /\ alloc_ptr' \in MemEntries
         /\ \A e \in MemEntries :
              Age(e)' = IF Age(e) + m < NumMem THEN Age(e) + m
                        ELSE Age(e) + m - NumMem
         /\ \A k \in 1..NumMem : k > m => Place(k)' = Place(k - m)
         /\ \A k \in 1..m :
              Place(m + 1 - k)' = (alloc_ptr + k - 1) % NumMem
<1> USE NumMemAssumption DEF MemEntries
<1>1. alloc_ptr' \in MemEntries
  OBVIOUS
<1>2. alloc_ptr' = IF alloc_ptr + m < NumMem THEN alloc_ptr + m
                   ELSE alloc_ptr + m - NumMem
  OBVIOUS
<1>3. \A e \in MemEntries :
              Age(e)' = IF Age(e) + m < NumMem THEN Age(e) + m
                        ELSE Age(e) + m - NumMem
  BY <1>1, <1>2 DEF Age
<1>4. \A k \in 1..NumMem : k > m => Place(k)' = Place(k - m)
  BY <1>1, <1>2 DEF Place
<1>5. \A k \in 1..m : Place(m + 1 - k)' = (alloc_ptr + k - 1) % NumMem
  BY <1>1, <1>2 DEF Place
<1> QED
  BY <1>1, <1>3, <1>4, <1>5

(* What an edge does to the ring: the requests follow at its end, and the  *)
(* oldest entry leaves when it issues.                                     *)
LEMMA RingMoves ==
  ASSUME StationInv, NEW reqs \in Batches, NEW stall \in BOOLEAN,
         NEW beyond \in Beyond, NEW buses,
         MemRsStep(reqs, stall, beyond, buses)
  PROVE  LET c == Cardinality(Ones)
             m == Came(reqs, stall, beyond)
             i == IF MemIssue THEN 1 ELSE 0
         IN  /\ alloc_ptr' = (alloc_ptr + m) % NumMem
             /\ alloc_ptr' \in MemEntries
             /\ MemIssue => c # 0
             /\ \A e \in MemEntries :
                  MemWritten(e, reqs, stall, beyond) <=> Age(e) + m >= NumMem
             /\ \E n \in 0..NumMem :
                  n = c + m - i /\ Cardinality(Ones)' = n /\ Ring(n)'
<1> DEFINE c == Cardinality(Ones)
           m == Came(reqs, stall, beyond)
           i == IF MemIssue THEN 1 ELSE 0
<1>1. Ring(c) /\ alloc_ptr \in MemEntries /\ mem_busy \in [MemEntries -> BOOLEAN]
  BY DEF StationInv, MemRsTypeOK
<1>2. c \in 0..NumMem /\ m \in 0..2 /\ c + m <= NumMem
  BY CameFits DEF MemRsStep
<1>3. alloc_ptr' = (alloc_ptr + m) % NumMem
  <2>1. alloc_ptr = alloc_ptr % NumMem /\ alloc_ptr = alloc_ptr + 0
    BY <1>1, NumMemAssumption DEF MemEntries
  <2>2. alloc_ptr' = IF MemAccepts(reqs, stall, beyond)
                     THEN (alloc_ptr + Len(reqs)) % NumMem ELSE alloc_ptr
    BY DEF MemRsStep, MemRsClock
  <2> QED
    BY <2>1, <2>2 DEF Came
<1> HIDE DEF c
<1>4. c = 0 => ~MemIssue
  <2> SUFFICES ASSUME c = 0 PROVE ~mem_busy[IssuePtr]
    BY DEF MemIssue
  <2>1. \A e \in MemEntries : ~mem_busy[e]
    BY <1>1, AgeIs DEF Ring, MemEntries
  <2>2. IssuePtr = 0 /\ 0 \in MemEntries
    BY <2>1, NumMemAssumption DEF IssuePtr, Ones, Zeros, MemEntries
  <2> QED
    BY <2>1, <2>2
<1>5. \A e \in MemEntries :
        MemWritten(e, reqs, stall, beyond) <=> Age(e) + m >= NumMem
  <2> SUFFICES ASSUME NEW e \in MemEntries
               PROVE  MemWritten(e, reqs, stall, beyond) <=> Age(e) + m >= NumMem
    OBVIOUS
  <2>1. Age(e) \in MemEntries /\ (e - alloc_ptr) % NumMem = NumMem - 1 - Age(e)
    BY <1>1, AgeIs
  <2>3. MemPort(e) = NumMem - Age(e)
    BY <2>1, NumMemAssumption DEF MemPort, MemEntries
  <2>2. DOMAIN reqs = 1..Len(reqs) /\ Len(reqs) \in 0..2
    BY BatchIs
  <2> QED
    BY <2>1, <2>2, <2>3, NumMemAssumption DEF MemWritten, Came, MemEntries
<1>6. \A e \in MemEntries :
        mem_busy'[e] <=> /\ Age(e) + m >= NumMem \/ Age(e) < c
                         /\ ~(MemIssue /\ Age(e) = c - 1)
  <2> SUFFICES ASSUME NEW e \in MemEntries
      PROVE  mem_busy'[e] <=> /\ Age(e) + m >= NumMem \/ Age(e) < c
                              /\ ~(MemIssue /\ Age(e) = c - 1)
    OBVIOUS
  <2>1. mem_busy'[e] <=> /\ MemWritten(e, reqs, stall, beyond) \/ mem_busy[e]
                         /\ ~(MemIssue /\ e = IssuePtr)
    BY <1>1 DEF MemRsStep, MemRsClock
  <2>2. mem_busy[e] <=> Age(e) < c
    BY <1>1 DEF Ring
  <2>3. MemIssue => (e = IssuePtr <=> Age(e) = c - 1)
    <3> SUFFICES ASSUME MemIssue PROVE e = IssuePtr <=> Age(e) = c - 1
      OBVIOUS
    <3>1. IssuePtr = Place(c) /\ c \in 1..NumMem
      BY <1>1, <1>2, <1>4, IssuePtrIsOldest, NumMemAssumption
    <3>2. Place(c) \in MemEntries /\ Age(Place(c)) = c - 1
      BY <1>1, <3>1, AgeIs
    <3> QED
      BY <1>1, <3>1, <3>2, AgeIs
  <2> QED
    BY <1>5, <2>1, <2>2, <2>3
<1>7. PICK j \in 0..2 : j = m
  BY <1>2
<1>8. /\ alloc_ptr' \in MemEntries
      /\ \A e \in MemEntries :
           Age(e)' = IF Age(e) + m < NumMem THEN Age(e) + m
                     ELSE Age(e) + m - NumMem
  <2>1. alloc_ptr' = (alloc_ptr + j) % NumMem
    BY <1>3, <1>7
  <2> QED
    BY <1>1, <1>7, <2>1, AgesMove
<1>9. PICK n \in 0..NumMem : n = c + m - i
  BY <1>2, <1>4, NumMemAssumption
<1>10. Ring(n)'
  <2>1. ASSUME NEW e \in MemEntries PROVE mem_busy'[e] <=> Age(e)' < n
    <3>1. Age(e) \in MemEntries
      BY <1>1, AgeIs
    <3>2. Age(e)' = IF Age(e) + m < NumMem THEN Age(e) + m
                    ELSE Age(e) + m - NumMem
      BY <1>8
    <3> HIDE DEF m
    <3> QED
      BY <1>2, <1>4, <1>6, <1>9, <3>1, <3>2, NumMemAssumption DEF MemEntries
  <2> QED
    BY <2>1 DEF Ring
<1>11. Cardinality(Ones)' = n
  <2>1. (alloc_ptr \in MemEntries => RingCounted)'
    BY RingIsCounted, PTL
  <2> QED
    BY <1>8, <1>10, <2>1 DEF RingCounted
<1> QED
  BY <1>3, <1>4, <1>5, <1>8, <1>9, <1>10, <1>11 DEF c

-----------------------------------------------------------------------------
(* The content of an entry, and what the results of an edge do to it.      *)
Access == [tag: TagIndex, ctl: Control, op1: Operand, valid1: BOOLEAN,
           op2: Operand, valid2: BOOLEAN]

(* The tags that follow are tags.                                          *)
LEMMA AfterIs ==
  ASSUME next_tag \in Tags
  PROVE  /\ \A n \in 0..2 : After(next_tag, n) \in Tags
         /\ After(next_tag, 0) = next_tag
BY NumTagsAssumption DEF After, Tags

(* The requests bring consecutive tags.                                    *)
LEMMA RequestIs ==
  ASSUME next_tag \in Tags, NEW reqs \in Batches, NEW k \in 1..Len(reqs)
  PROVE  reqs[k] \in Access /\ reqs[k].tag = After(next_tag, k - 1)
<1>1. ASSUME NEW t \in Tags, NEW a \in Accesses(t)
      PROVE  a \in Access /\ a.tag = t
  <2>1. /\ Bubble \in Control
        /\ t \in TagIndex /\ NumTags \in Operand /\ 0 \in Operand
    BY NumTagsAssumption, NumRegsAssumption, DataAssumption, FnAssumption
    DEF Tags, TagIndex, Operand, Bubble, Control, Regs
  <2>2. /\ Waiting(t, NumTags) \in Access /\ Waiting(t, NumTags).tag = t
        /\ WaitingData(t, NumTags) \in Access /\ WaitingData(t, NumTags).tag = t
        /\ Complete(t) \in Access /\ Complete(t).tag = t
    BY <2>1 DEF Waiting, WaitingData, Complete, Access
  <2> QED
    BY <1>1, <2>2 DEF Accesses
<1>2. reqs[k] \in Accesses(IF k = 1 THEN next_tag ELSE After(next_tag, 1))
  BY BatchIs
<1>3. k \in {1, 2}
  BY BatchIs
<1>4. After(next_tag, k - 1) = IF k = 1 THEN next_tag ELSE After(next_tag, 1)
  BY <1>3, AfterIs
<1>5. After(next_tag, 1) \in Tags
  BY AfterIs
<1> QED
  BY <1>1, <1>2, <1>4, <1>5

(* What an operand resolves to is an operand.                              *)
LEMMA ResolveIsOperand ==
  ASSUME NEW buses \in MemBuses, NEW op \in Operand, NEW ready \in BOOLEAN
  PROVE  Resolve(op, ready, buses) \in Operand
<1>1. /\ DOMAIN buses \subseteq {1, 2}
      /\ \A k \in DOMAIN buses : buses[k].result \in {0, 1}
  <2>1. CASE buses = <<IdleBus>>
    BY <2>1 DEF IdleBus
  <2>2. CASE buses = <<[result |-> 1, rrf_tag |-> NumTags], IdleBus>>
    BY <2>2 DEF IdleBus
  <2> QED
    BY <2>1, <2>2 DEF MemBuses
<1>2. {0, 1} \subseteq Operand
  BY NumTagsAssumption, DataAssumption DEF Operand, TagIndex
<1>3. ASSUME Carriers(op, buses) # {}
      PROVE  Min(Carriers(op, buses)) \in DOMAIN buses
  <2>1. Carriers(op, buses) \subseteq {1, 2}
    BY <1>1 DEF Carriers
  <2>2. \E x \in Carriers(op, buses) : \A y \in Carriers(op, buses) : x <= y
    BY <1>3, <2>1
  <2>3. Min(Carriers(op, buses)) \in Carriers(op, buses)
    BY <2>2 DEF Min
  <2> QED
    BY <2>3 DEF Carriers
<1> QED
  BY <1>1, <1>2, <1>3 DEF Resolve

(* A wakeup leaves the access in place, and an operand that has its        *)
(* value.                                                                  *)
LEMMA WakeupKeeps ==
  ASSUME NEW buses \in MemBuses, NEW a \in Access
  PROVE  Wakeup(a, buses) \in Access /\ MemoryOrder!Same(a, Wakeup(a, buses))
<1> DEFINE b == Wakeup(a, buses)
<1>1. /\ a.op1 \in Operand /\ a.valid1 \in BOOLEAN
      /\ a.op2 \in Operand /\ a.valid2 \in BOOLEAN
      /\ a.tag \in TagIndex /\ a.ctl \in Control
  BY DEF Access
<1>2. /\ Resolve(a.op1, a.valid1, buses) \in Operand
      /\ Resolve(a.op2, a.valid2, buses) \in Operand
      /\ Resolved(a.op1, a.valid1, buses) \in BOOLEAN
      /\ Resolved(a.op2, a.valid2, buses) \in BOOLEAN
  BY <1>1, ResolveIsOperand DEF Resolved
<1>3. b \in Access
  BY <1>2 DEF Wakeup, Access
<1>4. /\ b.tag = a.tag /\ b.ctl = a.ctl
      /\ b.op1 = Resolve(a.op1, a.valid1, buses)
      /\ b.valid1 = Resolved(a.op1, a.valid1, buses)
      /\ b.op2 = Resolve(a.op2, a.valid2, buses)
      /\ b.valid2 = Resolved(a.op2, a.valid2, buses)
  BY DEF Wakeup, Access
<1>5. ASSUME NEW op \in Operand, NEW ready \in BOOLEAN
      PROVE  MemoryOrder!Keeps(ready, op, Resolved(op, ready, buses),
                               Resolve(op, ready, buses))
  BY <1>5 DEF MemoryOrder!Keeps, Resolved, Resolve
<1>6. MemoryOrder!Same(a, b)
  BY <1>1, <1>4, <1>5 DEF MemoryOrder!Same
<1> QED
  BY <1>3, <1>6

-----------------------------------------------------------------------------
(* The invariant holds.                                                    *)
LEMMA InitStation == MemDispatchInit => StationInv
<1> SUFFICES ASSUME MemDispatchInit PROVE StationInv
  OBVIOUS
<1>1. Bubble \in Control /\ 0 \in Operand /\ 0 \in TagIndex
  BY NumTagsAssumption, NumRegsAssumption, DataAssumption, FnAssumption
  DEF TagIndex, Operand, Bubble, Control, Regs
<1>2. MemRsTypeOK /\ alloc_ptr \in MemEntries
  BY <1>1, NumMemAssumption
  DEF MemDispatchInit, MemRsInit, MemRsTypeOK, MemEntries
<1>3. Ring(0)
  <2>1. ASSUME NEW e \in MemEntries PROVE ~mem_busy[e] /\ ~(Age(e) < 0)
    <3>1. Age(e) \in MemEntries
      BY <1>2, AgeIs
    <3> QED
      BY <3>1 DEF MemDispatchInit, MemRsInit, MemEntries
  <2> QED
    BY <2>1, NumMemAssumption DEF Ring
<1>4. Ring(Cardinality(Ones))
  BY <1>2, <1>3, RingCounts
<1>5. next_tag \in Tags
  BY NumTagsAssumption DEF MemDispatchInit, Tags
<1> QED
  BY <1>2, <1>4, <1>5 DEF StationInv

(* An edge keeps the invariant of the station.                             *)
LEMMA StepStation ==
  ASSUME StationInv, NEW reqs \in Batches, NEW stall \in BOOLEAN,
         NEW beyond \in Beyond, NEW buses \in MemBuses,
         MemRsStep(reqs, stall, beyond, buses)
  PROVE  StationInv'
<1>1. /\ mem_entry \in [MemEntries -> Access]
      /\ mem_busy \in [MemEntries -> BOOLEAN]
      /\ alloc_ptr \in MemEntries
  BY DEF StationInv, MemRsTypeOK, Access
<1>2. mem_entry' \in [MemEntries -> Access]
  <2> SUFFICES ASSUME NEW e \in MemEntries
               PROVE  Wakeup(IF MemWritten(e, reqs, stall, beyond)
                             THEN reqs[MemPort(e)] ELSE mem_entry[e], buses)
                        \in Access
    BY DEF MemRsStep, MemRsClock
  <2>1. MemWritten(e, reqs, stall, beyond) => reqs[MemPort(e)] \in Access
    BY BatchIs, RequestIs DEF MemWritten, StationInv
  <2>2. mem_entry[e] \in Access
    BY <1>1
  <2> QED
    BY <2>1, <2>2, WakeupKeeps
<1>3. mem_busy' \in [MemEntries -> BOOLEAN]
  BY <1>1 DEF MemRsStep, MemRsClock
<1>4. alloc_ptr' \in MemEntries /\ Ring(Cardinality(Ones))'
  <2>1. PICK n \in 0..NumMem : Cardinality(Ones)' = n /\ Ring(n)'
    BY RingMoves
  <2>2. Ring(Cardinality(Ones))'
    BY <2>1 DEF Ring
  <2> QED
    BY <2>2, RingMoves
<1>5. next_tag' \in Tags
  <2>1. Len(reqs) \in 0..2
    BY BatchIs
  <2> QED
    BY <2>1, AfterIs DEF MemRsStep, StationInv
<1> QED
  BY <1>2, <1>3, <1>4, <1>5 DEF StationInv, MemRsTypeOK, Access

-----------------------------------------------------------------------------
(* The queue: its k-th access, counted from the oldest, is the entry of    *)
(* the k-th highest age.                                                   *)
HeldInPlaces ==
  LET c == Cardinality(Ones) IN
  /\ Held \in Seq(Access) /\ Len(Held) = c
  /\ \A k \in 1..c : Held[k] = mem_entry[Place(c + 1 - k)]

(* Held lists the ring from its oldest entry on.                           *)
LEMMA HeldIs == StationInv => HeldInPlaces
<1> SUFFICES ASSUME StationInv PROVE HeldInPlaces
  OBVIOUS
<1> DEFINE c == Cardinality(Ones)
<1>1. /\ mem_entry \in [MemEntries -> Access] /\ alloc_ptr \in MemEntries
      /\ Ring(c) /\ c \in 0..NumMem
  BY DEF StationInv, MemRsTypeOK, Access, Ring
<1> HIDE DEF c
<1>2. ASSUME NEW k \in 1..c
      PROVE  /\ (IssuePtr + k - 1) % NumMem = Place(c + 1 - k)
             /\ Place(c + 1 - k) \in MemEntries
  <2>1. c # 0 /\ IssuePtr = Place(c) /\ c \in 1..NumMem
    BY <1>1, <1>2, IssuePtrIsOldest, NumMemAssumption
  <2>2. (Place(c) + k - 1) % NumMem = Place(c + 1 - k)
    BY <1>1, <1>2, <2>1, NumMemAssumption DEF Place, MemEntries
  <2>3. c + 1 - k \in 1..NumMem
    BY <1>2, <2>1, NumMemAssumption
  <2> QED
    BY <1>1, <2>1, <2>2, <2>3, AgeIs
<1>3. Held = [k \in 1..c |-> mem_entry[(IssuePtr + k - 1) % NumMem]]
  BY DEF Held, c
<1>4. Held \in [1..c -> Access]
  BY <1>1, <1>2, <1>3
<1>5. c \in Nat
  BY <1>1, NumMemAssumption
<1>6. Held \in Seq(Access) /\ Len(Held) = c
  BY <1>4, <1>5
<1>7. \A k \in 1..c : Held[k] = mem_entry[Place(c + 1 - k)]
  BY <1>2, <1>3
<1> QED
  BY <1>6, <1>7 DEF HeldInPlaces, c

(* The front of the queue leaves exactly when the station issues.          *)
LEMMA LeftIs ==
  ASSUME StationInv
  PROVE  LET c == Cardinality(Ones)
             i == IF MemIssue THEN 1 ELSE 0
         IN  /\ Len(MemoryOrder!Left) = c - i
             /\ DOMAIN MemoryOrder!Left = 1..(c - i)
             /\ \A k \in 1..(c - i) :
                  MemoryOrder!Left[k] = mem_entry[Place(c + 1 - i - k)]
<1> DEFINE c == Cardinality(Ones)
           i == IF MemIssue THEN 1 ELSE 0
<1>1. /\ alloc_ptr \in MemEntries /\ Ring(c) /\ c \in 0..NumMem
  BY DEF StationInv, MemRsTypeOK, Ring
<1>2. /\ Held \in Seq(Access) /\ Len(Held) = c
      /\ \A k \in 1..c : Held[k] = mem_entry[Place(c + 1 - k)]
  BY HeldIs DEF HeldInPlaces
<1> HIDE DEF c
<1>3. CASE c = 0
  <2>1. \A e \in MemEntries : ~mem_busy[e]
    BY <1>1, <1>3, AgeIs DEF Ring, MemEntries
  <2>2. IssuePtr = 0 /\ 0 \in MemEntries
    BY <2>1, NumMemAssumption DEF IssuePtr, Ones, Zeros, MemEntries
  <2>3. ~MemIssue
    BY <2>1, <2>2 DEF MemIssue
  <2>4. Held = <<>>
    BY <1>2, <1>3
  <2>5. MemoryOrder!Left = <<>>
    BY <2>4 DEF MemoryOrder!Left
  <2>6. c - i = 0 /\ 1..(c - i) = {}
    <3>1. c - i = 0 - 0
      BY <1>3, <2>3
    <3> QED
      BY <3>1
  <2>7. Len(<<>>) = 0 /\ DOMAIN <<>> = {}
    OBVIOUS
  <2> HIDE DEF i
  <2>8. Len(MemoryOrder!Left) = c - i /\ DOMAIN MemoryOrder!Left = 1..(c - i)
    BY <2>5, <2>6, <2>7
  <2> QED
    BY <2>6, <2>8 DEF c, i
<1>4. CASE c # 0
  <2>1. c \in 1..NumMem /\ Held # <<>>
    BY <1>1, <1>2, <1>4, NumMemAssumption
  <2>2. IssuePtr = Place(c) /\ mem_busy[IssuePtr]
    BY <1>1, <1>4, IssuePtrIsOldest
  <2>3. Head(Held) = mem_entry[IssuePtr]
    <3>1. Head(Held) = Held[1] /\ 1 \in 1..c
      BY <1>2, <2>1, NumMemAssumption
    <3>2. Held[1] = mem_entry[Place(c + 1 - 1)]
      BY <1>2, <3>1
    <3>3. c + 1 - 1 = c
      BY <2>1, NumMemAssumption
    <3> QED
      BY <2>2, <3>1, <3>2, <3>3
  <2>4. MemoryOrder!IsReady(Head(Held)) <=> MemIssue
    BY <2>2, <2>3 DEF MemoryOrder!IsReady, MemIssue
  <2>5. CASE MemIssue
    <3>1. MemoryOrder!Left = Tail(Held)
      BY <2>1, <2>4, <2>5 DEF MemoryOrder!Left
    <3>2. /\ Len(Tail(Held)) = c - 1 /\ DOMAIN Tail(Held) = 1..(c - 1)
          /\ \A k \in 1..(c - 1) : Tail(Held)[k] = Held[k + 1]
      BY <1>2, <2>1, NumMemAssumption
    <3>3. ASSUME NEW k \in 1..(c - 1)
          PROVE  Held[k + 1] = mem_entry[Place(c + 1 - 1 - k)]
      <4>1. k + 1 \in 1..c /\ c + 1 - (k + 1) = c + 1 - 1 - k
        BY <2>1, NumMemAssumption
      <4> QED
        BY <1>2, <4>1
    <3> QED
      BY <2>5, <3>1, <3>2, <3>3 DEF c
  <2>6. CASE ~MemIssue
    <3>1. MemoryOrder!Left = Held
      BY <2>1, <2>4, <2>6 DEF MemoryOrder!Left
    <3>2. DOMAIN Held = 1..c
      BY <1>2
    <3>3. ASSUME NEW k \in 1..(c - 0)
          PROVE  Held[k] = mem_entry[Place(c + 1 - 0 - k)]
      <4>1. k \in 1..c /\ c + 1 - 0 - k = c + 1 - k
        BY <2>1, NumMemAssumption
      <4> QED
        BY <1>2, <4>1
    <3>4. c - 0 = c
      BY <2>1, NumMemAssumption
    <3> QED
      BY <1>2, <2>6, <3>1, <3>2, <3>3, <3>4 DEF c
  <2> QED
    BY <2>5, <2>6
<1> QED
  BY <1>3, <1>4

(* Every edge is a step of the queue.                                      *)
LEMMA StepIsQueueEdge ==
  ASSUME StationInv, NEW reqs \in Batches, NEW stall \in BOOLEAN,
         NEW beyond \in Beyond, NEW buses \in MemBuses,
         MemRsStep(reqs, stall, beyond, buses)
  PROVE  MemoryOrder!Edge
<1> DEFINE c == Cardinality(Ones)
           m == Came(reqs, stall, beyond)
           i == IF MemIssue THEN 1 ELSE 0
<1>1. /\ mem_entry \in [MemEntries -> Access] /\ alloc_ptr \in MemEntries
      /\ next_tag \in Tags
  BY DEF StationInv, MemRsTypeOK, Access
<1>2. c \in 0..NumMem /\ m \in 0..2 /\ c + m <= NumMem /\ (MemIssue => c # 0)
  BY CameFits, RingMoves DEF MemRsStep
<1>3. PICK old \in 0..NumMem, came \in 0..2, gone \in 0..1, n \in 0..NumMem :
        /\ old = c /\ came = m /\ gone = i
        /\ n = c + m - i /\ Cardinality(Ones)' = n
  BY <1>2, RingMoves
<1>4. /\ old + came <= NumMem /\ gone <= old
      /\ n = old + came - gone
  BY <1>2, <1>3
<1>5. /\ alloc_ptr' = (alloc_ptr + came) % NumMem
      /\ \A e \in MemEntries :
           MemWritten(e, reqs, stall, beyond) <=> Age(e) + came >= NumMem
  BY <1>3, RingMoves
<1>6. Len(Held') = n /\ \A k \in 1..n : Held'[k] = mem_entry'[Place(n + 1 - k)']
  <2>1. (StationInv => HeldInPlaces)'
    BY HeldIs, PTL
  <2>2. StationInv'
    BY StepStation
  <2> QED
    BY <1>3, <2>1, <2>2 DEF HeldInPlaces, Place
<1>7. /\ Len(MemoryOrder!Left) = old - gone
      /\ DOMAIN MemoryOrder!Left = 1..(old - gone)
      /\ \A k \in 1..(old - gone) :
           MemoryOrder!Left[k] = mem_entry[Place(old + 1 - gone - k)]
  BY <1>3, LeftIs
<1>8. /\ Len(reqs) \in 0..2
      /\ MemAccepts(reqs, stall, beyond) => came = Len(reqs)
      /\ ~MemAccepts(reqs, stall, beyond) => came = 0
  BY <1>3, BatchIs DEF Came
<1> HIDE DEF c, m, i
<1>9. ASSUME NEW k \in 1..(old - gone)
      PROVE  MemoryOrder!Same(MemoryOrder!Left[k], Held'[k])
  <2>1. PICK j \in 1..NumMem : j = old + 1 - gone - k
    BY <1>4, NumMemAssumption
  <2>2. Place(j) \in MemEntries /\ Age(Place(j)) = j - 1
    BY <1>1, AgeIs
  <2>3. ~MemWritten(Place(j), reqs, stall, beyond)
    BY <1>4, <1>5, <2>1, <2>2, NumMemAssumption
  <2>4. mem_entry'[Place(j)] = Wakeup(mem_entry[Place(j)], buses)
    BY <2>2, <2>3 DEF MemRsStep, MemRsClock
  <2>5. PICK l \in 1..NumMem : l = j + came /\ l = n + 1 - k
    BY <1>4, <2>1, NumMemAssumption
  <2>6. Place(l)' = Place(l - came) /\ l - came = j
    BY <1>1, <1>5, <2>1, <2>5, AgesMove, NumMemAssumption
  <2>7. Held'[k] = mem_entry'[Place(l)']
    BY <1>4, <1>6, <2>5, NumMemAssumption
  <2>8. MemoryOrder!Left[k] = mem_entry[Place(j)] /\ mem_entry[Place(j)] \in Access
    BY <1>1, <1>7, <2>1, <2>2
  <2> QED
    BY <2>4, <2>6, <2>7, <2>8, WakeupKeeps
<1>10. ASSUME NEW k \in 1..came
       PROVE  Held'[old - gone + k].tag = After(next_tag, k - 1)
  <2>1. MemAccepts(reqs, stall, beyond) /\ k \in 1..Len(reqs)
    BY <1>8
  <2>2. PICK e \in MemEntries : e = (alloc_ptr + k - 1) % NumMem
    BY <1>1, NumMemAssumption DEF MemEntries
  <2>3. MemPort(e) = k
    <3>1. k <= NumMem /\ k \in 1..2
      BY <1>4, NumMemAssumption
    <3> QED
      BY <1>1, <2>2, <3>1, NumMemAssumption DEF MemPort, MemEntries
  <2>4. MemWritten(e, reqs, stall, beyond)
    BY <2>1, <2>3, BatchIs DEF MemWritten
  <2>5. mem_entry'[e] = Wakeup(reqs[k], buses)
    BY <2>3, <2>4 DEF MemRsStep, MemRsClock
  <2>6. PICK l \in 1..NumMem : l = came + 1 - k
    BY <1>4, NumMemAssumption
  <2>7. Place(l)' = e
    BY <1>1, <1>5, <2>2, <2>6, AgesMove
  <2>8. Held'[old - gone + k] = mem_entry'[e]
    <3>1. PICK q \in 1..n : q = old - gone + k /\ n + 1 - q = l
      BY <1>4, <2>6, NumMemAssumption
    <3>2. Held'[q] = mem_entry'[Place(n + 1 - q)']
      BY <1>6
    <3>3. Place(n + 1 - q)' = Place(l)'
      BY <3>1
    <3> QED
      BY <2>7, <3>1, <3>2, <3>3
  <2>9. reqs[k] \in Access /\ reqs[k].tag = After(next_tag, k - 1)
    BY <1>1, <2>1, RequestIs
  <2>10. Wakeup(reqs[k], buses).tag = reqs[k].tag
    BY <2>9, WakeupKeeps DEF MemoryOrder!Same
  <2> QED
    BY <2>5, <2>8, <2>9, <2>10
<1>11. next_tag' = After(next_tag, came)
  <2>1. CASE MemAccepts(reqs, stall, beyond)
    BY <1>8, <2>1 DEF MemRsStep
  <2>2. CASE ~MemAccepts(reqs, stall, beyond)
    BY <1>1, <1>8, <2>2, AfterIs DEF MemRsStep
  <2> QED
    BY <2>1, <2>2
<1>12. Len(Held') - Len(MemoryOrder!Left) = came
  BY <1>4, <1>6, <1>7, NumMemAssumption
<1>13. \A t, j : MemoryOrder!TagAfter(t, j) = After(t, j)
  BY DEF MemoryOrder!TagAfter, After
<1>14. /\ \A k \in DOMAIN MemoryOrder!Left :
            MemoryOrder!Same(MemoryOrder!Left[k], Held'[k])
       /\ \A k \in 1..came : Held'[Len(MemoryOrder!Left) + k].tag
                               = MemoryOrder!TagAfter(next_tag, k - 1)
       /\ next_tag' = MemoryOrder!TagAfter(next_tag, came)
  BY <1>7, <1>9, <1>10, <1>11, <1>13
<1>15. Len(Held') <= NumMem
  BY <1>6, NumMemAssumption
<1> QED
  BY <1>12, <1>14, <1>15 DEF MemoryOrder!Edge

(* Every step is an edge with a batch of requests; under a stall it is one *)
(* access that is not accepted.                                            *)
LEMMA RequestsOfStep ==
  ASSUME MemRsNext
  PROVE  \E reqs \in Batches, stall \in BOOLEAN, beyond \in Beyond,
            buses \in MemBuses : MemRsStep(reqs, stall, beyond, buses)
<1>1. <<Complete(next_tag)>> \in Batches
  BY DEF Batches, Accesses
<1>2. FALSE \in Beyond
  BY DEF Beyond
<1> QED
  BY <1>1, <1>2 DEF MemRsNext

(* Every step keeps the invariant of the station ...                       *)
LEMMA StationStep == StationInv /\ [MemRsNext]_<<memRsVars, next_tag>> => StationInv'
<1> SUFFICES ASSUME StationInv, [MemRsNext]_<<memRsVars, next_tag>>
             PROVE  StationInv'
  OBVIOUS
<1>1. CASE MemRsNext
  BY <1>1, RequestsOfStep, StepStation
<1>2. CASE UNCHANGED <<memRsVars, next_tag>>
  BY <1>2 DEF memRsVars, StationInv, MemRsTypeOK, Ring, Age, Ones
<1> QED
  BY <1>1, <1>2

(* ... and so it always holds.                                             *)
LEMMA StationHolds == MemRsSpec => []StationInv
BY InitStation, StationStep, PTL DEF MemRsSpec

(* The registers of the memory station keep their widths.                  *)
THEOREM StationTypeCorrect == MemRsSpec => []MemRsTypeOK
<1>1. StationInv => MemRsTypeOK
  BY DEF StationInv
<1> QED
  BY <1>1, StationHolds, PTL

(* The memory station is a queue, for every number of entries and tags:    *)
(* the pointer worked out from the busy bits is always the oldest access's, *)
(* no request overwrites one that waits, each keeps its place until it is  *)
(* at the front and ready, and leaves then.                                *)
THEOREM StationIsQueue == MemRsSpec => ImplementsMemQueue
<1>1. MemDispatchInit => MemoryOrder!Init
  <2> SUFFICES ASSUME MemDispatchInit PROVE MemoryOrder!Init
    OBVIOUS
  <2>1. Ones = {}
    BY DEF MemDispatchInit, MemRsInit, Ones
  <2>2. Cardinality(Ones) = 0
    BY <2>1, FS_EmptySet
  <2>3. Held \in Seq(Access) /\ Len(Held) = 0
    BY <2>2, InitStation, HeldIs DEF HeldInPlaces
  <2> QED
    BY <2>3 DEF MemoryOrder!Init, MemDispatchInit
<1>2. StationInv /\ [MemRsNext]_<<memRsVars, next_tag>>
        => [MemoryOrder!Edge]_<<Held, next_tag>>
  <2> SUFFICES ASSUME StationInv, [MemRsNext]_<<memRsVars, next_tag>>
               PROVE  [MemoryOrder!Edge]_<<Held, next_tag>>
    OBVIOUS
  <2>1. CASE MemRsNext
    BY <2>1, RequestsOfStep, StepIsQueueEdge
  <2>2. CASE UNCHANGED <<memRsVars, next_tag>>
    BY <2>2 DEF memRsVars, Held, IssuePtr, Ones, Zeros
  <2> QED
    BY <2>1, <2>2
<1> QED
  BY <1>1, <1>2, StationHolds, PTL
  DEF MemRsSpec, ImplementsMemQueue, MemoryOrder!Spec
=============================================================================
