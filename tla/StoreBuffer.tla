---------------------------- MODULE StoreBuffer ----------------------------
(***************************************************************************)
(* rtl/core/EX/StoreBuffer.v: stores wait here from their issue until the  *)
(* ROB reports their commit, then they are written to memory one per cycle *)
(* when no load is issued.  A load that finds its address takes the data   *)
(* from here.                                                              *)
(***************************************************************************)
EXTENDS Integers, FiniteSetsExt

CONSTANTS
  NumStores,    \* STORE_BUFFER_ENT_NUM
  Addr,         \* the addresses; contains 0
  Word          \* the values stored; contains 0

ASSUME StoreBufferAssumption ==
  NumStores \in Nat /\ NumStores >= 2 /\ 0 \in Addr /\ 0 \in Word

VARIABLES
  address, data,   \* the store in each entry
  buffered,        \* valid: it waits for its turn at the memory
  used_ptr,        \* the entry of the latest store
  complete_ptr,    \* the latest one the ROB has committed
  retire_ptr,      \* the latest one on its way to the memory
  hit, load_index, \* a load found its address, and where
  mem_we           \* the entry of retire_ptr is being written to memory

sbVars == <<address, data, buffered, used_ptr, complete_ptr, retire_ptr,
            hit, load_index, mem_we>>

Slots == 0..(NumStores - 1)

SbInit ==
  /\ address = [i \in Slots |-> 0] /\ data = [i \in Slots |-> 0]
  /\ buffered = [i \in Slots |-> FALSE]
  /\ used_ptr = 0 /\ complete_ptr = 0 /\ retire_ptr = 0
  /\ hit = FALSE /\ load_index = 0 /\ mem_we = FALSE

(* The pointers have just the bits of an index.  They are compared with    *)
(* ~0, which is as wide as an integer and which they never equal, so they  *)
(* go through 0 and not from the last entry to 1.                          *)
Following(p) == IF p = NumStores - 1 THEN 0 ELSE p + 1

(* A load searches from entry 1 on; the match with the highest index wins. *)
Matches(a) == {i \in Slots \ {0} : buffered[i] /\ address[i] = a}

(* Mutants, for the checks only: the lowest match wins; entries are        *)
(* written to memory before they are committed.                            *)
LowestMatch(a) == Min(Matches(a))
RetiresUncommitted(op, complete) == op.kind # "load" /\ used_ptr # retire_ptr

Match(a) == Max(Matches(a))

(* An operation is [kind |-> "none"], [kind |-> "load", addr] or           *)
(* [kind |-> "store", addr, word].                                         *)
Completed(complete) ==
  IF complete THEN Following(complete_ptr) ELSE complete_ptr

(* The port of the memory belongs to a load when there is one.             *)
Retires(op, complete) ==
  op.kind # "load" /\ Completed(complete) # retire_ptr

(* One rising clock edge.  The pointers are assigned at once (=), the      *)
(* registers at the end of the edge (<=), the bit of a retiring entry last.*)
SbClock(op, complete) ==
  LET store == op.kind = "store"
      found == op.kind = "load" /\ Matches(op.addr) # {}
      used == IF store THEN Following(used_ptr) ELSE used_ptr
      retired == IF Retires(op, complete)
                 THEN Following(retire_ptr) ELSE retire_ptr
  IN
  /\ address' = IF store THEN [address EXCEPT ![used] = op.addr] ELSE address
  /\ data' = IF store THEN [data EXCEPT ![used] = op.word] ELSE data
  /\ buffered' = [i \in Slots |->
       /\ buffered[i] \/ (store /\ i = used)
       /\ ~(Retires(op, complete) /\ i = retired)]
  /\ used_ptr' = used
  /\ complete_ptr' = Completed(complete)
  /\ retire_ptr' = retired
  /\ hit' = found
  /\ load_index' = IF found THEN Match(op.addr) ELSE load_index
  /\ mem_we' = Retires(op, complete)

SbTypeOK ==
  /\ address \in [Slots -> Addr] /\ data \in [Slots -> Word]
  /\ buffered \in [Slots -> BOOLEAN]
  /\ {used_ptr, complete_ptr, retire_ptr, load_index} \subseteq Slots
  /\ {hit, mem_we} \subseteq BOOLEAN
=============================================================================
