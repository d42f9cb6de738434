----------------------------- MODULE MemAccess -----------------------------
(***************************************************************************)
(* rtl/core/EX/MemAccessUnit.v and the store buffer in it, together with   *)
(* the data memory that soc/MemAccess_top.v puts behind it: a block RAM of *)
(* the FPGA with one port for writing and one for reading.  The effective  *)
(* address src1 + imm is a member of Addr.                                 *)
(***************************************************************************)
EXTENDS StoreBuffer

VARIABLES
  memory,      \* BRAM_32X65536
  read_data,   \* doutb, the register of its read port
  last         \* history: the operation of the last clock edge

memVars == <<sbVars, memory, read_data, last>>

Idle == [kind |-> "none"]

Operations ==
  {Idle} \cup {[kind |-> "load", addr |-> a] : a \in Addr}
         \cup {[kind |-> "store", addr |-> a, word |-> w] : a \in Addr, w \in Word}

MemInit ==
  /\ SbInit
  /\ memory = [a \in Addr |-> 0]
  /\ read_data = 0
  /\ last = Idle

(* Mutant, for the checks only: the memory's answer wins.                  *)
LoadDataOfMemory(from_memory) == from_memory

-----------------------------------------------------------------------------
(* Wires of MemAccessUnit: to the ROB and the RRF in the cycle of the      *)
(* issue, the data of a load one cycle later.                              *)
rob_we(op) == op.kind # "none"
rrf_we(op) == op.kind = "load"

LoadData(from_memory) == IF hit THEN data[load_index] ELSE from_memory

(* The read port of the RAM.  A read of the address that is written on the *)
(* same edge gives anything: the design does not set the collision mode.   *)
MemoryRead(a) ==
  IF mem_we /\ address[retire_ptr] = a THEN Word ELSE {memory[a]}

(* One rising clock edge of unit and memory.  The memory is read on every  *)
(* edge; its answer is looked at after a load.                             *)
MemClock(op, complete) ==
  /\ SbClock(op, complete)
  /\ memory' = IF mem_we
               THEN [memory EXCEPT ![address[retire_ptr]] = data[retire_ptr]]
               ELSE memory
  /\ IF op.kind = "load" THEN read_data' \in MemoryRead(op.addr)
     ELSE UNCHANGED read_data
  /\ last' = op

-----------------------------------------------------------------------------
(* Who uses it.  The ROB commits stores that were issued, and the buffer   *)
(* is never filled.                                                        *)
Ordinary(op, complete) ==
  /\ complete => complete_ptr # used_ptr
  /\ op.kind = "store" => Following(used_ptr) # retire_ptr

(* What it takes for loads to be right: none is issued while the stores    *)
(* reach beyond the end of the buffer, and none reads the address that is  *)
(* being written to memory on the same edge.                               *)
Careful(op) ==
  op.kind = "load" => /\ retire_ptr <= used_ptr
                      /\ ~(mem_we /\ address[retire_ptr] = op.addr)

MemNext == \E op \in Operations, complete \in BOOLEAN :
             Ordinary(op, complete) /\ Careful(op) /\ MemClock(op, complete)

MemSpec == MemInit /\ [][MemNext]_memVars

(* Any number of stores, and loads at any time but that of a collision.    *)
WrapNext == \E op \in Operations, complete \in BOOLEAN :
  /\ Ordinary(op, complete)
  /\ op.kind = "load" => ~(mem_we /\ address[retire_ptr] = op.addr)
  /\ MemClock(op, complete)

WrapSpec == MemInit /\ [][WrapNext]_memVars

-----------------------------------------------------------------------------
(* The entries that wait, by their distance from the retire pointer around *)
(* the ring.                                                               *)
Distance(p) ==
  IF p >= retire_ptr THEN p - retire_ptr ELSE p - retire_ptr + NumStores

Pending(a) == {i \in Slots : /\ Distance(i) \in 1..Distance(used_ptr)
                             /\ address[i] = a}

YoungestPending(a) ==
  CHOOSE i \in Pending(a) : \A j \in Pending(a) : Distance(j) <= Distance(i)

(* Memory is written by committed stores only: the three pointers, which   *)
(* chase each other around the ring and are compared for equality alone,   *)
(* never overtake.                                                         *)
RetiresInBounds == Distance(complete_ptr) <= Distance(used_ptr)

(* A load whose address waits in the buffer takes the data of the youngest *)
(* store to it.                                                            *)
LoadFindsBuffered ==
  [][last'.kind = "load" /\ Pending(last'.addr) # {} =>
       hit' /\ data'[load_index'] = data[YoungestPending(last'.addr)]]_memVars

(* What a program sees as its memory: the youngest waiting store, the one  *)
(* on its way, or the RAM.                                                 *)
Seen(a) ==
  IF Pending(a) # {} THEN data[YoungestPending(a)]
  ELSE IF mem_we /\ address[retire_ptr] = a THEN data[retire_ptr]
  ELSE memory[a]

Flat == INSTANCE FlatMemory WITH
  cells <- [a \in Addr |-> Seen(a)],
  reply <- IF last.kind = "load" THEN LoadData(read_data) ELSE 0

(* Buffer and RAM together are a plain memory: a load returns the last     *)
(* store to its address in program order, wherever that store is: waiting, *)
(* committed, on its way to the RAM or there.                              *)
ImplementsFlatMemory == Flat!Spec
=============================================================================
