------------------------------ MODULE MemBench ------------------------------
(***************************************************************************)
(* testbench/verilator/EX/store_buffer_tb.cpp and mem_access_unit_tb.cpp:  *)
(* the store buffer alone and in its unit.  The benches play the memory    *)
(* themselves.  Addresses are offsets; those of a bench begin at Base.     *)
(***************************************************************************)
EXTENDS MemAccess, Testbench

Base == 100

(* Nothing is driven.  A store and a load differ in we, or in the unit in  *)
(* if_write_rrf, which is its complement.                                  *)
MemIdle == [issue |-> FALSE, we |-> FALSE, addr |-> 0, word |-> 0,
            complete |-> FALSE, from_memory |-> 0]

Operation ==
  IF ~ports.issue THEN Idle
  ELSE IF ports.we THEN [kind |-> "store", addr |-> ports.addr, word |-> ports.word]
  ELSE [kind |-> "load", addr |-> ports.addr]

store_test_input ==
  50 :> [issue |-> TRUE, we |-> TRUE, addr |-> Base, word |-> 4]
  @@ 60 :> [complete |-> TRUE, addr |-> Base + 4, word |-> 8]
  @@ 70 :> [complete |-> TRUE, addr |-> Base + 8, word |-> 12]
  @@ 80 :> [complete |-> TRUE, we |-> FALSE]

load_test_input ==
  90 :> [we |-> FALSE, addr |-> Base + 4]
  @@ 100 :> [we |-> FALSE, addr |-> Base + 8]

(* The unit adds the immediate to the base address.                        *)
store_input ==
  50 :> [issue |-> TRUE, we |-> TRUE, addr |-> Base, word |-> 1]
  @@ 60 :> [addr |-> Base + 4, word |-> 2]
  @@ 70 :> [addr |-> Base + 8, word |-> 3, complete |-> TRUE]
  @@ 80 :> [issue |-> FALSE, complete |-> FALSE]

(* The memory answers at 94.                                               *)
load_input ==
  90 :> [issue |-> TRUE, we |-> FALSE, addr |-> Base, from_memory |-> 1]
  @@ 100 :> [addr |-> Base + 4]
  @@ 110 :> [addr |-> Base + 8]
  @@ 120 :> [issue |-> FALSE]

StoreBufferInput == store_test_input @@ load_test_input
MemAccessInput   == store_input @@ load_input

MemBenchBegin ==
  /\ MemInit
  /\ \/ Begin("store_buffer", 50, MemIdle, StoreBufferInput)
     \/ Begin("mem_access", 50, MemIdle, MemAccessInput)

MemBenchStep ==
  /\ \/ Tick("store_buffer", 120, StoreBufferInput)
     \/ Tick("mem_access", 130, MemAccessInput)
  /\ SbClock(Operation, ports.complete)
  /\ UNCHANGED <<memory, read_data, last>>

-----------------------------------------------------------------------------
(* What is on its way to the memory.                                       *)
Write(addr, word) == address[retire_ptr] = addr /\ data[retire_ptr] = word

store_test_verify ==
  /\ At(70) => mem_we /\ Write(Base, 4)
  /\ At(80) => mem_we /\ Write(Base + 4, 8)
  /\ At(90) => ~mem_we /\ Write(Base + 4, 8)

load_test_verify ==
  /\ At(100) => ~hit
  /\ At(110) => hit /\ data[load_index] = 12

store_verify ==
  /\ \A t \in {50, 60, 70} : At(t) =>
       rob_we(Operation) /\ ~rrf_we(Operation) /\ ~mem_we /\ Write(0, 0)
  /\ At(80) => /\ ~rob_we(Operation) /\ ~rrf_we(Operation)
               /\ mem_we /\ Write(Base, 1)

(* A load that is issued, its address, and the one before it.              *)
Loads(addr, from_buffer) ==
  rob_we(Operation) /\ rrf_we(Operation) /\ ports.addr = addr /\ hit = from_buffer
Loaded(word) == LoadData(ports.from_memory) = word

load_verify ==
  /\ At(90)  => Loads(Base, FALSE)
  /\ At(100) => Loads(Base + 4, FALSE) /\ Loaded(1)
  /\ At(110) => Loads(Base + 8, TRUE) /\ Loaded(2)
  /\ At(120) => /\ ~rob_we(Operation) /\ ~rrf_we(Operation)
                /\ ports.addr = Base + 8 /\ hit /\ Loaded(3)

(* verify_dut of both benches: a store goes to memory on the edge of its   *)
(* commit and not while a load has the port; a load takes what waits in    *)
(* the buffer, and what memory answers when nothing waits, whether it was  *)
(* written on the edge before or long ago.                                 *)
MemBenchPasses ==
  /\ bench = "store_buffer" => store_test_verify /\ load_test_verify
  /\ bench = "mem_access" => store_verify /\ load_verify
=============================================================================
