----------------------------- MODULE RSAccessMem -----------------------------
(***************************************************************************)
(* The memory reservation station: rtl/core/SW/RSAccessMem.v with its      *)
(* entries (RSAccessMemEntry.v), allocated and issued in order by          *)
(* InorderAllocIssueUnit.v.  Only the allocation pointer is a register:    *)
(* the oldest entry is found from the pattern of the busy bits.            *)
(***************************************************************************)
EXTENDS SourceManager

CONSTANT NumMem    \* LDST_ENT_NUM

ASSUME NumMemAssumption == NumMem \in Nat /\ NumMem >= 2

VARIABLES
  mem_entry,   \* the content of each entry; it stays behind after the issue
  mem_busy,    \* busy_vector: the entry holds an instruction to issue
  alloc_ptr    \* the entry that is written next

memRsVars == <<mem_entry, mem_busy, alloc_ptr>>

MemEntries == 0..(NumMem - 1)

MemRsInit ==
  /\ mem_entry = [e \in MemEntries |-> [tag |-> 0, ctl |-> Bubble, op1 |-> 0,
                    valid1 |-> FALSE, op2 |-> 0, valid2 |-> FALSE]]
  /\ mem_busy = [e \in MemEntries |-> FALSE]
  /\ alloc_ptr = 0

Ones  == {e \in MemEntries : mem_busy[e]}
Zeros == {e \in MemEntries : ~mem_busy[e]}

(* Mutant, for the checks only: a ring through both ends is taken for one  *)
(* that starts at entry 0.                                                 *)
IssuePtrFirstOne ==
  IF Zeros = {} THEN alloc_ptr ELSE IF Ones = {} THEN 0 ELSE Min(Ones)

-----------------------------------------------------------------------------
(* The oldest entry: the busy entries are consecutive on a ring.  When     *)
(* none is free the ring starts at the allocation pointer; when it goes    *)
(* through the end it starts behind the last free entry.                   *)
IssuePtr ==
  IF Zeros = {} THEN alloc_ptr
  ELSE IF {0, NumMem - 1} \subseteq Ones THEN (Max(Zeros) + 1) % NumMem
  ELSE IF Ones = {} THEN 0 ELSE Min(Ones)

(* The oldest entry issues when it is ready, and no other one does.        *)
MemIssue ==
  /\ mem_busy[IssuePtr]
  /\ mem_entry[IssuePtr].valid1 /\ mem_entry[IssuePtr].valid2

MemIssued(buses) == Wakeup(mem_entry[IssuePtr], buses)

-----------------------------------------------------------------------------
(* The bit that follows the allocation pointer is busy_vector_i            *)
(* [alloc_ptr_o + 1], a sum that is wider than the pointer: behind the     *)
(* last entry it is outside the vector, and what is read there (beyond) is *)
(* up to the tool that builds the design.                                  *)
MemAllocatable(n, beyond) ==
  \/ n = 0
  \/ /\ ~mem_busy[alloc_ptr]
     /\ n = 2 => ~(IF alloc_ptr = NumMem - 1 THEN beyond
                   ELSE mem_busy[alloc_ptr + 1])

MemAccepts(reqs, stall, beyond) ==
  ~stall /\ MemAllocatable(Len(reqs), beyond)

(* The dispatch port that writes an entry in this cycle.                   *)
MemPort(e) == ((e - alloc_ptr) % NumMem) + 1

MemWritten(e, reqs, stall, beyond) ==
  MemAccepts(reqs, stall, beyond) /\ MemPort(e) \in DOMAIN reqs

(* One rising clock edge.                                                  *)
MemRsClock(reqs, stall, beyond, buses) ==
  /\ mem_entry' = [e \in MemEntries |->
       Wakeup(IF MemWritten(e, reqs, stall, beyond)
              THEN reqs[MemPort(e)] ELSE mem_entry[e], buses)]
  /\ mem_busy' = [e \in MemEntries |->
       /\ MemWritten(e, reqs, stall, beyond) \/ mem_busy[e]
       /\ ~(MemIssue /\ e = IssuePtr)]
  /\ alloc_ptr' = IF MemAccepts(reqs, stall, beyond)
                  THEN (alloc_ptr + Len(reqs)) % NumMem ELSE alloc_ptr

MemRsTypeOK ==
  /\ mem_entry \in [MemEntries -> [tag: TagIndex, ctl: Control, op1: Operand,
                       valid1: BOOLEAN, op2: Operand, valid2: BOOLEAN]]
  /\ mem_busy \in [MemEntries -> BOOLEAN]
  /\ alloc_ptr \in MemEntries
=============================================================================
