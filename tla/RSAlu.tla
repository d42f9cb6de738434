-------------------------------- MODULE RSAlu --------------------------------
(***************************************************************************)
(* The ALU reservation station: rtl/core/SW/RSAlu.v with its entries       *)
(* (RSAluEntry.v), the allocation of free entries (AllocateUnit.v) and the *)
(* choice of the entry to issue (OldestFinder.v), as SwUnit.v puts them    *)
(* together.  It takes up to two instructions per cycle; HeliosX.v ties    *)
(* the second dispatch port to zero.                                       *)
(***************************************************************************)
EXTENDS SourceManager

CONSTANT NumEntries    \* ALU_ENT_NUM

ASSUME NumEntriesAssumption == NumEntries \in Nat \ {0}

VARIABLES
  entry,      \* the content of each entry; it stays behind after the issue
  busy,       \* busy_vector: the entry holds an instruction to issue
  sort_bit    \* the entry was written after the last wrap of the tags

rsVars == <<entry, busy, sort_bit>>

Entries == 0..(NumEntries - 1)

RsInit ==
  /\ entry = [e \in Entries |-> [tag |-> 0, ctl |-> Bubble, op1 |-> 0,
                valid1 |-> FALSE, op2 |-> 0, valid2 |-> FALSE]]
  /\ busy = [e \in Entries |-> FALSE]
  /\ sort_bit = [e \in Entries |-> e = 0]

-----------------------------------------------------------------------------
(* Mutants, for the checks only: a result that arrives while the entry is  *)
(* written is missed; an issued entry stays ready; tags are compared       *)
(* without the wrap bit; an entry being issued is taken for free; the two  *)
(* ports of a cycle meet in one entry.                                     *)
StoredUnwoken(e, reqs, stall, buses) ==
  IF e \in {f \in Entries : ~busy[f]} /\ reqs # <<>> /\ ~stall
     /\ \A f \in Entries : ~busy[f] => e <= f
  THEN reqs[1] ELSE Wakeup(entry[e], buses)
ReadyWhenFree(e) == entry[e].valid1 /\ entry[e].valid2
AgeByTag(e) == entry[e].tag
FreeOrReady == {e \in Entries :
  busy[e] => entry[e].valid1 /\ entry[e].valid2}
PortFromTop(e) == Cardinality({f \in Entries : ~busy[f] /\ f >= e})

-----------------------------------------------------------------------------
(* Issue: the entry with the least {not ready, sort bit, tag}, the one     *)
(* with the higher index when two are equal; it is issued if it is ready.  *)
Ready(e) == busy[e] /\ entry[e].valid1 /\ entry[e].valid2

Age(e) == Bit(sort_bit[e]) * (NumTags + 1) + entry[e].tag

HistoryValue(e) == Bit(~Ready(e)) * 2 * (NumTags + 1) + Age(e)

IssueEntry == CHOOSE e \in Entries : \A f \in Entries :
  \/ HistoryValue(e) < HistoryValue(f)
  \/ HistoryValue(e) = HistoryValue(f) /\ f <= e

Issue == Ready(IssueEntry)

(* The selected entry as the execution unit sees it, issued or not: an     *)
(* operand that is woken in this cycle is bypassed.                        *)
Issued(buses) == Wakeup(entry[IssueEntry], buses)

-----------------------------------------------------------------------------
(* Allocation: the requests of a cycle take the lowest free entries in     *)
(* order; all of them are dropped when there are fewer.                    *)
FreeEntries == {e \in Entries : ~busy[e]}

Accepts(reqs, stall) == ~stall /\ Len(reqs) <= Cardinality(FreeEntries)

(* The dispatch port a free entry belongs to in this cycle.                *)
Port(e) == Cardinality({f \in FreeEntries : f <= e})

Written(e, reqs, stall) ==
  e \in FreeEntries /\ Accepts(reqs, stall) /\ Port(e) \in DOMAIN reqs

(* The content of an entry after the edge: the wakeup sees the operands    *)
(* being written as well as those that are stored.                         *)
Stored(e, reqs, stall, buses) ==
  Wakeup(IF Written(e, reqs, stall) THEN reqs[Port(e)] ELSE entry[e], buses)

(* One rising clock edge; reqs are the contents the dispatch ports bring.  *)
RsClock(reqs, stall, nextcyc, buses) ==
  /\ entry' = [e \in Entries |-> Stored(e, reqs, stall, buses)]
  /\ busy' = [e \in Entries |-> (Written(e, reqs, stall) \/ busy[e])
                                 /\ ~(Issue /\ e = IssueEntry)]
  /\ sort_bit' = [e \in Entries |-> Written(e, reqs, stall)
                                     \/ (sort_bit[e] /\ ~nextcyc)]

RsTypeOK ==
  /\ entry \in [Entries -> [tag: TagIndex, ctl: Control, op1: Operand,
                            valid1: BOOLEAN, op2: Operand, valid2: BOOLEAN]]
  /\ busy \in [Entries -> BOOLEAN]
  /\ sort_bit \in [Entries -> BOOLEAN]
=============================================================================
