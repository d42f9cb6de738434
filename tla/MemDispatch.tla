----------------------------- MODULE MemDispatch -----------------------------
(***************************************************************************)
(* The memory reservation station among what surrounds it: two dispatch    *)
(* ports in front of it, the result buses beside it.                       *)
(***************************************************************************)
EXTENDS RSAccessMem

(* Who requests what.  The dispatch stage brings up to two instructions in *)
(* program order, under consecutive tags, and repeats those that are not   *)
(* accepted.  It brings no pair for the two ends of the ring while entry 0 *)
(* is busy, the one case in which the bit outside the vector matters.      *)
VARIABLE next_tag    \* the tag of the next instruction for the station

MemDispatchInit == MemRsInit /\ next_tag = 1

After(t, n) == ((t + n - 1) % NumTags) + 1

Waiting(t, w) == [tag |-> t, ctl |-> Bubble, op1 |-> w, valid1 |-> FALSE,
                  op2 |-> 0, valid2 |-> TRUE]
WaitingData(t, w) == [tag |-> t, ctl |-> Bubble, op1 |-> 0, valid1 |-> TRUE,
                      op2 |-> w, valid2 |-> FALSE]
Complete(t) == [tag |-> t, ctl |-> Bubble, op1 |-> 0, valid1 |-> TRUE,
                op2 |-> 0, valid2 |-> TRUE]

(* An access waits for its address, for its data, or for nothing.          *)
Accesses(t) == {Waiting(t, NumTags), WaitingData(t, NumTags), Complete(t)}

Batches ==
  {<<>>} \cup {<<a>> : a \in Accesses(next_tag)}
         \cup {<<a, b>> : a \in Accesses(next_tag),
                          b \in Accesses(After(next_tag, 1))}

NoPairAcrossEnd(reqs) ==
  Len(reqs) = 2 /\ alloc_ptr = NumMem - 1 => ~mem_busy[0]

(* The ring of buses: nothing, or the result everyone waits for.           *)
MemBuses == {<<IdleBus>>, <<[result |-> 1, rrf_tag |-> NumTags], IdleBus>>}

MemRsStep(reqs, stall, beyond, buses) ==
  /\ NoPairAcrossEnd(reqs)
  /\ MemRsClock(reqs, stall, beyond, buses)
  /\ next_tag' = IF MemAccepts(reqs, stall, beyond)
                 THEN After(next_tag, Len(reqs)) ELSE next_tag

Beyond == IF alloc_ptr = NumMem - 1 THEN BOOLEAN ELSE {FALSE}

MemRsNext == \E buses \in MemBuses :
  \/ \E reqs \in Batches, beyond \in Beyond :
       MemRsStep(reqs, FALSE, beyond, buses)
  \/ MemRsStep(<<Complete(next_tag)>>, TRUE, FALSE, buses)

MemRsSpec ==
  MemDispatchInit /\ [][MemRsNext]_<<memRsVars, next_tag>>

(* The station holds the accesses it has taken, each once, in program      *)
(* order, and issues them in that order and only when they are ready:      *)
(* whatever pattern the busy bits form, the pointer that is worked out     *)
(* from them stays at the oldest one.                                      *)
Held == [k \in 1..Cardinality(Ones) |-> mem_entry[(IssuePtr + k - 1) % NumMem]]

MemoryOrder == INSTANCE MemQueue WITH
  queue <- Held, next <- next_tag, Capacity <- NumMem

ImplementsMemQueue == MemoryOrder!Spec
=============================================================================
