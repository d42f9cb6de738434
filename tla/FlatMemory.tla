----------------------------- MODULE FlatMemory -----------------------------
(***************************************************************************)
(* What the memory path promises: a memory without a buffer.  A store      *)
(* takes effect when it is issued, a load is answered with the present     *)
(* value one step later.                                                   *)
(***************************************************************************)
CONSTANTS Addr, Word

VARIABLES
  cells,    \* the value of each address
  last,     \* the operation of the last step
  reply     \* the answer, when that was a load

Init == cells = [a \in Addr |-> 0] /\ last = [kind |-> "none"] /\ reply = 0

Load(a) ==
  /\ last' = [kind |-> "load", addr |-> a]
  /\ reply' = cells[a]
  /\ UNCHANGED cells

Store(a, w) ==
  /\ last' = [kind |-> "store", addr |-> a, word |-> w]
  /\ cells' = [cells EXCEPT ![a] = w]
  /\ reply' = 0

Pause == last' = [kind |-> "none"] /\ reply' = 0 /\ UNCHANGED cells

Next == \/ \E a \in Addr : Load(a)
        \/ \E a \in Addr, w \in Word : Store(a, w)
        \/ Pause

Spec == Init /\ [][Next]_<<cells, last, reply>>
=============================================================================
