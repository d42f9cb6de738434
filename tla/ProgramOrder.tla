---------------------------- MODULE ProgramOrder ----------------------------
(***************************************************************************)
(* What renaming and the reorder buffer promise together: a window of      *)
(* instructions in program order, whose results may arrive in any order    *)
(* but take effect on the registers one at a time from the oldest on.      *)
(* Tags, pointers, busy bits and the RRF are not mentioned.                *)
(***************************************************************************)
EXTENDS Consts, Sequences

VARIABLES
  arch,     \* the architectural registers
  window    \* the instructions in flight, oldest first

Entry == [rd: Regs, done: BOOLEAN, value: Data]

Pending(r) == [rd |-> r, done |-> FALSE, value |-> 0]

Init == arch \in [Regs -> Data] /\ window = <<>>

Finished(e, d) == [rd |-> e.rd, done |-> TRUE, value |-> d]

(* The windows after the result of a pending instruction arrived, or none. *)
Results(w) ==
  {w} \cup {[w EXCEPT ![k] = Finished(w[k], d)] :
              k \in {j \in 1..Len(w) : ~w[j].done}, d \in Data}

(* The windows after one more instruction entered at the end, or none.     *)
Entries(w) == {w} \cup {Append(w, Pending(r)) : r \in Regs}

(* One clock edge: a result and a new instruction may come together, ...   *)
Proceed ==
  /\ UNCHANGED arch
  /\ \E w \in Results(window) : window' \in Entries(w)

(* ... and with them the oldest instruction, when it already has its       *)
(* result, may leave and write its register.                               *)
Retire ==
  /\ window # <<>> /\ Head(window).done
  /\ arch' = [arch EXCEPT ![Head(window).rd] = Head(window).value]
  /\ \E w \in Results(Tail(window)) : window' \in Entries(w)

Next == Proceed \/ Retire

Spec == Init /\ [][Next]_<<arch, window>>
=============================================================================
