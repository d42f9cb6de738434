---------------------------- MODULE SourceManager ----------------------------
(***************************************************************************)
(* rtl/core/SW/SourceManager.v: how a waiting operand of a reservation     *)
(* station meets the results on the way.  Both stations hold two of them   *)
(* per entry and use the same comparison on the operands being written.    *)
(* The result buses, exe_result_1 to 5, are a sequence of                  *)
(* [result, rrf_tag]; the write enables of a result are not among their    *)
(* wires, so a bus carries its tag on every cycle.                         *)
(***************************************************************************)
EXTENDS Decoder, Sequences, FiniteSetsExt

(* A bus nothing drives, and the four constant buses of HeliosX.v.         *)
IdleBus == [result |-> 0, rrf_tag |-> 0]

(* The buses with the tag a waiting operand holds.                         *)
Carriers(op, buses) == {k \in DOMAIN buses : buses[k].rrf_tag = op}

(* Mutants, for the checks only: an issued result wakes everyone; a woken  *)
(* operand keeps its tag for a value.                                      *)
ResolvedByAny(op, ready, buses) == ready \/ buses[1].rob_we
ResolveToTag(op, ready, buses) == op

Resolved(op, ready, buses) == ready \/ Carriers(op, buses) # {}

(* Of several buses with the tag the first one gives the value.            *)
Resolve(op, ready, buses) ==
  IF ready \/ Carriers(op, buses) = {} THEN op
  ELSE buses[Min(Carriers(op, buses))].result

(* Both operands of an entry, or of the content being written into one.    *)
Wakeup(ent, buses) ==
  [ent EXCEPT !.op1 = Resolve(ent.op1, ent.valid1, buses),
              !.valid1 = Resolved(ent.op1, ent.valid1, buses),
              !.op2 = Resolve(ent.op2, ent.valid2, buses),
              !.valid2 = Resolved(ent.op2, ent.valid2, buses)]
=============================================================================
