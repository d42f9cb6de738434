---------------------------- MODULE SingleInstROB ----------------------------
(***************************************************************************)
(* rtl/core/COM/SingleInstROB.v: the reorder buffer of the single-issue    *)
(* core.  It is indexed by the rename tag, so the commit pointer follows   *)
(* the allocator's pointer around the same ring.  The pc of an entry is    *)
(* only reported to the test bench and is left out.                        *)
(***************************************************************************)
EXTENDS Consts

VARIABLES
  valid,          \* the entry has been dispatched into
  finish,         \* its instruction has executed
  dstValid, dst,  \* its destination register
  commit_ptr_1    \* the entry that commits next

robVars == <<valid, finish, dstValid, dst, commit_ptr_1>>

(* The dispatch block is not gated by the reset: a reset of more than one  *)
(* cycle leaves the entry that the DP/SW register names, 1, valid.         *)
RobInit ==
  /\ \E held \in BOOLEAN : valid = [t \in TagIndex |-> held /\ t = 1]
  /\ finish = [t \in TagIndex |-> FALSE]
  /\ dstValid = [t \in TagIndex |-> FALSE]
  /\ dst = [t \in TagIndex |-> 0]
  /\ commit_ptr_1 = 1

(* Mutants, for the checks only: the head commits before it has finished;  *)
(* a dispatch does not reset the finish flag of the last owner.            *)
commit_1_unfinished == valid[commit_ptr_1]
FinishKept(t, new, exe) == finish[t] \/ (exe.rob_we /\ t = exe.rrf_tag)

(* Wires: the head commits as soon as it has finished, and writes the ARF  *)
(* when it has a destination.                                              *)
commit_1 == valid[commit_ptr_1] /\ finish[commit_ptr_1]
arfwe_1  == dstValid[commit_ptr_1] /\ commit_1

(* The ring of the commit pointer: the 6-bit counter wraps to 0 and is     *)
(* moved on to 1, the first tag the allocator uses.                        *)
NextCommitPtr == IF commit_ptr_1 = NumTags THEN 1 ELSE commit_ptr_1 + 1

(* The flags after the edge; new = [alloc, tag, dst_en, rd] is the         *)
(* instruction dispatched into the buffer.  The dispatch is the later of   *)
(* the two always-blocks: it overrides a commit or finish of its entry.    *)
ValidAfter(t, new) ==
  \/ new.alloc /\ t = new.tag
  \/ valid[t] /\ ~(commit_1 /\ t = commit_ptr_1)

FinishAfter(t, new, exe) ==
  /\ ~(new.alloc /\ t = new.tag)
  /\ finish[t] \/ (exe.rob_we /\ t = exe.rrf_tag)

(* One rising clock edge.                                                  *)
RobClock(new, exe) ==
  /\ commit_ptr_1' = IF commit_1 THEN NextCommitPtr ELSE commit_ptr_1
  /\ valid' = [t \in TagIndex |-> ValidAfter(t, new)]
  /\ finish' = [t \in TagIndex |-> FinishAfter(t, new, exe)]
  /\ dst' = IF new.alloc THEN [dst EXCEPT ![new.tag] = new.rd] ELSE dst
  /\ dstValid' = IF new.alloc
                 THEN [dstValid EXCEPT ![new.tag] = new.dst_en] ELSE dstValid

RobTypeOK ==
  /\ valid \in [TagIndex -> BOOLEAN]
  /\ finish \in [TagIndex -> BOOLEAN]
  /\ dstValid \in [TagIndex -> BOOLEAN]
  /\ dst \in [TagIndex -> Regs]
  /\ commit_ptr_1 \in Tags
=============================================================================
