--------------------------------- MODULE Rrf ---------------------------------
(***************************************************************************)
(* rtl/core/DP/Rrf.v: the rename registers.  An entry becomes valid when   *)
(* the execution result for its tag is forwarded and invalid when the tag  *)
(* commits; HeliosX.v leaves the clear-on-allocate port (allocate_rrf_en)  *)
(* and the alu2, mul and branch forwarding ports unconnected, so the       *)
(* commit is the only thing that ever clears an entry.                     *)
(***************************************************************************)
EXTENDS Consts

VARIABLES rrf_valid, rrf_data

rrfVars == <<rrf_valid, rrf_data>>

(* rrf_data has no reset; it is read only behind rrf_valid or for a tag    *)
(* that has finished, so the power-up contents are taken as zero.          *)
RrfInit ==
  /\ rrf_valid = [t \in TagIndex |-> FALSE]
  /\ rrf_data = [t \in TagIndex |-> 0]

(* Mutants, for the checks only: no bypass; a commit leaves its entry.     *)
ForwardAccessibleNever(t, exe) == FALSE
RrfValidKept(t, commit, exe) ==
  rrf_valid[t] \/ (exe.rrf_we /\ t = exe.rrf_tag)

(* The bypass: a tag that is read in the cycle its result is forwarded.    *)
(* The unconnected ports present tag 0 and data 0, and the write enables   *)
(* are or-ed over all ports before the tags are compared.                  *)
ForwardAccessible(t, exe) == exe.rrf_we /\ t \in {exe.rrf_tag, 0}

RrfValidOut(t, exe) == rrf_valid[t] \/ ForwardAccessible(t, exe)

RrfDataOut(t, exe) ==
  IF ~rrf_valid[t] /\ ForwardAccessible(t, exe)
  THEN IF t = exe.rrf_tag THEN exe.result ELSE 0
  ELSE rrf_data[t]

(* A forwarded result is written after the commit cleared its entry, so it *)
(* wins when both name the same tag.                                       *)
RrfValidAfter(t, commit, exe) ==
  \/ exe.rrf_we /\ t = exe.rrf_tag
  \/ rrf_valid[t] /\ ~(commit.we /\ t = commit.tag)

(* One rising clock edge.                                                  *)
RrfClock(commit, exe) ==
  /\ rrf_valid' = [t \in TagIndex |-> RrfValidAfter(t, commit, exe)]
  /\ rrf_data' = IF exe.rrf_we
                 THEN [rrf_data EXCEPT ![exe.rrf_tag] = exe.result]
                 ELSE rrf_data

RrfTypeOK ==
  /\ rrf_valid \in [TagIndex -> BOOLEAN]
  /\ rrf_data \in [TagIndex -> Data]
=============================================================================
