--------------------------------- MODULE Arf ---------------------------------
(***************************************************************************)
(* rtl/core/DP/Arf.v: the architectural register file and the rename table *)
(* that extends each register with a busy bit and the tag of its youngest  *)
(* writer.  The data part is rtl/core/DP/SyncRAM.v: read combinationally,  *)
(* written at the clock edge by the committing instruction.                *)
(***************************************************************************)
EXTENDS Consts

VARIABLES
  arf_data,     \* SyncRAM: the committed value of each register
  arf_busy,     \* the register waits for an instruction in flight
  arf_rrftag    \* the tag of the writer it waits for

arfVars == <<arf_data, arf_busy, arf_rrftag>>

(* The data RAM has no reset: it holds anything at power-up.               *)
ArfInit ==
  /\ arf_data \in [Regs -> Data]
  /\ arf_busy = [r \in Regs |-> FALSE]
  /\ arf_rrftag = [r \in Regs |-> 0]

(* A commit frees the register only if its tag is still the one recorded:  *)
(* a younger writer keeps it busy.                                         *)
ClearsBusy(r, commit) ==
  commit.we /\ commit.dst = r /\ commit.tag = arf_rrftag[r]

(* Mutant, for the checks only: the commit of the older writer wins.       *)
BusyAfterClearFirst(r, commit, rename) ==
  /\ ~ClearsBusy(r, commit)
  /\ arf_busy[r] \/ (rename.en /\ rename.rd = r)

(* The busy bits after the edge: renaming a destination wins over *)
(* the commit of an older writer of the same register in the same cycle.   *)
BusyAfter(r, commit, rename) ==
  IF rename.en /\ rename.rd = r THEN TRUE
  ELSE IF ClearsBusy(r, commit) THEN FALSE
  ELSE arf_busy[r]

(* One rising clock edge; commit = [we, dst, tag, data] from ROB and RRF,  *)
(* rename = [en, rd, tag] from the decoder and the allocator.              *)
ArfClock(commit, rename) ==
  /\ arf_data' = IF commit.we
                 THEN [arf_data EXCEPT ![commit.dst] = commit.data]
                 ELSE arf_data
  /\ arf_busy' = [r \in Regs |-> BusyAfter(r, commit, rename)]
  /\ arf_rrftag' = IF rename.en
                   THEN [arf_rrftag EXCEPT ![rename.rd] = rename.tag]
                   ELSE arf_rrftag

ArfTypeOK ==
  /\ arf_data \in [Regs -> Data]
  /\ arf_busy \in [Regs -> BOOLEAN]
  /\ arf_rrftag \in [Regs -> TagIndex]
=============================================================================
