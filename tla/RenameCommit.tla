---------------------------- MODULE RenameCommit ----------------------------
(***************************************************************************)
(* The in-order skeleton of the core: the dispatch stage (allocator,       *)
(* rename table, ARF, RRF) and the reorder buffer, wired together as in    *)
(* rtl/HeliosX.v and clocked together.  What lies between them, the        *)
(* reservation station and the ALU, is replaced by an environment that     *)
(* finishes any executing instruction at any time with any result, so what *)
(* is shown here holds for every issue order; HeliosX puts the real one    *)
(* back and implements this module.                                        *)
(***************************************************************************)
EXTENDS ReNameUnit, SingleInstROB

vars == <<allocVars, arfVars, rrfVars, dpVars, robVars>>

-----------------------------------------------------------------------------
(* The wires of HeliosX.v between the ROB and the dispatch stage.          *)
CommitPort == [we |-> arfwe_1, dst |-> dst[commit_ptr_1],
               tag |-> commit_ptr_1, data |-> rrf_data[commit_ptr_1]]

RobPort == [alloc |-> dp.alloc, tag |-> dp.tag,
            dst_en |-> dp.ctl.wr_reg, rd |-> dp.ctl.rd]

(* One rising clock edge of both; next is the decoded instruction.         *)
Clock(next, exe) ==
  /\ DispatchClock(commit_1, CommitPort, exe, next)
  /\ RobClock(RobPort, exe)

-----------------------------------------------------------------------------
(* The ring: the tags from the commit pointer up to the allocation pointer *)
(* belong to instructions in flight, oldest first.                         *)
InUse == NumTags - freenum

Offset(t) == IF t >= commit_ptr_1 THEN t - commit_ptr_1
             ELSE t - commit_ptr_1 + NumTags

InFlight(t) == t \in Tags /\ Offset(t) < InUse

(* An instruction waits in the DP/SW register for one cycle; from the next *)
(* one on it may execute, and it does so once.                             *)
InLatch(t) == dp.alloc /\ dp.ctl.wr_reg /\ dp.tag = t

Executing(t) == InFlight(t) /\ ~InLatch(t) /\ valid[t] /\ ~finish[t]

NoResult == [result |-> 0, rrf_tag |-> 0, rob_we |-> FALSE, rrf_we |-> FALSE]

Result(t, d) == [result |-> d, rrf_tag |-> t, rob_we |-> TRUE, rrf_we |-> TRUE]

Fetchable == {Decode(i) : i \in Program} \cup {Bubble}

(* A clock edge on which nothing finishes, and one on which t finishes.    *)
CycleIdle(next) == Clock(next, NoResult)

CycleFinish(next, t, d) == Executing(t) /\ Clock(next, Result(t, d))

Init == DispatchInit /\ RobInit

Next == \E next \in Fetchable :
          \/ CycleIdle(next)
          \/ \E t \in Tags, d \in Data : CycleFinish(next, t, d)

(* Any instruction stream, with every stall and every bubble.              *)
Spec == Init /\ [][Next]_vars

-----------------------------------------------------------------------------
(* The stream for which the dispatch stage is right: the fetch stage holds *)
(* back a writing instruction until two tags are free, so the allocator    *)
(* never runs dry.  When it does, the stage still writes the rename table  *)
(* and the DP/SW register while it stalls, and the properties below fail.  *)
FreeAfterEdge == freenum + Bit(commit_1) - Bit(id.wr_reg)

Headroom(next) == next.wr_reg => FreeAfterEdge >= 2

PacedIdle(next) == Headroom(next) /\ CycleIdle(next)

PacedFinish(next, t, d) == Headroom(next) /\ CycleFinish(next, t, d)

PacedNext == \E next \in Fetchable :
               \/ PacedIdle(next)
               \/ \E t \in Tags, d \in Data : PacedFinish(next, t, d)

PacedSpec == Init /\ [][PacedNext]_vars

-----------------------------------------------------------------------------
(* Safety for every stream.                                                *)

(* Every register of the two units holds a value of its width.             *)
TypeOK == DispatchTypeOK /\ RobTypeOK

(* The allocator counts tags and the ROB moves a pointer; nothing compares *)
(* the two.  They must agree: the next tag is as far ahead of the commit   *)
(* pointer as there are tags in use, so the ring never slips by one.       *)
TagRing ==
  rrfptr = IF commit_ptr_1 + InUse > NumTags
           THEN commit_ptr_1 + InUse - NumTags ELSE commit_ptr_1 + InUse

(* valid and finish are left behind when an entry commits and are reset a  *)
(* cycle after the tag is handed out again: in between, neither a free tag *)
(* nor one whose new owner is still in the DP/SW register may look done,   *)
(* or the head would commit an instruction that was never executed.        *)
NoPhantomCommit ==
  \A t \in Tags : valid[t] /\ finish[t] => InFlight(t) /\ ~InLatch(t)

(* A tag is handed out only when its previous owner has left the ROB or    *)
(* leaves it on this very edge.                                            *)
NoEarlyReuse ==
  id.wr_reg /\ ~StallDP(commit_1) =>
    \/ ~InFlight(rrfptr)
    \/ commit_1 /\ rrfptr = commit_ptr_1

-----------------------------------------------------------------------------
(* Correctness of the renaming, for a paced stream.                        *)
Destination(t) == IF InLatch(t) THEN dp.ctl.rd ELSE dst[t]

Writers(r) == {t \in Tags : InFlight(t) /\ Destination(t) = r}

IsYoungest(t, S) == t \in S /\ \A u \in S : Offset(u) <= Offset(t)

(* A register is busy exactly while an instruction in flight writes it,    *)
(* and it then names the youngest one: a commit must not free a register   *)
(* that was renamed again, in an earlier cycle or in the same one.         *)
RenameTable ==
  \A r \in Regs :
    /\ arf_busy[r] <=> Writers(r) # {}
    /\ arf_busy[r] => IsYoungest(arf_rrftag[r], Writers(r))

(* An RRF entry is valid exactly from the result of its owner to the       *)
(* owner's commit: a stale valid bit would hand the previous owner's value *)
(* to a consumer of the new one, and a lost one would starve it.           *)
RrfFollowsOwner ==
  \A t \in Tags :
    rrf_valid[t] <=> InFlight(t) /\ ~InLatch(t) /\ finish[t]

(* What the operand of a renamed instruction must be: the zero register,   *)
(* the architectural value when nobody in flight writes the register, the  *)
(* youngest writer's result if it is there by this edge, or else the tag   *)
(* under which that result will be broadcast.                              *)
IsOperand(r, src, rdy) ==
  \/ r = 0 /\ rdy /\ src = 0
  \/ r # 0 /\ Writers(r) = {} /\ rdy /\ src = arf_data[r]
  \/ /\ r # 0
     /\ \E w \in Tags :
          /\ IsYoungest(w, Writers(r))
          /\ rdy = (finish'[w] /\ ~InLatch(w))
          /\ src = IF rdy THEN rrf_data'[w] ELSE w

(* Both operands loaded into the DP/SW register are the right ones,        *)
(* whatever finishes, commits or is renamed on the same edge.              *)
OperandSound ==
  [][/\ IsOperand(id.rs1, dp'.src1, dp'.rdy1)
     /\ IsOperand(id.rs2, dp'.src2, dp'.rdy2)]_vars

(* The window of the abstract machine: the instructions in flight in the   *)
(* order of their tags.                                                    *)
TagAt(k) == IF commit_ptr_1 + k - 1 > NumTags
            THEN commit_ptr_1 + k - 1 - NumTags ELSE commit_ptr_1 + k - 1

InOrderWindow ==
  [k \in 1..InUse |->
     LET t == TagAt(k)
         done == finish[t] /\ ~InLatch(t)
     IN [rd |-> Destination(t), done |-> done,
         value |-> IF done THEN rrf_data[t] ELSE 0]]

Abstract == INSTANCE ProgramOrder WITH arch <- arf_data, window <- InOrderWindow

(* The two units implement the in-order machine of ProgramOrder: results   *)
(* arrive in any order and reach the registers in program order.           *)
ImplementsProgramOrder == Abstract!Spec
=============================================================================
