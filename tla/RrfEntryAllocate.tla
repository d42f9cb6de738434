-------------------------- MODULE RrfEntryAllocate --------------------------
(***************************************************************************)
(* rtl/core/DP/RrfEntryAllocate.v: the allocator of rename tags.  A tag is *)
(* at once the index of an RRF entry and of an ROB entry; tags are handed  *)
(* out in circular order 1, 2, .., NumTags, 1, .. and given back by the    *)
(* number of instructions the ROB commits, never by name.                  *)
(***************************************************************************)
EXTENDS Consts

VARIABLES
  freenum,      \* how many tags are free
  rrfptr,       \* the next tag to hand out
  nextrrfcyc    \* the last hand-out wrapped the ring

allocVars == <<freenum, rrfptr, nextrrfcyc>>

(* Mutants, for the checks only: the ring that does not skip tag 0, the    *)
(* request served as if a commit always came, the stall that is not wired. *)
NextTagPlain(t) == IF t = NumTags THEN 0 ELSE t + 1
RrfAllocatableAhead(req, com) == freenum + 1 >= Bit(req)
AllocClockUnstalled(req, com, stall) ==
  /\ freenum' = freenum + Bit(com) - Bit(req)
  /\ rrfptr' = IF req /\ rrfptr = NumTags THEN 1 ELSE rrfptr + Bit(req)
  /\ nextrrfcyc' = (rrfptr' < rrfptr)

(* The successor of a tag: the counter skips the reserved tag 0.           *)
NextTag(t) == IF t = NumTags THEN 1 ELSE t + 1

(* Wire rrf_allocatable_o: the tag requested this cycle (req) can be       *)
(* served, counting the one that commits in the same cycle (com).          *)
RrfAllocatable(req, com) == freenum + Bit(com) >= Bit(req)

AllocInit ==
  /\ freenum = NumTags
  /\ rrfptr = 1
  /\ nextrrfcyc = FALSE

AllocStall(com) ==
  /\ freenum' = freenum + Bit(com)
  /\ nextrrfcyc' = FALSE
  /\ UNCHANGED rrfptr

AllocRun(req, com) ==
  LET next == IF req THEN NextTag(rrfptr) ELSE rrfptr IN
  /\ freenum' = freenum + Bit(com) - Bit(req)
  /\ rrfptr' = next
  /\ nextrrfcyc' = (rrfptr > next)

(* One rising clock edge.                                                  *)
AllocClock(req, com, stall) ==
  IF stall THEN AllocStall(com) ELSE AllocRun(req, com)

AllocTypeOK ==
  /\ freenum \in 0..NumTags
  /\ rrfptr \in Tags
  /\ nextrrfcyc \in BOOLEAN
=============================================================================
