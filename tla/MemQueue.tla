------------------------------ MODULE MemQueue ------------------------------
(***************************************************************************)
(* What the memory reservation station promises: a queue of accesses.      *)
(* They enter in the order of their tags, up to two at a time, keep their  *)
(* place while their operands arrive, and leave at the front as soon as    *)
(* the front one has both.                                                 *)
(***************************************************************************)
EXTENDS Integers, Sequences

CONSTANTS
  NumTags,     \* the tags 1..NumTags are used in circular order
  Capacity     \* the accesses the queue can hold

VARIABLES
  queue,       \* [tag, op1, valid1, op2, valid2, ..], the oldest first
  next         \* the tag of the next access to enter

TagAfter(t, n) == ((t + n - 1) % NumTags) + 1

IsReady(a) == a.valid1 /\ a.valid2

(* An operand keeps its value once it has one.                             *)
Keeps(valid, op, valid_next, op_next) ==
  valid \/ ~valid_next => op_next = op /\ valid_next = valid

Same(a, b) ==
  /\ b.tag = a.tag /\ b.ctl = a.ctl
  /\ Keeps(a.valid1, a.op1, b.valid1, b.op1)
  /\ Keeps(a.valid2, a.op2, b.valid2, b.op2)

Init == queue = <<>> /\ next = 1

(* The accesses that are left when the front one has issued.               *)
Left == IF queue # <<>> /\ IsReady(Head(queue)) THEN Tail(queue) ELSE queue

Edge ==
  LET n == Len(queue') - Len(Left) IN
  /\ n \in 0..2 /\ Len(queue') <= Capacity
  /\ \A k \in DOMAIN Left : Same(Left[k], queue'[k])
  /\ \A k \in 1..n : queue'[Len(Left) + k].tag = TagAfter(next, k - 1)
  /\ next' = TagAfter(next, n)

Spec == Init /\ [][Edge]_<<queue, next>>
=============================================================================
