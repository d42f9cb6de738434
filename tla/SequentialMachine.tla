-------------------------- MODULE SequentialMachine --------------------------
(***************************************************************************)
(* What the core promises a program: its instructions take effect on the   *)
(* registers one after the other, each reading what the ones before it     *)
(* wrote.  Renaming, stations, tags, forwarding and the order of issue are *)
(* not mentioned.                                                          *)
(***************************************************************************)
EXTENDS Decoder, Sequences

VARIABLES
  regs,      \* the architectural registers
  pending    \* the writing instructions accepted and not yet executed

Init == regs \in [Regs -> Data] /\ pending = <<>>

Read(r) == IF r = 0 THEN 0 ELSE regs[r]

(* The next instruction of the program is executed.                        *)
Execute(c) ==
  regs' = [regs EXCEPT ![c.rd] = AluResult(c, Read(c.rs1), Read(c.rs2))]

Accepted(q) == {q} \cup {Append(q, c) : c \in {Decode(i) : i \in Program}}

Next ==
  \/ UNCHANGED regs /\ pending' \in Accepted(pending)
  \/ /\ pending # <<>>
     /\ Execute(Head(pending))
     /\ pending' \in Accepted(Tail(pending))

Spec == Init /\ [][Next]_<<regs, pending>>
=============================================================================
