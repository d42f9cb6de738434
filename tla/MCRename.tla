------------------------------- MODULE MCRename -------------------------------
(***************************************************************************)
(* RenameCommit on a small core.  The program rewrites one register, reads *)
(* it as either operand and writes the zero register; the bubble stands    *)
(* for the instructions without a destination.  Both operand ports meet    *)
(* every state of a renamed register.                                      *)
(***************************************************************************)
EXTENDS RenameCommit

Insn(op, rd, rs1, rs2) ==
  [opcode |-> op, rd |-> rd, rs1 |-> rs1, rs2 |-> rs2,
   imm |-> 0, pc |-> 0, fn |-> "ADD"]

MCProgram == {Insn("OP", 1, 1, 0), Insn("OP", 0, 0, 1)}

MCAlu(f, a, b) == 0
=============================================================================
