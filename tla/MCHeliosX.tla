------------------------------ MODULE MCHeliosX ------------------------------
(***************************************************************************)
(* HeliosX on a small core.  Each program has an instruction that needs    *)
(* its own last result twice and one that needs nothing, both for the same *)
(* register: chains wait while younger writers of it overtake them.        *)
(***************************************************************************)
EXTENDS HeliosXInv

(* What the theorems about the core assume holds of every program and size *)
(* here.                                                                   *)
ASSUME CoreAssumption == AluProgram /\ RingCovers

Insn(op, rd, rs, imm) ==
  [opcode |-> op, rd |-> rd, rs1 |-> rs, rs2 |-> rs,
   imm |-> imm, pc |-> 0, fn |-> "AND"]

(* Every result differs from the operand it was computed from: a value of  *)
(* an older or a younger writer is told from the right one.                *)
MCProgram == {Insn("OP", 1, 1, 0), Insn("OP_IMM", 1, 0, 1)}

MCNor(f, a, b) == IF a = 0 /\ b = 0 THEN 1 ELSE 0

(* A larger core, whose state space allows one right value only: 9, which  *)
(* is no tag.  The chain keeps it if it gets it in both operands, the      *)
(* other instruction (LUI 9) creates it; everything else becomes 0.        *)
MCKeepProgram == {Insn("OP", 1, 1, 0), Insn("LUI", 1, 0, 9)}

MCKeep(f, a, b) == IF b = 9 /\ (f = "ADD" \/ a = 9) THEN 9 ELSE 0

(* The registers start with it, whatever the power-up left in them.        *)
MCKeepInit == CoreInit /\ arf_data = [r \in Regs |-> 9]

MCKeepSpareSpec == MCKeepInit /\ [][CoreNext(1)]_coreVars

MCKeepFairSpec == MCKeepSpareSpec /\ ClockRuns
=============================================================================
