----------------------------- MODULE BranchUnit -----------------------------
(***************************************************************************)
(* rtl/core/EX/BranchUnit.v over a word of any width: whether a branch or  *)
(* jump is taken, where to, and the link it writes; and what the RV32I     *)
(* manual says of the same instructions.                                   *)
(***************************************************************************)
EXTENDS Alu

VARIABLE branch_in    \* the inputs: [opcode, alu_op, src1, src2, pc, imm]

(* The operation of the comparator for a conditional branch.               *)
CompareOp == {"SEQ", "SNE", "SLT", "SGE", "SLTU", "SGEU"}

(* Mutant, for the checks only: an indirect jump starts from the pc.       *)
jump_addr_from_pc(b) == (b.pc + b.imm) % 2^Width

if_jump(b) ==
  b.opcode \in {"JAL", "JALR"} \/ out(b.alu_op, b.src1, b.src2) % 2 = 1

jump_addr(b) ==
  ((IF b.opcode = "JALR" THEN b.src1 ELSE b.pc) + b.imm) % 2^Width

jump_result(b) ==
  IF if_jump(b) THEN jump_addr(b) ELSE (b.pc + 4) % 2^Width

branch_result(b) == (b.pc + 4) % 2^Width

(* Instructions stand at multiples of four.  Jumps leave the operation of  *)
(* the comparator as it is for an addition, as the decoder does.           *)
Pcs == {x \in AluWord : x % 4 = 0}

BranchInit ==
  \/ branch_in \in [opcode: {"BRANCH"}, alu_op: CompareOp, src1: {0},
                    src2: AluWord, pc: {0, 2^Width - 4}, imm: {4, 2^Width - 2}]
  \/ branch_in \in [opcode: {"JAL", "JALR"}, alu_op: {"ADD"}, src1: {0},
                    src2: {0}, pc: Pcs, imm: AluWord]

(* The next first operand, up to the greatest.                             *)
BranchNext ==
  /\ branch_in.src1 + 1 \in AluWord
  /\ branch_in' = [branch_in EXCEPT !.src1 = @ + 1]

BranchSpec == BranchInit /\ [][BranchNext]_branch_in

-----------------------------------------------------------------------------
Taken(op, a, b) ==
  CASE op = "SEQ"  -> a = b
    [] op = "SNE"  -> a # b
    [] op = "SLT"  -> LessByMsb(a, b)
    [] op = "SGE"  -> ~LessByMsb(a, b)
    [] op = "SLTU" -> a < b
    [] op = "SGEU" -> a >= b

(* The address is a sum of signed numbers; an indirect jump clears its     *)
(* least significant bit.                                                  *)
IsSum(r, a, b) == (Signed(r) - Signed(a) - Signed(b)) % 2^Width = 0

IsaNextPc(b, r) ==
  CASE b.opcode = "JAL"  -> IsSum(r, b.pc, b.imm)
    [] b.opcode = "JALR" -> /\ 0 \notin BitsOf(r)
                            /\ IsSum(r, b.src1, b.imm) \/ IsSum(r + 1, b.src1, b.imm)
    [] OTHER -> IsSum(r, b.pc, IF Taken(b.alu_op, b.src1, b.src2)
                               THEN b.imm ELSE 4)

(* The next pc and the link are the instruction's for all operands, across *)
(* the sign and the end of the address space, with one exception: the unit *)
(* leaves the least significant bit of an indirect jump as it is.          *)
BranchMatchesIsa ==
  /\ IsSum(branch_result(branch_in), branch_in.pc, 4)
  /\ IsaNextPc(branch_in, jump_result(branch_in)) <=>
       ~(branch_in.opcode = "JALR" /\ (branch_in.src1 + branch_in.imm) % 2 = 1)
=============================================================================
