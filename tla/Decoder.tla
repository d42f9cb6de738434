------------------------------- MODULE Decoder -------------------------------
(***************************************************************************)
(* rtl/core/ID/Decoder.v: the control word of an instruction.  The model   *)
(* keeps what later stages act on: the register fields, the write-back     *)
(* bit, the reservation station and the operand selection.  Extraction of  *)
(* the fields from the 32-bit word is left out: an instruction is a record *)
(* of its fields, and imm is the immediate ImmDecoder.v builds.            *)
(***************************************************************************)
EXTENDS Consts

CONSTANTS
  Program,         \* the instructions the fetch stage may deliver
  Fn,              \* the ALU functions funct3/funct7 can select
  AluFn(_, _, _)   \* Alu.v: the result of a function on two operands

Opcode == {"LOAD", "STORE", "JAL", "JALR", "LUI", "AUIPC", "OP", "OP_IMM",
           "other"}

Instruction == [opcode: Opcode, rd: Regs, rs1: Regs, rs2: Regs,
                imm: Data, pc: Data, fn: Fn]

ASSUME ProgramAssumption == Program \subseteq Instruction
ASSUME FnAssumption      == "ADD" \in Fn
ASSUME AluAssumption     ==
  \A f \in Fn, a, b \in Operand : AluFn(f, a, b) \in Data

(* The control fields that are tables over the opcode.  An opcode outside  *)
(* the eight known ones gets all-zero control: it writes nothing and asks  *)
(* for no reservation station (BRANCH and SYSTEM are such opcodes).        *)
wr_reg(i) == i.opcode \notin {"STORE", "other"}

rs_ent(i) == CASE i.opcode \in {"LOAD", "STORE"} -> "LDST"
               [] i.opcode \in {"JAL", "JALR"}   -> "BRANCH"
               [] i.opcode = "other"             -> "none"
               [] OTHER                          -> "ALU"

src_a_sel(i) == CASE i.opcode \in {"JAL", "JALR", "AUIPC"} -> "PC"
                  [] i.opcode = "LUI"                      -> "ZERO"
                  [] OTHER                                 -> "RS1"

src_b_sel(i) == CASE i.opcode \in {"JAL", "JALR"}   -> "FOUR"
                  [] i.opcode \in {"OP", "other"}   -> "RS2"
                  [] OTHER                          -> "IMM"

alu_op(i) == IF i.opcode \in {"OP", "OP_IMM"} THEN i.fn ELSE "ADD"

(* The register fields are passed on whether or not the opcode uses them.  *)
Decode(i) == [wr_reg |-> wr_reg(i), rs_ent |-> rs_ent(i), rd |-> i.rd,
              rs1 |-> i.rs1, rs2 |-> i.rs2, imm |-> i.imm, pc |-> i.pc,
              src_a |-> src_a_sel(i), src_b |-> src_b_sel(i),
              alu_op |-> alu_op(i)]

Control == [wr_reg: BOOLEAN, rs_ent: {"ALU", "BRANCH", "LDST", "none"},
            rd: Regs, rs1: Regs, rs2: Regs, imm: Data, pc: Data,
            src_a: {"RS1", "PC", "ZERO"}, src_b: {"RS2", "IMM", "FOUR"},
            alu_op: Fn]

(* The word the pipeline holds after reset and when the fetch is killed:   *)
(* all zeros, decoded like an unknown opcode.                              *)
Bubble == [wr_reg |-> FALSE, rs_ent |-> "none", rd |-> 0, rs1 |-> 0,
           rs2 |-> 0, imm |-> 0, pc |-> 0, src_a |-> "RS1", src_b |-> "RS2",
           alu_op |-> "ADD"]

-----------------------------------------------------------------------------
(* The operands and result of the ALU: rtl/core/EX/SrcSelect.v, AluUnit.v. *)
(* Four is the link offset; only JAL and JALR select it, and those never   *)
(* reach the ALU station, so it is taken as 0 here.                        *)
SrcA(c, op1) == CASE c.src_a = "RS1" -> op1
                  [] c.src_a = "PC"  -> c.pc
                  [] OTHER           -> 0

SrcB(c, op2) == CASE c.src_b = "RS2" -> op2
                  [] c.src_b = "IMM" -> c.imm
                  [] OTHER           -> 0

AluResult(c, op1, op2) == AluFn(c.alu_op, SrcA(c, op1), SrcB(c, op2))
=============================================================================
