-------------------------------- MODULE Alu --------------------------------
(***************************************************************************)
(* rtl/core/EX/Alu.v over a word of any power of two of bits, and what the *)
(* RV32I manual says of its operations, bit by bit.                        *)
(***************************************************************************)
EXTENDS Integers, FiniteSetsExt

CONSTANT Width     \* DATA_LEN

ASSUME WidthAssumption == Width \in {2, 4, 8, 16, 32}

VARIABLE alu_in    \* the inputs: [op, in1, in2]

AluOp == {"ADD", "SLL", "XOR", "OR", "AND", "SRL", "SEQ", "SNE", "SUB", "SRA",
          "SLT", "SGE", "SLTU", "SGEU"}

AluWord == 0..(2^Width - 1)
BitsOf(x) == {i \in 0..(Width - 1) : (x \div 2^i) % 2 = 1}
WordOf(bits) == MapThenSumSet(LAMBDA i : 2^i, bits)
Signed(x) == IF x >= 2^(Width - 1) THEN x - 2^Width ELSE x
Flag(b) == IF b THEN 1 ELSE 0

(* Mutant, for the checks only: a comparison that is not signed.           *)
LessUnsigned(in1, in2) == in1 < in2

Less(in1, in2) == Signed(in1) < Signed(in2)

(* The amount of a shift: the low bits of the second operand.              *)
shamt(in2) == in2 % Width

(* The chain of conditional operators.  Its arms are extended to one type, *)
(* and since the others are unsigned $signed(in1) >>> shamt is too: it     *)
(* shifts in zeros.  The comparisons stand in concatenations, whose        *)
(* operands keep their sign.                                               *)
out(op, in1, in2) ==
  CASE op = "ADD"  -> (in1 + in2) % 2^Width
    [] op = "SUB"  -> (in1 - in2) % 2^Width
    [] op = "SLL"  -> (in1 * 2^shamt(in2)) % 2^Width
    [] op \in {"SRL", "SRA"} -> in1 \div 2^shamt(in2)
    [] op = "XOR"  -> WordOf((BitsOf(in1) \cup BitsOf(in2))
                             \ (BitsOf(in1) \cap BitsOf(in2)))
    [] op = "OR"   -> WordOf(BitsOf(in1) \cup BitsOf(in2))
    [] op = "AND"  -> WordOf(BitsOf(in1) \cap BitsOf(in2))
    [] op = "SEQ"  -> Flag(in1 = in2)
    [] op = "SNE"  -> Flag(in1 # in2)
    [] op = "SLT"  -> Flag(Less(in1, in2))
    [] op = "SGE"  -> Flag(~Less(in1, in2))
    [] op = "SLTU" -> Flag(in1 < in2)
    [] op = "SGEU" -> Flag(in1 >= in2)

AluInit == alu_in \in [op: AluOp, in1: {0}, in2: AluWord]

(* The next first operand, up to the greatest.                             *)
AluNext ==
  /\ alu_in.in1 + 1 \in AluWord
  /\ alu_in' = [alu_in EXCEPT !.in1 = @ + 1]

AluSpec == AluInit /\ [][AluNext]_alu_in

-----------------------------------------------------------------------------
(* The bits of a shift as the manual describes it, from the bit fill on.   *)
ShiftedLeft(r, a, n) ==
  \A i \in 0..(Width - 1) : i \in BitsOf(r) <=> i - n \in BitsOf(a)
ShiftedRight(r, a, n, fill) ==
  \A i \in 0..(Width - 1) :
    i \in BitsOf(r) <=> IF i + n < Width THEN i + n \in BitsOf(a) ELSE fill

(* Two's complement: operands of one sign compare as they stand.           *)
LessByMsb(a, b) ==
  LET msb(x) == Width - 1 \in BitsOf(x)
  IN  IF msb(a) = msb(b) THEN a < b ELSE msb(a)

IsaResult(op, a, b, r) ==
  CASE op = "ADD"  -> (Signed(r) - Signed(a) - Signed(b)) % 2^Width = 0
    [] op = "SUB"  -> (Signed(r) + Signed(b) - Signed(a)) % 2^Width = 0
    [] op = "SLL"  -> ShiftedLeft(r, a, b % Width)
    [] op = "SRL"  -> ShiftedRight(r, a, b % Width, FALSE)
    [] op = "SRA"  -> ShiftedRight(r, a, b % Width, Signed(a) < 0)
    [] op = "XOR"  -> \A i \in 0..(Width - 1) :
                        i \in BitsOf(r) <=> (i \in BitsOf(a)) # (i \in BitsOf(b))
    [] op = "OR"   -> BitsOf(r) = BitsOf(a) \cup BitsOf(b)
    [] op = "AND"  -> BitsOf(r) = BitsOf(a) \cap BitsOf(b)
    [] op \in {"SEQ", "SNE"}   -> (r = 1) = ((a = b) = (op = "SEQ"))
    [] op \in {"SLTU", "SGEU"} -> (r = 1) = ((a < b) = (op = "SLTU"))
    [] op \in {"SLT", "SGE"}   -> (r = 1) = (LessByMsb(a, b) = (op = "SLT"))

(* Every operation is the instruction's, for every pair of operands, with  *)
(* one exception: the arithmetic shift of a negative operand by one or     *)
(* more.                                                                   *)
AluMatchesIsa ==
  LET r == out(alu_in.op, alu_in.in1, alu_in.in2) IN
  IsaResult(alu_in.op, alu_in.in1, alu_in.in2, r) <=>
    ~(alu_in.op = "SRA" /\ Signed(alu_in.in1) < 0 /\ shamt(alu_in.in2) > 0)
=============================================================================
