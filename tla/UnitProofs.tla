----------------------------- MODULE UnitProofs -----------------------------
(***************************************************************************)
(* Proofs about the units in front of and beside the ALU path: the fetch   *)
(* stage, for every program in memory, every size of the ring of tags and  *)
(* every pattern of stalls, and the arithmetic of the branch unit and the  *)
(* ALU, for every width of a word.                                         *)
(***************************************************************************)
EXTENDS MCUnits, RenameCommitProofs, MemoryProofs

(* A word and its address wherever the two are side by side: at the answer *)
(* of the memory and at the output of the fetch stage.                     *)
Beside(word, a) == word \in Control /\ (word.wr_reg => word.imm = a)

AddressInv ==
  /\ Beside(fetched, pc_t) /\ Beside(inst_o, pc_id)
  /\ PcOf(id) /\ PcOf(dp.ctl)

(* The zero word is beside any address.                                    *)
LEMMA BubbleBesideAny == \A a : Beside(Bubble, a) /\ PcOf(Bubble)
BY FnAssumption, DataAssumption, NumRegsAssumption
DEF Beside, PcOf, Bubble, Control, Regs

(* What the memory answers with is beside its address.                     *)
LEMMA WordBesideAddress == \A a : Beside(WordAt(a), a)
BY BubbleBesideAny, ProgramInMemory DEF WordAt, Beside

(* The decoder joins the two.                                              *)
LEMMA DecodedIsJoined == Beside(inst_o, pc_id) => PcOf(Decoded)
BY DEF Beside, PcOf, Decoded, Control

(* After the reset there is nothing on the way.                            *)
LEMMA InitAddress == FrontInit => AddressInv
BY BubbleBesideAny
DEF FrontInit, FetchInit, IfInit, Init, DispatchInit, AddressInv

(* A stall holds the instruction in front of the dispatch stage and kills  *)
(* the one behind it; the delay registers run on.                          *)
LEMMA CycleInv == ASSUME AddressInv, NEW exe, FrontCycle(exe) PROVE AddressInv'
<1>1. Beside(fetched, pc_t)'
  BY WordBesideAddress DEF FrontCycle, FetchClock, Beside
<1>2. Beside(inst_o, pc_id)'
  BY BubbleBesideAny DEF AddressInv, FrontCycle, FetchClock, IfClock, Beside
<1>3. PcOf(id)' /\ PcOf(dp.ctl)'
  <2>1. /\ id' = id \/ id' = Decoded
        /\ dp'.ctl = id
    BY DEF FrontCycle, Clock, DispatchClock
  <2>2. PcOf(id) /\ PcOf(Decoded)
    BY DecodedIsJoined DEF AddressInv
  <2> QED
    BY <2>1, <2>2 DEF PcOf
<1> QED
  BY <1>1, <1>2, <1>3 DEF AddressInv

(* Whatever is in front of, in and behind the dispatch stage carries the   *)
(* address it was fetched from.                                            *)
THEOREM PcCorrect == FrontSpec => []PcFollowsInstruction
<1>1. AddressInv /\ [FrontNext]_frontVars => AddressInv'
  <2>1. ASSUME AddressInv, FrontNext PROVE AddressInv'
    BY <2>1, CycleInv DEF FrontNext
  <2>2. ASSUME AddressInv, UNCHANGED frontVars PROVE AddressInv'
    BY <2>2 DEF AddressInv, Beside, PcOf, frontVars, vars, dpVars, fetchVars, ifVars
  <2> QED
    BY <2>1, <2>2
<1>2. AddressInv => PcFollowsInstruction
  BY DecodedIsJoined DEF AddressInv, PcFollowsInstruction
<1> QED
  BY <1>1, <1>2, InitAddress, PTL DEF FrontSpec

-----------------------------------------------------------------------------
(* The order of the instructions.  Between the address on its way to the   *)
(* memory and the dispatch stage there are three registers, each with an   *)
(* instruction or nothing in it; FirstFrom(a) is the first instruction     *)
(* that fetching from a on brings, and AfterInst and AfterId are the first *)
(* ones still to come behind inst_o and behind id.                         *)
FirstFrom(a) == IF a \in DOMAIN Image THEN a ELSE EntryPoint

AfterInst == IF fetched.wr_reg THEN fetched.imm ELSE FirstFrom(npc_o)

AfterId == IF inst_o.wr_reg THEN inst_o.imm ELSE AfterInst

(* Each instruction in a register is followed by the one behind it in the  *)
(* program, and the first of them all is the one expected.                 *)
Chain ==
  /\ fetched.wr_reg => FirstFrom(npc_o) = Behind(fetched.imm)
  /\ inst_o.wr_reg => AfterInst = Behind(inst_o.imm)
  /\ id.wr_reg => AfterId = Behind(id.imm) /\ id.imm = expected
  /\ ~id.wr_reg => AfterId = expected

(* Both fetch addresses go together as long as nothing stalls.             *)
OrderInv ==
  /\ fetched \in Control /\ inst_o \in Control
  /\ pc \in 0..(AddressSpace - 1) /\ npc_o \in 0..(AddressSpace - 1)
  /\ ~stalled => pc = npc_o /\ Chain

(* Fetching from an address outside the program brings what fetching from  *)
(* the next one does: the entry point, beyond the zeros.                   *)
LEMMA SkipsZeros ==
  ASSUME NEW a \in 0..(AddressSpace - 1)
  PROVE  /\ (a + 4) % AddressSpace \in 0..(AddressSpace - 1)
         /\ a \notin DOMAIN Image =>
              FirstFrom((a + 4) % AddressSpace) = FirstFrom(a)
         /\ FirstFrom((a + 4) % AddressSpace) = Behind(a)
<1>1. (a + 4) % AddressSpace \in 0..(AddressSpace - 1)
  BY AddressAssumption
<1>2. ASSUME a \notin DOMAIN Image
      PROVE  FirstFrom((a + 4) % AddressSpace) = FirstFrom(a)
  BY <1>2, ProgramIsOneBlock DEF FirstFrom
<1> QED
  BY <1>1, <1>2 DEF FirstFrom, Behind

(* What the memory answers with.                                           *)
LEMMA WordIs ==
  ASSUME NEW a
  PROVE  /\ WordAt(a) \in Control
         /\ WordAt(a).wr_reg <=> a \in DOMAIN Image
         /\ a \in DOMAIN Image => WordAt(a).imm = a
<1>1. Bubble \in Control /\ ~Bubble.wr_reg
  BY BubbleBesideAny DEF Beside, Bubble
<1> QED
  BY <1>1, ProgramInMemory DEF WordAt

(* After the reset the entry point is on its way and expected.             *)
LEMMA InitOrder == FrontInit => OrderInv
<1>1. Bubble \in Control /\ ~Bubble.wr_reg
  BY BubbleBesideAny DEF Beside, Bubble
<1> QED
  BY <1>1, AddressAssumption
  DEF FrontInit, FetchInit, IfInit, Init, DispatchInit, OrderInv, Chain,
      AfterInst, AfterId, FirstFrom

(* Without a stall every register takes over the one in front of it, so    *)
(* the chain moves on by one; after a stall nothing is claimed.            *)
LEMMA CycleOrder == ASSUME OrderInv, NEW exe, FrontCycle(exe) PROVE OrderInv'
<1>1. Bubble \in Control
  BY BubbleBesideAny DEF Beside
<1>2. fetched' = WordAt(npc_o) /\ fetched' \in Control
  BY WordIs DEF FrontCycle, FetchClock
<1>3. inst_o' \in Control
  BY <1>1 DEF OrderInv, FrontCycle, FetchClock, IfClock
<1>4. /\ pc' = (pc + 4) % AddressSpace
      /\ npc_o' = IF StallDP(commit_1) THEN pc ELSE pc'
  BY DEF FrontCycle, FetchClock, IfClock, npc
<1>5. pc' \in 0..(AddressSpace - 1) /\ npc_o' \in 0..(AddressSpace - 1)
  BY <1>4, SkipsZeros DEF OrderInv
<1>6. ASSUME ~stalled'
      PROVE  pc' = npc_o' /\ Chain'
  <2>1. ~stalled /\ ~StallDP(commit_1)
    BY <1>6 DEF FrontCycle
  <2>2. pc = npc_o /\ Chain
    BY <2>1 DEF OrderInv
  <2>3. npc_o' = (npc_o + 4) % AddressSpace /\ pc' = npc_o'
    BY <1>4, <2>1, <2>2
  <2>4. /\ inst_o' = fetched
        /\ id' = Decoded
        /\ expected' = IF id.wr_reg THEN Behind(id.imm) ELSE expected
    BY <2>1 DEF FrontCycle, FetchClock, IfClock, Clock, DispatchClock
  <2>5. /\ id'.wr_reg = inst_o.wr_reg
        /\ id'.imm = inst_o.imm
    BY <2>4 DEF Decoded, OrderInv, Control
  <2>6. AfterInst' = FirstFrom(npc_o)
    BY <1>2, <2>3, SkipsZeros, WordIs DEF AfterInst, FirstFrom, OrderInv
  <2>7. AfterId' = AfterInst
    BY <2>4, <2>6 DEF AfterId, AfterInst
  <2>8. fetched'.wr_reg => FirstFrom(npc_o)' = Behind(fetched'.imm)
    BY <1>2, <2>3, SkipsZeros, WordIs DEF FirstFrom, OrderInv
  <2>9. inst_o'.wr_reg => AfterInst' = Behind(inst_o'.imm)
    BY <2>2, <2>4, <2>6 DEF Chain
  <2>10. expected' = AfterId
    BY <2>2, <2>4 DEF Chain
  <2>11. /\ id'.wr_reg => AfterId' = Behind(id'.imm) /\ id'.imm = expected'
         /\ ~id'.wr_reg => AfterId' = expected'
    BY <2>2, <2>5, <2>7, <2>10 DEF Chain, AfterId
  <2> QED
    BY <2>3, <2>8, <2>9, <2>11 DEF Chain, Behind
<1> QED
  BY <1>2, <1>3, <1>5, <1>6 DEF OrderInv

(* Until the first stall the instructions are renamed in the order of the  *)
(* program, none of them lost, repeated or overtaken on its way through    *)
(* the memory and the registers of the fetch stage.                        *)
THEOREM FetchOrderCorrect == FrontSpec => []InOrderUntilStall
<1>1. OrderInv /\ [FrontNext]_frontVars => OrderInv'
  <2>1. ASSUME OrderInv, FrontNext PROVE OrderInv'
    BY <2>1, CycleOrder DEF FrontNext
  <2>2. ASSUME OrderInv, UNCHANGED frontVars PROVE OrderInv'
    BY <2>2 DEF OrderInv, Chain, AfterInst, AfterId, FirstFrom, Behind,
                frontVars, vars, dpVars, fetchVars, ifVars
  <2> QED
    BY <2>1, <2>2
<1>2. OrderInv => InOrderUntilStall
  BY DEF OrderInv, Chain, InOrderUntilStall, InProgramOrder
<1> QED
  BY <1>1, <1>2, InitOrder, PTL DEF FrontSpec

-----------------------------------------------------------------------------
(* The arithmetic of the ALU and of the branch unit.  A word of each width *)
(* has twice as many values as there are below its sign bit.               *)
Half == 2^(Width - 1)

Halves == {2, 8, 128, 32768, 2147483648}

(* Half is one of five numbers and the half of the values of a word.       *)
LEMMA Words == Half \in Halves /\ 2^Width = 2 * Half /\ Width \in Nat \ {0}
<1>1. CASE Width = 2
  <2>1. Half = 2^1 /\ 2^1 = 2 /\ 2^2 = 4
    BY <1>1 DEF Half
  <2> QED
    BY <1>1, <2>1 DEF Halves
<1>2. CASE Width = 4
  <2>1. Half = 2^3 /\ 2^3 = 8 /\ 2^4 = 16
    BY <1>2 DEF Half
  <2> QED
    BY <1>2, <2>1 DEF Halves
<1>3. CASE Width = 8
  <2>1. Half = 2^7 /\ 2^7 = 128 /\ 2^8 = 256
    BY <1>3 DEF Half
  <2> QED
    BY <1>3, <2>1 DEF Halves
<1>4. CASE Width = 16
  <2>1. Half = 2^15 /\ 2^15 = 32768 /\ 2^16 = 65536
    BY <1>4 DEF Half
  <2> QED
    BY <1>4, <2>1 DEF Halves
<1>5. CASE Width = 32
  <2>1. Half = 2^31 /\ 2^31 = 2147483648 /\ 2^32 = 4294967296
    BY <1>5 DEF Half
  <2> QED
    BY <1>5, <2>1 DEF Halves
<1> QED
  BY <1>1, <1>2, <1>3, <1>4, <1>5, WidthAssumption

(* A word as a signed number.                                              *)
LEMMA SignedIs ==
  ASSUME NEW x \in Int
  PROVE  /\ Signed(x) \in Int
         /\ Signed(x) = IF x >= Half THEN x - 2 * Half ELSE x
BY Words DEF Signed, Half, Halves

(* A sum of signed numbers is one of the words, whatever their signs.      *)
LEMMA SignedSum ==
  ASSUME NEW r \in Int, NEW a \in Int, NEW b \in Int
  PROVE  /\ (Signed(r) - Signed(a) - Signed(b)) % 2^Width = 0
              <=> (r - a - b) % 2^Width = 0
         /\ (Signed(r) + Signed(b) - Signed(a)) % 2^Width = 0
              <=> (r + b - a) % 2^Width = 0
<1>1. PICK h \in Halves : Half = h /\ 2^Width = 2 * h
  BY Words
<1>2. PICK i \in 0..1, j \in 0..1, k \in 0..1 :
        /\ Signed(r) = r - i * (2 * h)
        /\ Signed(a) = a - j * (2 * h)
        /\ Signed(b) = b - k * (2 * h)
  <2>1. ASSUME NEW x \in Int PROVE \E n \in 0..1 : Signed(x) = x - n * (2 * h)
    <3>1. Signed(x) = x - 1 * (2 * h) \/ Signed(x) = x - 0 * (2 * h)
      BY <1>1, SignedIs DEF Halves
    <3> QED
      BY <3>1
  <2> QED
    BY <2>1
<1>3. ASSUME NEW d \in Int, NEW e \in Int, NEW n \in -3..3, e = d + n * (2 * h)
      PROVE  e % (2 * h) = 0 <=> d % (2 * h) = 0
  BY <1>3 DEF Halves
<1>4. /\ r - a - b \in Int /\ r + b - a \in Int
      /\ Signed(r) - Signed(a) - Signed(b) \in Int
      /\ Signed(r) + Signed(b) - Signed(a) \in Int
      /\ j + k - i \in -3..3 /\ j - i - k \in -3..3
  BY SignedIs
<1>5. /\ Signed(r) - Signed(a) - Signed(b) = r - a - b + (j + k - i) * (2 * h)
      /\ Signed(r) + Signed(b) - Signed(a) = r + b - a + (j - i - k) * (2 * h)
  BY <1>2 DEF Halves
<1> QED
  BY <1>1, <1>3, <1>4, <1>5

(* Comparing by the sign bits and comparing the signed numbers.            *)
LEMMA MsbCompares ==
  ASSUME NEW a \in AluWord, NEW b \in AluWord
  PROVE  LessByMsb(a, b) <=> Less(a, b)
<1>1. PICK h \in Halves : Half = h /\ 2^Width = 2 * h
  BY Words
<1>2. ASSUME NEW x \in AluWord
      PROVE  Width - 1 \in BitsOf(x) <=> x >= h
  <2>1. Width - 1 \in 0..(Width - 1)
    BY Words
  <2>2. Width - 1 \in BitsOf(x) <=> (x \div h) % 2 = 1
    BY <1>1, <2>1 DEF BitsOf, Half
  <2>3. x \in 0..(2 * h - 1)
    BY <1>1 DEF AluWord
  <2> QED
    BY <2>2, <2>3 DEF Halves
<1>3. \A x \in AluWord : Signed(x) = IF x >= h THEN x - 2 * h ELSE x
  BY <1>1, Words, SignedIs DEF AluWord, Halves
<1>4. a \in 0..(2 * h - 1) /\ b \in 0..(2 * h - 1)
  BY <1>1 DEF AluWord
<1> QED
  BY <1>2, <1>3, <1>4 DEF LessByMsb, Less, Halves

(* A word that is a sum or a difference, cut to its width.                 *)
LEMMA CutSum ==
  ASSUME NEW a \in Int, NEW b \in Int
  PROVE  /\ (a + b) % 2^Width \in Int
         /\ (((a + b) % 2^Width) - a - b) % 2^Width = 0
         /\ (a - b) % 2^Width \in Int
         /\ (((a - b) % 2^Width) + b - a) % 2^Width = 0
         /\ ((a + b) % 2^Width) % 2 = (a + b) % 2
<1>1. PICK h \in Halves : 2^Width = 2 * h
  BY Words
<1> QED
  BY <1>1 DEF Halves

(* The comparator decides a branch as the instruction says.                *)
LEMMA ComparatorIs ==
  ASSUME NEW op \in CompareOp, NEW a \in AluWord, NEW b \in AluWord
  PROVE  /\ out(op, a, b) \in {0, 1}
         /\ out(op, a, b) = 1 <=> Taken(op, a, b)
<1>1. LessByMsb(a, b) <=> Less(a, b)
  BY MsbCompares
<1>2. op = "SEQ" => /\ out(op, a, b) = Flag(a = b)
                    /\ Taken(op, a, b) <=> a = b
  BY DEF out, Taken
<1>3. op = "SNE" => /\ out(op, a, b) = Flag(a # b)
                    /\ Taken(op, a, b) <=> a # b
  BY DEF out, Taken
<1>4. op = "SLT" => /\ out(op, a, b) = Flag(Less(a, b))
                    /\ Taken(op, a, b) <=> Less(a, b)
  BY <1>1 DEF out, Taken
<1>5. op = "SGE" => /\ out(op, a, b) = Flag(~Less(a, b))
                    /\ Taken(op, a, b) <=> ~Less(a, b)
  BY <1>1 DEF out, Taken
<1>6. op = "SLTU" => /\ out(op, a, b) = Flag(a < b)
                     /\ Taken(op, a, b) <=> a < b
  BY DEF out, Taken
<1>7. op = "SGEU" => /\ out(op, a, b) = Flag(a >= b)
                     /\ Taken(op, a, b) <=> a >= b
  BY DEF out, Taken
<1> QED
  BY <1>2, <1>3, <1>4, <1>5, <1>6, <1>7 DEF CompareOp, Flag

(* Everything the branch unit can be given: the words of any width.        *)
BranchInputs ==
  [opcode: {"BRANCH"}, alu_op: CompareOp, src1: AluWord, src2: AluWord,
   pc: AluWord, imm: Nat]
  \cup
  [opcode: {"JAL", "JALR"}, alu_op: {"ADD"}, src1: AluWord, src2: AluWord,
   pc: AluWord, imm: Nat]

(* The branch unit is right about every input.                             *)
LEMMA BranchIsRight ==
  ASSUME branch_in \in BranchInputs
  PROVE  BranchMatchesIsa
<1> DEFINE b == branch_in
<1>1. /\ b.src1 \in AluWord /\ b.src2 \in AluWord
      /\ b.src1 \in Int /\ b.pc \in Int /\ b.imm \in Int
      /\ b.opcode \in {"BRANCH", "JAL", "JALR"}
  BY DEF BranchInputs, AluWord
<1>2. \A a \in Int, c \in Int : IsSum((a + c) % 2^Width, a, c)
  <2> SUFFICES ASSUME NEW a \in Int, NEW c \in Int
               PROVE  IsSum((a + c) % 2^Width, a, c)
    OBVIOUS
  <2>1. PICK r \in Int : r = (a + c) % 2^Width
    BY CutSum
  <2>2. (r - a - c) % 2^Width = 0
    BY <2>1, CutSum
  <2>3. IsSum(r, a, c)
    BY <2>2, SignedSum DEF IsSum
  <2> QED
    BY <2>1, <2>3
<1>3. IsSum(branch_result(b), b.pc, 4)
  <2>1. b.pc \in Int /\ 4 \in Int
    BY <1>1
  <2> QED
    BY <1>2, <2>1 DEF branch_result
<1>4. CASE b.opcode = "BRANCH"
  <2>1. b.alu_op \in CompareOp
    BY <1>4 DEF BranchInputs
  <2>2. if_jump(b) <=> Taken(b.alu_op, b.src1, b.src2)
    BY <1>1, <1>4, <2>1, ComparatorIs DEF if_jump
  <2>3. jump_result(b) = (b.pc + (IF Taken(b.alu_op, b.src1, b.src2)
                                  THEN b.imm ELSE 4)) % 2^Width
    BY <1>4, <2>2 DEF jump_result, jump_addr
  <2>4. IsaNextPc(b, jump_result(b))
    BY <1>1, <1>2, <1>4, <2>3 DEF IsaNextPc
  <2> QED
    BY <1>3, <1>4, <2>4 DEF BranchMatchesIsa
<1>5. CASE b.opcode = "JAL"
  <2>1. jump_result(b) = (b.pc + b.imm) % 2^Width
    BY <1>5 DEF jump_result, jump_addr, if_jump
  <2>2. IsaNextPc(b, jump_result(b))
    BY <1>1, <1>2, <1>5, <2>1 DEF IsaNextPc
  <2> QED
    BY <1>3, <1>5, <2>2 DEF BranchMatchesIsa
<1>6. CASE b.opcode = "JALR"
  <2>1. jump_result(b) = (b.src1 + b.imm) % 2^Width
    BY <1>6 DEF jump_result, jump_addr, if_jump
  <2>2. PICK r \in Int : r = (b.src1 + b.imm) % 2^Width
    BY <1>1, CutSum
  <2>3. IsSum(r, b.src1, b.imm)
    BY <1>1, <1>2, <2>2
  <2>4. 0 \in BitsOf(r) <=> (b.src1 + b.imm) % 2 = 1
    <3>1. 0 \in 0..(Width - 1) /\ 2^0 = 1
      BY Words
    <3>2. 0 \in BitsOf(r) <=> (r \div 1) % 2 = 1
      BY <3>1 DEF BitsOf
    <3>3. r \div 1 = r
      OBVIOUS
    <3>4. r % 2 = (b.src1 + b.imm) % 2
      BY <1>1, <2>2, CutSum
    <3> QED
      BY <3>2, <3>3, <3>4
  <2>5. IsaNextPc(b, r) <=> 0 \notin BitsOf(r)
    BY <1>6, <2>3 DEF IsaNextPc
  <2> QED
    BY <1>3, <1>6, <2>1, <2>2, <2>4, <2>5 DEF BranchMatchesIsa
<1> QED
  BY <1>1, <1>4, <1>5, <1>6

BranchTypeOK == branch_in \in BranchInputs

(* The inputs stay inputs.                                                 *)
LEMMA BranchInputsHold ==
  /\ BranchInit => BranchTypeOK
  /\ BranchTypeOK /\ [BranchNext]_branch_in => BranchTypeOK'
<1>1. /\ 0 \in AluWord /\ 2^Width - 4 \in AluWord
      /\ 4 \in Nat /\ 2^Width - 2 \in Nat /\ AluWord \subseteq Nat
      /\ Pcs \subseteq AluWord
  BY Words DEF AluWord, Halves, Pcs
<1>2. BranchInit => BranchTypeOK
  BY <1>1 DEF BranchInit, BranchInputs, BranchTypeOK
<1>3. ASSUME BranchTypeOK, BranchNext PROVE BranchTypeOK'
  BY <1>3 DEF BranchNext, BranchInputs, BranchTypeOK
<1>4. ASSUME BranchTypeOK, UNCHANGED branch_in PROVE BranchTypeOK'
  BY <1>4 DEF BranchTypeOK
<1> QED
  BY <1>2, <1>3, <1>4

(* The branch unit computes the next pc and the link of the RV32I manual   *)
(* for every word of every width, but for an indirect jump to an odd sum.  *)
THEOREM BranchCorrect == BranchSpec => []BranchMatchesIsa
<1>1. BranchTypeOK => BranchMatchesIsa
  BY BranchIsRight DEF BranchTypeOK
<1> QED
  BY <1>1, BranchInputsHold, PTL DEF BranchSpec

-----------------------------------------------------------------------------
(* Powers of two: nothing is known to the provers of 2^k but its value for *)
(* a number k, so the powers up to the widest word are tabled.             *)
Power == [k \in 0..32 |-> 2^k]

(* The table.                                                              *)
LEMMA PowerTable ==
  /\ Power[0] = 1 /\ Power[1] = 2 /\ Power[2] = 4 /\ Power[3] = 8
  /\ Power[4] = 16 /\ Power[5] = 32 /\ Power[6] = 64 /\ Power[7] = 128
  /\ Power[8] = 256 /\ Power[9] = 512 /\ Power[10] = 1024
  /\ Power[11] = 2048 /\ Power[12] = 4096 /\ Power[13] = 8192
  /\ Power[14] = 16384 /\ Power[15] = 32768 /\ Power[16] = 65536
  /\ Power[17] = 131072 /\ Power[18] = 262144 /\ Power[19] = 524288
  /\ Power[20] = 1048576 /\ Power[21] = 2097152 /\ Power[22] = 4194304
  /\ Power[23] = 8388608 /\ Power[24] = 16777216 /\ Power[25] = 33554432
  /\ Power[26] = 67108864 /\ Power[27] = 134217728 /\ Power[28] = 268435456
  /\ Power[29] = 536870912 /\ Power[30] = 1073741824
  /\ Power[31] = 2147483648 /\ Power[32] = 4294967296
BY DEF Power

(* What follows of exponents that vary.                                    *)
LEMMA Powers ==
  /\ \A k \in 0..32 : 2^k \in Nat \ {0}
  /\ \A k \in 0..31 : 2^(k + 1) = 2 * 2^k
  /\ \A m \in 0..32, n \in 0..32 : m + n \in 0..32 => 2^(m + n) = 2^m * 2^n
<1>1. \A k \in 0..32 : Power[k] = 2^k
  BY DEF Power
<1>2. \A k \in 0..32 : Power[k] \in Nat \ {0}
  BY PowerTable
<1>3. \A k \in 0..31 : k + 1 \in 0..32 /\ Power[k + 1] = 2 * Power[k]
  BY PowerTable
<1>4. ASSUME NEW m \in 0..32, NEW n \in 0..32, m + n \in 0..32
      PROVE  Power[m + n] = Power[m] * Power[n]
  BY <1>4, PowerTable, SMTT(60)
<1>5. ASSUME NEW k \in 0..31 PROVE 2^(k + 1) = 2 * 2^k
  <2>1. k \in 0..32 /\ k + 1 \in 0..32
    OBVIOUS
  <2> QED
    BY <1>1, <1>3, <2>1
<1>6. ASSUME NEW m \in 0..32, NEW n \in 0..32, m + n \in 0..32
      PROVE  2^(m + n) = 2^m * 2^n
  BY <1>1, <1>4, <1>6
<1> QED
  BY <1>1, <1>2, <1>5, <1>6

(* A word has at most 32 bits.                                             *)
LEMMA Positions ==
  /\ Width \in 1..32
  /\ \A x \in Nat, i \in 0..(Width - 1) :
       i \in BitsOf(x) <=> (x \div 2^i) % 2 = 1
  /\ AluWord \subseteq Nat
  /\ \A x \in AluWord : x < 2^Width
<1>1. Width \in 1..32
  BY WidthAssumption
<1>2. 2^Width \in Nat
  <2>1. Width \in 0..32
    BY <1>1
  <2> QED
    BY <2>1, Powers
<1> QED
  BY <1>1, <1>2 DEF BitsOf, AluWord

(* A quotient of a quotient is the one by the product.                     *)
LEMMA DivDiv ==
  ASSUME NEW x \in Nat, NEW p \in Nat \ {0}, NEW q \in Nat \ {0}
  PROVE  (x \div p) \div q = x \div (p * q)
OBVIOUS

(* A common factor cancels, ...                                            *)
LEMMA MulCancels ==
  ASSUME NEW x \in Nat, NEW p \in Nat \ {0}, NEW q \in Nat \ {0}
  PROVE  (x * p) \div (p * q) = x \div q
OBVIOUS

(* ... and so does the divisor.                                            *)
LEMMA MulDiv ==
  ASSUME NEW x \in Nat, NEW p \in Nat \ {0}, NEW q \in Nat \ {0}
  PROVE  (x * (p * q)) \div p = x * q
OBVIOUS

(* Cutting a number to its low bits leaves them alone.                     *)
LEMMA CutKeepsBit ==
  ASSUME NEW x \in Nat, NEW p \in Nat \ {0}, NEW q \in Nat \ {0}
  PROVE  ((x % (p * (2 * q))) \div p) % 2 = (x \div p) % 2
<1>1. PICK m \in Nat \ {0} : m = p * (2 * q)
  OBVIOUS
<1>2. PICK k \in Nat, r \in Nat : r = x % m /\ x = m * k + r
  <2>1. x \div m \in Nat /\ x % m \in Nat /\ x = m * (x \div m) + (x % m)
    OBVIOUS
  <2> QED
    BY <2>1
<1>3. PICK u \in Nat, v \in Nat : u = r \div p /\ r = p * u + v /\ v < p
  <2>1. /\ r \div p \in Nat /\ r % p \in Nat /\ r % p < p
        /\ r = p * (r \div p) + (r % p)
    OBVIOUS
  <2> QED
    BY <2>1
<1>4. x = p * (2 * (q * k) + u) + v
  <2>1. m * k = p * (2 * (q * k))
    BY <1>1
  <2>2. p * (2 * (q * k) + u) = p * (2 * (q * k)) + p * u
    OBVIOUS
  <2>3. PICK b \in Nat, c \in Nat : b = p * (2 * (q * k)) /\ c = p * u
    OBVIOUS
  <2>4. x = b + (c + v)
    BY <1>2, <1>3, <2>1, <2>3
  <2>5. p * (2 * (q * k) + u) = b + c
    BY <2>2, <2>3
  <2> QED
    BY <2>4, <2>5
<1>5. PICK w \in Nat : w = q * k
  OBVIOUS
<1>6. x \div p = 2 * w + u
  BY <1>3, <1>4, <1>5
<1>7. (2 * w + u) % 2 = u % 2
  OBVIOUS
<1> QED
  BY <1>1, <1>2, <1>3, <1>6, <1>7

(* A shift to the right moves the bits down and shifts in zeros.           *)
LEMMA RightShift ==
  ASSUME NEW a \in AluWord, NEW n \in 0..(Width - 1), NEW i \in 0..(Width - 1)
  PROVE  i \in BitsOf(a \div 2^n) <=> i + n < Width /\ i + n \in BitsOf(a)
<1>1. PICK p \in Nat \ {0}, q \in Nat \ {0} : p = 2^n /\ q = 2^i
  <2>1. n \in 0..32 /\ i \in 0..32
    BY Positions
  <2>2. 2^n \in Nat \ {0} /\ 2^i \in Nat \ {0}
    BY <2>1, Powers
  <2> QED
    BY <2>2
<1>2. a \in Nat /\ a < 2^Width /\ n \in 0..32 /\ i \in 0..32
  BY Positions
<1>3. i \in BitsOf(a \div p) <=> (a \div (p * q)) % 2 = 1
  <2>1. a \in Nat
    BY <1>2
  <2>2. a \div p \in Nat
    BY <2>1
  <2>3. (a \div p) \div q = a \div (p * q)
    BY <2>1, DivDiv
  <2> QED
    BY <1>1, <2>2, <2>3, Positions
<1>4. CASE i + n < Width
  <2>1. i + n \in 0..(Width - 1) /\ i + n \in 0..32
    BY <1>4, Positions
  <2>2. 2^(i + n) = q * p
    BY <1>1, <1>2, <2>1, Powers
  <2>3. q * p = p * q
    OBVIOUS
  <2> QED
    BY <1>1, <1>2, <1>3, <1>4, <2>1, <2>2, <2>3, Positions
<1>5. CASE i + n >= Width
  <2>1. /\ Width - n \in 0..32 /\ i - (Width - n) \in 0..32
        /\ n + (Width - n) = Width /\ (Width - n) + (i - (Width - n)) = i
        /\ Width \in 0..32
    BY <1>5, Positions
  <2>2. PICK r \in Nat \ {0}, t \in Nat \ {0} :
          r = 2^(Width - n) /\ t = 2^(i - (Width - n))
    BY <2>1, Powers
  <2>3. 2^Width = p * r
    BY <1>1, <1>2, <2>1, <2>2, Powers
  <2>4. q = r * t
    BY <1>1, <1>2, <2>1, <2>2, Powers
  <2>5. p * r <= p * (r * t)
    OBVIOUS
  <2>6. a < p * q /\ p * q \in Nat \ {0}
    BY <1>2, <2>3, <2>4, <2>5
  <2>7. PICK m \in Nat \ {0} : m = p * q
    BY <2>6
  <2>8. a \div m = 0
    BY <1>2, <2>6, <2>7
  <2>9. (a \div (p * q)) % 2 = 0
    BY <2>7, <2>8
  <2> QED
    BY <1>1, <1>2, <1>3, <1>5, <2>9, Positions
<1> QED
  BY <1>4, <1>5, Positions

(* A shift to the left moves the bits up, shifts in zeros and cuts the     *)
(* result.                                                                 *)
LEMMA LeftShift ==
  ASSUME NEW a \in AluWord, NEW n \in 0..(Width - 1), NEW i \in 0..(Width - 1)
  PROVE  i \in BitsOf((a * 2^n) % 2^Width) <=> i - n \in BitsOf(a)
<1>1. PICK p \in Nat \ {0}, q \in Nat \ {0} : p = 2^n /\ q = 2^i
  <2>1. n \in 0..32 /\ i \in 0..32
    BY Positions
  <2>2. 2^n \in Nat \ {0} /\ 2^i \in Nat \ {0}
    BY <2>1, Powers
  <2> QED
    BY <2>2
<1>2. a \in Nat /\ n \in 0..32 /\ i \in 0..32 /\ a * p \in Nat
  BY Positions
<1>3. PICK s \in Nat \ {0} : 2^Width = q * (2 * s)
  <2>1. /\ Width - i \in 0..32 /\ Width - 1 - i \in 0..31
        /\ i + (Width - i) = Width /\ (Width - 1 - i) + 1 = Width - i
        /\ Width \in 0..32 /\ Width - 1 - i \in 0..32
    BY Positions
  <2>2. 2^Width = q * 2^(Width - i)
    BY <1>1, <1>2, <2>1, Powers
  <2>3. 2^(Width - i) = 2 * 2^(Width - 1 - i)
    BY <2>1, Powers
  <2> QED
    BY <2>1, <2>2, <2>3, Powers
<1>4. i \in BitsOf((a * p) % 2^Width) <=> ((a * p) \div q) % 2 = 1
  <2>1. q * (2 * s) \in Nat \ {0}
    OBVIOUS
  <2>2. (a * p) % (q * (2 * s)) \in Nat
    BY <1>2, <2>1
  <2>3. (((a * p) % (q * (2 * s))) \div q) % 2 = ((a * p) \div q) % 2
    BY <1>2, CutKeepsBit
  <2> QED
    BY <1>1, <1>3, <2>2, <2>3, Positions
<1>5. CASE n <= i
  <2>1. /\ i - n \in 0..(Width - 1) /\ i - n \in 0..32
        /\ n + (i - n) = i
    BY <1>2, <1>5, Positions
  <2>2. PICK t \in Nat \ {0} : t = 2^(i - n)
    BY <2>1, Powers
  <2>3. q = p * t
    BY <1>1, <1>2, <2>1, <2>2, Powers
  <2>4. (a * p) \div q = a \div t
    BY <1>2, <2>3, MulCancels
  <2> QED
    BY <1>1, <1>2, <1>4, <2>1, <2>2, <2>4, Positions
<1>6. CASE i < n
  <2>1. /\ n - i \in 0..32 /\ n - i - 1 \in 0..31 /\ n - i - 1 \in 0..32
        /\ i + (n - i) = n /\ (n - i - 1) + 1 = n - i
    BY <1>2, <1>6, Positions
  <2>2. PICK t \in Nat \ {0} : t = 2^(n - i - 1)
    BY <2>1, Powers
  <2>3. p = q * 2^(n - i)
    BY <1>1, <1>2, <2>1, Powers
  <2>4. 2^(n - i) = 2 * t
    BY <2>1, <2>2, Powers
  <2>5. (a * p) \div q = a * (2 * t)
    <3>1. a \in Nat /\ 2 * t \in Nat \ {0}
      BY <1>2
    <3>2. (a * (q * (2 * t))) \div q = a * (2 * t)
      BY <3>1, MulDiv
    <3> QED
      BY <2>3, <2>4, <3>2
  <2>6. PICK w \in Nat : w = a * t
    BY <1>2
  <2>7. a * (2 * t) = 2 * w
    BY <1>2, <2>6
  <2>8. i - n \notin BitsOf(a)
    BY <1>6 DEF BitsOf
  <2> QED
    BY <1>1, <1>4, <2>5, <2>7, <2>8
<1> QED
  BY <1>2, <1>5, <1>6

(* The shifts are the manual's, but for the arithmetic shift of a negative *)
(* number by one or more, which is a logical one.                          *)
LEMMA ShiftsAre ==
  ASSUME NEW op \in {"SLL", "SRL", "SRA"}, NEW a \in AluWord, NEW b \in AluWord
  PROVE  IsaResult(op, a, b, out(op, a, b)) <=>
           ~(op = "SRA" /\ Signed(a) < 0 /\ shamt(b) > 0)
<1>1. PICK n \in 0..(Width - 1) : n = shamt(b) /\ n = b % Width
  <2>1. b \in Nat /\ Width \in Nat \ {0}
    BY Positions
  <2>2. b % Width \in 0..(Width - 1)
    BY <2>1
  <2> QED
    BY <2>2 DEF shamt
<1>2. CASE op = "SLL"
  <2>1. out(op, a, b) = (a * 2^n) % 2^Width
    BY <1>1, <1>2 DEF out
  <2>2. ShiftedLeft(out(op, a, b), a, n)
    BY <2>1, LeftShift DEF ShiftedLeft
  <2> QED
    BY <1>1, <1>2, <2>2 DEF IsaResult
<1>3. CASE op \in {"SRL", "SRA"}
  <2>1. out(op, a, b) = a \div 2^n
    BY <1>1, <1>3 DEF out
  <2>2. \A i \in 0..(Width - 1) :
          i \in BitsOf(out(op, a, b)) <=> i + n < Width /\ i + n \in BitsOf(a)
    BY <2>1, RightShift
  <2>3. ShiftedRight(out(op, a, b), a, n, FALSE)
    BY <2>2 DEF ShiftedRight
  <2>4. n = 0 => ShiftedRight(out(op, a, b), a, n, TRUE)
    BY <2>2, Positions DEF ShiftedRight
  <2>5. n > 0 => ~ShiftedRight(out(op, a, b), a, n, TRUE)
    <3>1. Width - 1 \in 0..(Width - 1) /\ (n > 0 => ~((Width - 1) + n < Width))
      BY Positions
    <3> QED
      BY <2>2, <3>1 DEF ShiftedRight
  <2>6. CASE op = "SRL"
    BY <1>1, <2>3, <2>6 DEF IsaResult
  <2>7. CASE op = "SRA" /\ Signed(a) < 0
    <3>1. IsaResult(op, a, b, out(op, a, b)) <=>
            ShiftedRight(out(op, a, b), a, n, TRUE)
      BY <1>1, <2>7 DEF IsaResult
    <3>2. n = 0 \/ n > 0
      BY Positions
    <3>3. shamt(b) > 0 <=> n # 0
      BY <1>1, Positions
    <3>4. ShiftedRight(out(op, a, b), a, n, TRUE) <=> n = 0
      BY <2>4, <2>5, <3>2
    <3> QED
      BY <2>7, <3>1, <3>3, <3>4
  <2>8. CASE op = "SRA" /\ ~(Signed(a) < 0)
    <3>1. IsaResult(op, a, b, out(op, a, b)) <=>
            ShiftedRight(out(op, a, b), a, n, FALSE)
      <4>1. (Signed(a) < 0) = FALSE
        BY <2>8
      <4>2. IsaResult(op, a, b, out(op, a, b)) <=>
              ShiftedRight(out(op, a, b), a, b % Width, Signed(a) < 0)
        BY <2>8 DEF IsaResult
      <4> QED
        BY <1>1, <4>1, <4>2
    <3> QED
      BY <2>3, <2>8, <3>1
  <2> QED
    BY <1>3, <2>6, <2>7, <2>8
<1> QED
  BY <1>2, <1>3

-----------------------------------------------------------------------------
(* Numbers and the sets of their bits.                                     *)

(* A bit that is not set is set by adding its power.                       *)
LEMMA AddsBit ==
  ASSUME NEW x \in AluWord, NEW k \in 0..(Width - 1), k \notin BitsOf(x)
  PROVE  x + 2^k \in AluWord /\ BitsOf(x + 2^k) = BitsOf(x) \cup {k}
<1>1. PICK p \in Nat \ {0} : p = 2^k
  <2>1. k \in 0..32
    BY Positions
  <2> QED
    BY <2>1, Powers
<1>2. x \in Nat /\ x < 2^Width /\ k \in 0..32 /\ x + p \in Nat
  BY Positions
<1>3. PICK u \in Nat, v \in Nat : x = p * (2 * u) + v /\ v < p
  <2>1. (x \div p) % 2 # 1
    BY <1>1, <1>2, Positions
  <2>2. PICK y \in Nat, w \in Nat : x = p * y + w /\ w < p /\ y = x \div p
    <3>1. /\ x \div p \in Nat /\ x % p \in Nat /\ x % p < p
          /\ x = p * (x \div p) + (x % p)
      BY <1>2
    <3> QED
      BY <3>1
  <2>3. PICK z \in Nat : y = 2 * z
    <3>1. y % 2 = 0 /\ y \div 2 \in Nat /\ y = 2 * (y \div 2)
      BY <2>1, <2>2
    <3> QED
      BY <3>1
  <2> QED
    BY <2>2, <2>3
<1>4. x + p = p * (2 * u + 1) + v
  <2>1. p * (2 * u + 1) = p * (2 * u) + p
    OBVIOUS
  <2>2. PICK c \in Nat : c = p * (2 * u)
    OBVIOUS
  <2> QED
    BY <1>2, <1>3, <2>1, <2>2
(* Above the bit nothing changes.                                          *)
<1>5. ASSUME NEW q \in Nat \ {0}
      PROVE  (x + p) \div (p * (2 * q)) = x \div (p * (2 * q))
  <2>1. x \div p = 2 * u
    BY <1>3
  <2>2. (x + p) \div p = 2 * u + 1
    BY <1>3, <1>4
  <2>3. \A y \in Nat : y \div (p * (2 * q)) = ((y \div p) \div 2) \div q
    <3>1. PICK m \in Nat \ {0} : m = 2 * q
      OBVIOUS
    <3> SUFFICES ASSUME NEW y \in Nat
                 PROVE  y \div (p * m) = ((y \div p) \div 2) \div q
      BY <3>1
    <3>2. (y \div p) \div m = y \div (p * m)
      BY DivDiv
    <3>3. PICK z \in Nat : z = y \div p
      OBVIOUS
    <3>4. (z \div 2) \div q = z \div m
      BY <3>1
    <3> QED
      BY <3>2, <3>3, <3>4
  <2>4. (2 * u) \div 2 = (2 * u + 1) \div 2
    OBVIOUS
  <2> QED
    BY <1>2, <2>1, <2>2, <2>3, <2>4
<1>6. x + p < 2^Width
  <2>1. /\ Width - k \in 0..32 /\ Width - 1 - k \in 0..31
        /\ k + (Width - k) = Width /\ (Width - 1 - k) + 1 = Width - k
        /\ Width \in 0..32 /\ Width - 1 - k \in 0..32
    BY Positions
  <2>2. PICK q \in Nat \ {0} : q = 2^(Width - 1 - k)
    BY <2>1, Powers
  <2>3. 2^Width = p * (2 * q)
    BY <1>1, <1>2, <2>1, <2>2, Powers
  <2>4. PICK m \in Nat \ {0} : m = p * (2 * q)
    OBVIOUS
  <2>5. x \div m = 0
    BY <1>2, <2>3, <2>4
  <2>6. (x + p) \div m = 0
    BY <1>5, <2>4, <2>5
  <2>7. x + p < m
    BY <1>2, <2>6
  <2> QED
    BY <2>3, <2>4, <2>7
<1>7. ASSUME NEW i \in 0..(Width - 1)
      PROVE  i \in BitsOf(x + p) <=> i \in BitsOf(x) \/ i = k
  <2>1. i \in 0..32
    BY Positions
  <2>2. PICK q \in Nat \ {0} : q = 2^i
    BY <2>1, Powers
  <2>3. /\ i \in BitsOf(x) <=> (x \div q) % 2 = 1
        /\ i \in BitsOf(x + p) <=> ((x + p) \div q) % 2 = 1
    BY <1>2, <2>2, Positions
  <2>4. CASE i = k
    <3>1. (x + p) \div p = 2 * u + 1
      BY <1>3, <1>4
    <3> QED
      BY <1>1, <2>2, <2>3, <2>4, <3>1
  <2>5. CASE i > k
    <3>1. /\ i - k \in 0..32 /\ i - k - 1 \in 0..31 /\ i - k - 1 \in 0..32
          /\ k + (i - k) = i /\ (i - k - 1) + 1 = i - k
      BY <1>2, <2>1, <2>5
    <3>2. PICK r \in Nat \ {0} : r = 2^(i - k - 1)
      BY <3>1, Powers
    <3>3. q = p * (2 * r)
      BY <1>1, <1>2, <2>1, <2>2, <3>1, <3>2, Powers
    <3>4. (x + p) \div q = x \div q
      BY <1>5, <3>3
    <3> QED
      BY <1>2, <2>1, <2>3, <2>5, <3>4
  <2>6. CASE i < k
    <3>1. /\ k - i \in 0..32 /\ k - i - 1 \in 0..31 /\ k - i - 1 \in 0..32
          /\ i + (k - i) = k /\ (k - i - 1) + 1 = k - i
      BY <1>2, <2>1, <2>6
    <3>2. PICK r \in Nat \ {0} : r = 2^(k - i - 1)
      BY <3>1, Powers
    <3>3. p = q * (2 * r)
      BY <1>1, <1>2, <2>1, <2>2, <3>1, <3>2, Powers
    <3>4. PICK y \in Nat, w \in Nat : x = q * y + w /\ w < q
      <4>1. /\ x \div q \in Nat /\ x % q \in Nat /\ x % q < q
            /\ x = q * (x \div q) + (x % q)
        BY <1>2
      <4> QED
        BY <4>1
    <3>5. x + p = q * (y + 2 * r) + w
      <4>1. q * (y + 2 * r) = q * y + q * (2 * r)
        OBVIOUS
      <4>2. PICK c \in Nat : c = q * y
        OBVIOUS
      <4> QED
        BY <3>3, <3>4, <4>1, <4>2
    <3>6. x \div q = y /\ (x + p) \div q = y + 2 * r
      BY <3>4, <3>5
    <3>7. (y + 2 * r) % 2 = y % 2
      OBVIOUS
    <3> QED
      BY <1>2, <2>3, <2>6, <3>6, <3>7
  <2> QED
    BY <1>2, <2>1, <2>4, <2>5, <2>6
<1>8. BitsOf(x + p) = BitsOf(x) \cup {k}
  BY <1>7 DEF BitsOf
<1>9. x + p \in AluWord
  <2>1. 2^Width \in Nat
    BY Positions, Powers
  <2> QED
    BY <1>2, <1>6, <2>1 DEF AluWord
<1> QED
  BY <1>1, <1>8, <1>9

(* A set of numbers that is not empty has a least one.                     *)
LEMMA LeastNumber ==
  ASSUME NEW S \in SUBSET Nat, S # {}
  PROVE  \E m \in S : \A n \in S : m <= n
<1>1. PICK m \in S : \A n \in S : <<n, m>> \notin OpToRel(<, Nat)
  BY WFMin, NatLessThanWellFounded
<1>2. OpToRel(<, Nat) = {r \in Nat \X Nat : r[1] < r[2]}
  BY DEF OpToRel
<1>3. ASSUME NEW n \in S PROVE m <= n
  <2>1. m \in Nat /\ n \in Nat
    OBVIOUS
  <2>2. <<n, m>> \notin {r \in Nat \X Nat : r[1] < r[2]}
    BY <1>1, <1>2, Zenon
  <2> QED
    BY <2>1, <2>2
<1> QED
  BY <1>3

(* Of a collection of subsets of a finite set one has no smaller one in    *)
(* the collection that lacks just one of its elements.                     *)
LEMMA SmallestSet ==
  ASSUME NEW T, IsFiniteSet(T), NEW B \in SUBSET (SUBSET T), B # {}
  PROVE  \E s \in B : \A x \in s : s \ {x} \notin B
<1> DEFINE Sizes == {Cardinality(s) : s \in B}
<1>1. \A s \in B : IsFiniteSet(s) /\ Cardinality(s) \in Nat
  BY FS_Subset, FS_CardinalityType
<1>2. Sizes \in SUBSET Nat /\ Sizes # {}
  BY <1>1
<1>3. PICK c \in Sizes : \A d \in Sizes : c <= d
  <2> HIDE DEF Sizes
  <2> QED
    BY <1>2, LeastNumber
<1>4. PICK s \in B : Cardinality(s) = c
  OBVIOUS
<1>5. ASSUME NEW x \in s, s \ {x} \in B PROVE FALSE
  <2>1. Cardinality(s \ {x}) = c - 1
    BY <1>1, <1>4, FS_RemoveElement
  <2>2. c <= c - 1 /\ c \in Nat
    BY <1>2, <1>3, <1>5, <2>1
  <2> QED
    BY <2>2
<1> QED
  BY <1>5

(* The bits tell words apart: from the highest down they agree on longer   *)
(* and longer parts.                                                       *)
LEMMA BitsDetermine ==
  ASSUME NEW x \in AluWord, NEW y \in AluWord, BitsOf(x) = BitsOf(y)
  PROVE  x = y
<1> DEFINE Differ == {j \in 0..Width :
                        x \div 2^(Width - j) # y \div 2^(Width - j)}
<1>1. x \in Nat /\ y \in Nat /\ x < 2^Width /\ y < 2^Width /\ Width \in 1..32
  BY Positions
<1>2. ASSUME NEW j \in Differ, \A i \in Differ : j <= i
      PROVE  FALSE
  <2>1. PICK k \in 0..32 : k = Width - j /\ j \in 0..Width
    BY <1>1
  <2>2. PICK p \in Nat \ {0} : p = 2^k
    BY Powers
  <2>3. x \div p # y \div p
    BY <2>1, <2>2
  <2>4. CASE j = 0
    <3>1. p = 2^Width
      BY <1>1, <2>1, <2>2, <2>4
    <3>2. x \div p = 0 /\ y \div p = 0
      BY <1>1, <3>1
    <3> QED
      BY <2>3, <3>2
  <2>5. CASE j > 0
    <3>1. /\ j - 1 \in 0..Width /\ ~(j <= j - 1)
          /\ Width - (j - 1) = k + 1 /\ k \in 0..31 /\ k \in 0..(Width - 1)
      BY <1>1, <2>1, <2>5
    <3>2. x \div 2^(k + 1) = y \div 2^(k + 1)
      BY <1>2, <3>1
    <3>3. 2^(k + 1) = p * 2
      <4>1. 2^(k + 1) = 2 * p
        BY <2>2, <3>1, Powers
      <4> QED
        BY <4>1
    <3>4. PICK u \in Nat, v \in Nat : u = x \div p /\ v = y \div p
      BY <1>1
    <3>5. u \div 2 = v \div 2
      <4>1. 2 \in Nat \ {0}
        OBVIOUS
      <4>2. (x \div p) \div 2 = x \div (p * 2) /\ (y \div p) \div 2 = y \div (p * 2)
        BY <1>1, <4>1, DivDiv
      <4> QED
        BY <3>2, <3>3, <3>4, <4>2
    <3>6. (u % 2 = 1) <=> (v % 2 = 1)
      BY <1>1, <2>2, <3>1, <3>4, Positions
    <3> QED
      BY <2>3, <3>4, <3>5, <3>6
  <2> QED
    BY <1>1, <2>1, <2>4, <2>5
<1>3. Differ = {}
  <2>1. Differ \in SUBSET Nat
    BY <1>1
  <2> HIDE DEF Differ
  <2> QED
    BY <1>2, <2>1, LeastNumber
<1>4. x \div 2^0 = y \div 2^0
  <2>1. Width \in 0..Width /\ Width - Width = 0
    BY <1>1
  <2>2. x \div 2^(Width - Width) = y \div 2^(Width - Width)
    BY <1>3, <2>1
  <2> QED
    BY <2>1, <2>2
<1> QED
  BY <1>1, <1>4

(* Zero has no bits, ...                                                   *)
LEMMA ZeroHasNone == 0 \in AluWord /\ BitsOf(0) = {}
<1>1. 2^Width \in Nat \ {0} /\ Width \in 1..32
  <2>1. Width \in 1..32 /\ Width \in 0..32
    BY Positions
  <2> QED
    BY <2>1, Powers
<1>2. ASSUME NEW i \in 0..(Width - 1) PROVE i \notin BitsOf(0)
  <2>1. i \in 0..32
    BY <1>1
  <2>2. PICK p \in Nat \ {0} : p = 2^i
    BY <2>1, Powers
  <2>3. (0 \div p) % 2 = 0
    OBVIOUS
  <2> QED
    BY <2>2, <2>3, Positions
<1>3. BitsOf(0) = {}
  BY <1>2 DEF BitsOf
<1> QED
  BY <1>1, <1>3 DEF AluWord

(* ... and every set of positions is the set of bits of a word.            *)
LEMMA WordExists ==
  ASSUME NEW s \in SUBSET (0..(Width - 1))
  PROVE  \E x \in AluWord : BitsOf(x) = s
<1> DEFINE T == 0..(Width - 1)
           Without == {t \in SUBSET T : \A x \in AluWord : BitsOf(x) # t}
<1>1. IsFiniteSet(T)
  <2>1. 0 \in Int /\ Width - 1 \in Int
    BY Positions
  <2> QED
    BY <2>1, FS_Interval
<1>2. ASSUME NEW t \in Without, \A k \in t : t \ {k} \notin Without
      PROVE  FALSE
  <2>1. t # {}
    BY ZeroHasNone
  <2>2. PICK k \in t : t \ {k} \notin Without
    BY <1>2, <2>1
  <2>3. t \ {k} \in SUBSET T /\ k \in T
    OBVIOUS
  <2>4. PICK x \in AluWord : BitsOf(x) = t \ {k}
    BY <2>2, <2>3
  <2>5. x + 2^k \in AluWord /\ BitsOf(x + 2^k) = (t \ {k}) \cup {k}
    BY <2>3, <2>4, AddsBit
  <2>6. (t \ {k}) \cup {k} = t
    OBVIOUS
  <2> QED
    BY <2>5, <2>6
<1>3. Without = {}
  <2>1. Without \in SUBSET (SUBSET T)
    OBVIOUS
  <2> HIDE DEF Without, T
  <2> QED
    BY <1>1, <1>2, <2>1, SmallestSet
<1> QED
  BY <1>3

(* The recursion by which the community module adds up the powers.         *)
Sums(S, f) ==
  f = [s \in SUBSET S |->
         IF s = {} THEN 0
         ELSE LET k == CHOOSE k \in s : TRUE IN 2^k + f[s \ {k}]]

(* A word put together from a set of bits has these bits.  The recursion   *)
(* has a solution, the function that maps a set to the word of its bits;   *)
(* and every solution yields that word.                                    *)
LEMMA WordOfIs ==
  ASSUME NEW S \in SUBSET (0..(Width - 1))
  PROVE  WordOf(S) \in AluWord /\ BitsOf(WordOf(S)) = S
<1> DEFINE g == [s \in SUBSET S |-> CHOOSE x \in AluWord : BitsOf(x) = s]
<1>1. ASSUME NEW s \in SUBSET S PROVE g[s] \in AluWord /\ BitsOf(g[s]) = s
  <2>1. \E x \in AluWord : BitsOf(x) = s
    BY WordExists
  <2> QED
    BY <2>1
<1>2. ASSUME NEW s \in SUBSET S, s # {}, NEW k \in s
      PROVE  g[s] = 2^k + g[s \ {k}]
  <2>1. s \ {k} \in SUBSET S /\ k \in 0..(Width - 1)
    OBVIOUS
  <2>2. PICK x \in AluWord : x = g[s \ {k}] /\ BitsOf(x) = s \ {k}
    BY <1>1, <2>1
  <2>3. x + 2^k \in AluWord /\ BitsOf(x + 2^k) = s
    <3>1. (s \ {k}) \cup {k} = s
      OBVIOUS
    <3> QED
      BY <2>1, <2>2, <3>1, AddsBit
  <2>4. g[s] = x + 2^k
    BY <1>1, <2>3, BitsDetermine
  <2>5. x + 2^k = 2^k + x
    <3>1. k \in 0..32
      BY <2>1, Positions
    <3> QED
      BY <3>1, Positions, Powers
  <2> QED
    BY <2>2, <2>4, <2>5
<1>3. g[{}] = 0
  <2>1. {} \in SUBSET S
    OBVIOUS
  <2> QED
    BY <1>1, <2>1, ZeroHasNone, BitsDetermine
<1>4. Sums(S, g)
  <2> DEFINE h == [s \in SUBSET S |->
                     IF s = {} THEN 0
                     ELSE LET k == CHOOSE k \in s : TRUE IN 2^k + g[s \ {k}]]
  <2>1. ASSUME NEW s \in SUBSET S PROVE g[s] = h[s]
    <3>1. CASE s = {}
      BY <1>3, <3>1
    <3>2. CASE s # {}
      <4>1. PICK k \in s : k = CHOOSE j \in s : TRUE
        BY <3>2
      <4>2. h[s] = 2^k + g[s \ {k}]
        BY <3>2, <4>1
      <4> QED
        BY <1>2, <3>2, <4>2
    <3> QED
      BY <3>1, <3>2
  <2>2. g = h
    BY <2>1
  <2> QED
    BY <2>2 DEF Sums
<1>5. PICK f : Sums(S, f) /\ WordOf(S) = f[S]
  <2>1. WordOf(S) = (CHOOSE f : Sums(S, f))[S]
    BY DEF WordOf, MapThenSumSet, MapThenFoldSet, Sums
  <2> QED
    BY <1>4, <2>1
<1> DEFINE Right(s) == f[s] \in AluWord /\ BitsOf(f[s]) = s
           Wrong == {s \in SUBSET S : ~Right(s)}
<1>6. ASSUME NEW s \in Wrong, \A k \in s : s \ {k} \notin Wrong
      PROVE  FALSE
  <2>1. f[s] = IF s = {} THEN 0
               ELSE LET k == CHOOSE k \in s : TRUE IN 2^k + f[s \ {k}]
    BY <1>5 DEF Sums
  <2>2. s # {}
    BY <2>1, ZeroHasNone
  <2>3. PICK k \in s : k = CHOOSE j \in s : TRUE
    BY <2>2
  <2>4. f[s] = 2^k + f[s \ {k}]
    BY <2>1, <2>2, <2>3
  <2>5. s \ {k} \in SUBSET S /\ k \in 0..(Width - 1)
    OBVIOUS
  <2>6. PICK x \in AluWord : x = f[s \ {k}] /\ BitsOf(x) = s \ {k}
    BY <1>6, <2>5
  <2>7. x + 2^k \in AluWord /\ BitsOf(x + 2^k) = s
    <3>1. (s \ {k}) \cup {k} = s
      OBVIOUS
    <3> QED
      BY <2>5, <2>6, <3>1, AddsBit
  <2>8. x + 2^k = 2^k + x
    <3>1. k \in 0..32
      BY <2>5, Positions
    <3> QED
      BY <3>1, Positions, Powers
  <2> QED
    BY <2>4, <2>6, <2>7, <2>8
<1>7. Wrong = {}
  <2>1. Wrong \in SUBSET (SUBSET S)
    OBVIOUS
  <2>2. IsFiniteSet(S)
    <3>1. 0 \in Int /\ Width - 1 \in Int
      BY Positions
    <3> QED
      BY <3>1, FS_Interval, FS_Subset
  <2> HIDE DEF Wrong
  <2> QED
    BY <1>6, <2>1, <2>2, SmallestSet
<1>8. Right(S)
  BY <1>7
<1> QED
  BY <1>5, <1>8

-----------------------------------------------------------------------------
(* The operations of the ALU that are sums and comparisons.                *)
Arithmetic == {"ADD", "SUB"} \cup CompareOp

(* The results of these operations.                                        *)
LEMMA ArithmeticIsRight ==
  ASSUME NEW op \in Arithmetic, NEW a \in AluWord, NEW b \in AluWord
  PROVE  IsaResult(op, a, b, out(op, a, b))
<1>1. a \in Int /\ b \in Int
  BY DEF AluWord
<1>2. CASE op = "ADD"
  <2>1. PICK r \in Int : r = (a + b) % 2^Width
    BY <1>1, CutSum
  <2>2. (r - a - b) % 2^Width = 0
    BY <1>1, <2>1, CutSum
  <2>3. (Signed(r) - Signed(a) - Signed(b)) % 2^Width = 0
    BY <1>1, <2>2, SignedSum
  <2>4. out(op, a, b) = r
    BY <1>2, <2>1 DEF out
  <2> QED
    BY <1>2, <2>3, <2>4 DEF IsaResult
<1>3. CASE op = "SUB"
  <2>1. PICK r \in Int : r = (a - b) % 2^Width
    BY <1>1, CutSum
  <2>2. (r + b - a) % 2^Width = 0
    BY <1>1, <2>1, CutSum
  <2>3. (Signed(r) + Signed(b) - Signed(a)) % 2^Width = 0
    BY <1>1, <2>2, SignedSum
  <2>4. out(op, a, b) = r
    BY <1>3, <2>1 DEF out
  <2> QED
    BY <1>3, <2>3, <2>4 DEF IsaResult
<1>4. CASE op \in {"SEQ", "SNE"}
  <2>1. out(op, a, b) = 1 <=> ((a = b) = (op = "SEQ"))
    BY <1>4, ComparatorIs DEF CompareOp, Taken
  <2> QED
    BY <1>4, <2>1 DEF IsaResult
<1>5. CASE op \in {"SLTU", "SGEU"}
  <2>1. out(op, a, b) = 1 <=> ((a < b) = (op = "SLTU"))
    BY <1>1, <1>5, ComparatorIs DEF CompareOp, Taken
  <2> QED
    BY <1>5, <2>1 DEF IsaResult
<1>6. CASE op \in {"SLT", "SGE"}
  <2>1. LessByMsb(a, b) \in BOOLEAN
    <3>1. /\ (a < b) \in BOOLEAN
          /\ (Width - 1 \in BitsOf(a)) \in BOOLEAN
      OBVIOUS
    <3>2. \/ LessByMsb(a, b) = (a < b)
          \/ LessByMsb(a, b) = (Width - 1 \in BitsOf(a))
      BY DEF LessByMsb
    <3> QED
      BY <3>1, <3>2
  <2>2. out(op, a, b) = 1 <=> (LessByMsb(a, b) = (op = "SLT"))
    BY <1>6, <2>1, ComparatorIs DEF CompareOp, Taken
  <2> QED
    BY <1>6, <2>2 DEF IsaResult
<1> QED
  BY <1>2, <1>3, <1>4, <1>5, <1>6 DEF Arithmetic, CompareOp

AluTypeOK == alu_in \in [op: AluOp, in1: AluWord, in2: AluWord]

(* The bitwise operations are the manual's, bit by bit.                    *)
LEMMA BitwiseAre ==
  ASSUME NEW op \in {"XOR", "OR", "AND"}, NEW a \in AluWord, NEW b \in AluWord
  PROVE  IsaResult(op, a, b, out(op, a, b))
<1>1. BitsOf(a) \subseteq 0..(Width - 1) /\ BitsOf(b) \subseteq 0..(Width - 1)
  BY DEF BitsOf
<1>2. CASE op = "XOR"
  <2>1. BitsOf(out(op, a, b)) = (BitsOf(a) \cup BitsOf(b))
                                \ (BitsOf(a) \cap BitsOf(b))
    BY <1>1, <1>2, WordOfIs DEF out
  <2>2. ASSUME NEW i \in 0..(Width - 1)
        PROVE  i \in BitsOf(out(op, a, b))
                 <=> (i \in BitsOf(a)) # (i \in BitsOf(b))
    BY <2>1
  <2> QED
    BY <1>2, <2>2 DEF IsaResult
<1>3. CASE op = "OR"
  <2>1. BitsOf(out(op, a, b)) = BitsOf(a) \cup BitsOf(b)
    BY <1>1, <1>3, WordOfIs DEF out
  <2> QED
    BY <1>3, <2>1 DEF IsaResult
<1>4. CASE op = "AND"
  <2>1. BitsOf(out(op, a, b)) = BitsOf(a) \cap BitsOf(b)
    BY <1>1, <1>4, WordOfIs DEF out
  <2> QED
    BY <1>4, <2>1 DEF IsaResult
<1> QED
  BY <1>2, <1>3, <1>4

(* The ALU is right about every input, but for that shift.                 *)
LEMMA AluIsRight == AluTypeOK => AluMatchesIsa
<1> SUFFICES ASSUME AluTypeOK PROVE AluMatchesIsa
  OBVIOUS
<1> DEFINE i == alu_in
<1>1. i.op \in AluOp /\ i.in1 \in AluWord /\ i.in2 \in AluWord
  BY DEF AluTypeOK
<1>2. CASE i.op \in {"SLL", "SRL", "SRA"}
  BY <1>1, <1>2, ShiftsAre DEF AluMatchesIsa
<1>3. CASE i.op \in {"XOR", "OR", "AND"}
  BY <1>1, <1>3, BitwiseAre DEF AluMatchesIsa
<1>4. CASE i.op \in Arithmetic
  <2>1. i.op # "SRA"
    BY <1>4 DEF Arithmetic, CompareOp
  <2> QED
    BY <1>1, <1>4, <2>1, ArithmeticIsRight DEF AluMatchesIsa
<1> QED
  BY <1>1, <1>2, <1>3, <1>4 DEF AluOp, Arithmetic, CompareOp

(* The ALU computes what the RV32I manual says of each operation, for all  *)
(* operands of every width, but for the arithmetic shift of a negative     *)
(* number by one or more.                                                  *)
THEOREM AluCorrect == AluSpec => []AluMatchesIsa
<1>1. AluInit => AluTypeOK
  <2>1. 0 \in AluWord
    BY Words DEF AluWord, Halves
  <2> QED
    BY <2>1 DEF AluInit, AluTypeOK
<1>2. AluTypeOK /\ [AluNext]_alu_in => AluTypeOK'
  BY DEF AluNext, AluTypeOK
<1> QED
  BY <1>1, <1>2, AluIsRight, PTL DEF AluSpec

-----------------------------------------------------------------------------
(* The registers of all units.  Addresses keep the alignment of the entry  *)
(* point, so what the delay registers hold fits a bus of data, and the     *)
(* control word the decoder hands on is one the dispatch stage may get.    *)
CodeAddress(a) == a \in 0..(AddressSpace - 1) /\ a % 4 = EntryPoint % 4

FrontInv ==
  /\ Inv
  /\ fetched \in Control /\ inst_o \in Control
  /\ \A a \in {pc, npc_o, pc_t, pc_id} : CodeAddress(a)

(* The address behind an address of instructions is one, too.              *)
LEMMA NextAddress == ASSUME NEW a, CodeAddress(a)
                     PROVE  CodeAddress((a + 4) % AddressSpace)
<1>1. PICK n \in Nat : AddressSpace = 4 * n
  BY AddressAssumption
<1>2. AddressSpace \in Nat /\ AddressSpace >= 4 /\ a + 4 < 2 * AddressSpace
  BY <1>1, AddressAssumption DEF CodeAddress
<1>3. \/ (a + 4) % AddressSpace = a + 4
      \/ (a + 4) % AddressSpace = a + 4 - AddressSpace
  BY <1>2 DEF CodeAddress
<1>4. (a + 4) % AddressSpace \in 0..(AddressSpace - 1)
  BY <1>2 DEF CodeAddress
<1>5. (a + 4) % 4 = a % 4 /\ (a + 4 - AddressSpace) % 4 = a % 4
  BY <1>1 DEF CodeAddress
<1> QED
  BY <1>3, <1>4, <1>5 DEF CodeAddress

(* After the reset ...                                                     *)
LEMMA InitFront == FrontInit => FrontInv
<1> SUFFICES ASSUME FrontInit PROVE FrontInv
  OBVIOUS
<1>1. Inv
  BY InitInv DEF FrontInit
<1>2. Bubble \in Control /\ CodeAddress(EntryPoint)
  BY BubbleBesideAny, AddressAssumption DEF Beside, CodeAddress
<1> QED
  BY <1>1, <1>2 DEF FrontInit, FetchInit, IfInit, FrontInv

(* ... and after every edge.                                               *)
LEMMA CycleFront ==
  ASSUME FrontInv, NEW exe \in Exe, Legal(exe), FrontCycle(exe)
  PROVE  FrontInv'
<1>1. Decoded \in Control
  <2>1. pc_id \in Data
    BY AddressesAreData DEF FrontInv, CodeAddress
  <2> QED
    BY <2>1 DEF FrontInv, Decoded, Control
<1>2. Inv'
  BY <1>1, ClockInv DEF FrontInv, FrontCycle
<1>3. fetched' \in Control /\ inst_o' \in Control
  BY WordIs, BubbleBesideAny
  DEF FrontInv, FrontCycle, FetchClock, IfClock, Beside
<1>4. /\ pc' = (pc + 4) % AddressSpace
      /\ npc_o' \in {pc, (pc + 4) % AddressSpace}
      /\ pc_t' = npc_o /\ pc_id' = pc_t
  BY DEF FrontCycle, FetchClock, IfClock, npc
<1>5. /\ CodeAddress(pc) /\ CodeAddress((pc + 4) % AddressSpace)
      /\ CodeAddress(npc_o) /\ CodeAddress(pc_t)
  BY NextAddress DEF FrontInv
<1>6. \A a \in {pc', npc_o', pc_t', pc_id'} : CodeAddress(a)
  BY <1>4, <1>5
<1> QED
  BY <1>2, <1>3, <1>6 DEF FrontInv, CodeAddress

(* A step of the front end is an edge with a legal result.                 *)
LEMMA StepFront == FrontInv /\ [FrontNext]_frontVars => FrontInv'
<1> SUFFICES ASSUME FrontInv, [FrontNext]_frontVars PROVE FrontInv'
  OBVIOUS
<1>1. CASE FrontCycle(NoResult)
  <2>1. NoResult \in Exe /\ Legal(NoResult)
    BY NumTagsAssumption, DataAssumption DEF NoResult, Exe, Legal, TagIndex
  <2> QED
    BY <1>1, <2>1, CycleFront
<1>2. ASSUME NEW t \in Tags, Executing(t), FrontCycle(Result(t, 0))
      PROVE  FrontInv'
  <2>1. Result(t, 0) \in Exe /\ Legal(Result(t, 0))
    BY <1>2, NumTagsAssumption, DataAssumption
    DEF Result, Exe, Legal, Tags, TagIndex
  <2> QED
    BY <1>2, <2>1, CycleFront
<1>3. CASE UNCHANGED frontVars
  <2>1. UNCHANGED vars /\ UNCHANGED fetchVars
    BY <1>3 DEF frontVars
  <2>2. Inv'
    BY <2>1, StepInv DEF FrontInv
  <2> QED
    BY <2>1, <2>2 DEF FrontInv, CodeAddress, fetchVars, ifVars
<1> QED
  BY <1>1, <1>2, <1>3 DEF FrontNext

(* Behind the real fetch stage, whatever program is in memory, the         *)
(* registers keep their widths, allocator and ROB agree on the ring of     *)
(* tags, and the ROB commits nothing that was not executed.                *)
THEOREM FrontEndSound == FrontSpec => [](TypeOK /\ TagRing /\ NoPhantomCommit)
<1>1. FrontInv => TypeOK /\ TagRing /\ NoPhantomCommit
  BY DEF FrontInv, Inv
<1> QED
  BY <1>1, InitFront, StepFront, PTL DEF FrontSpec

(* Each unit keeps its own invariant while the others stand still.         *)
UnitsInv == StationInv /\ BufferInv /\ FrontInv

(* They start that way ...                                                 *)
LEMMA InitUnits == MCInit => UnitsInv
BY InitStation, InitBuffer, InitFront DEF MCInit, UnitsInv

(* ... and so every step keeps all of them.                                *)
LEMMA StepUnits == UnitsInv /\ [MCNext]_<<unitVars, unit>> => UnitsInv'
<1> SUFFICES ASSUME UnitsInv, [MCNext]_<<unitVars, unit>> PROVE UnitsInv'
  OBVIOUS
<1>1. /\ [MemRsNext]_<<memRsVars, next_tag>>
      /\ [MemNext]_memVars
      /\ [FrontNext]_frontVars
  BY DEF MCNext, unitVars, stationVars
<1>2. StationInv'
  BY <1>1, StationStep DEF UnitsInv
<1>3. BufferInv'
  BY <1>1, BufferStep DEF UnitsInv
<1>4. FrontInv'
  BY <1>1, StepFront DEF UnitsInv
<1> QED
  BY <1>2, <1>3, <1>4 DEF UnitsInv

(* Every register of the memory station, of the store buffer with its      *)
(* memory and of the dispatch stage behind the fetch stage keeps its       *)
(* width, in the machine the runs check the units in.                      *)
THEOREM UnitsTypeCorrect == MCSpec => []UnitsTypeOK
<1>1. UnitsInv => UnitsTypeOK
  BY DEF UnitsInv, StationInv, BufferInv, FrontInv, Inv, UnitsTypeOK
<1> QED
  BY <1>1, InitUnits, StepUnits, PTL DEF MCSpec
=============================================================================
