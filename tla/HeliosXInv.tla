----------------------------- MODULE HeliosXInv -----------------------------
(***************************************************************************)
(* Why the core of HeliosX is right: its inductive invariant, part by      *)
(* part.  TLC checks it on small cores, HeliosXProofs proves it for all.   *)
(***************************************************************************)
EXTENDS HeliosX

(* What the invariant assumes of the program and of the sizes: whoever     *)
(* takes a tag goes to the ALU station, the only unit that is connected,   *)
(* and there are tags for all instructions the station and those that      *)
(* overtook them can be (Consts.vh has 63 tags for 8 entries).             *)
AluProgram == \A i \in Program : i.opcode \notin {"LOAD", "JAL", "JALR"}

RingCovers == NumTags >= 2 * NumEntries - 1

-----------------------------------------------------------------------------
(* Where the instructions are.                                             *)
ForAlu(c) == c.rs_ent = "ALU"

BusyEntries == {e \in Entries : busy[e]}

Waiting == {entry[e].tag : e \in BusyEntries}

InAlu(t) == alu_latch.rob_we /\ alu_latch.rrf_tag = t

(* Writing instructions and those for the station are the same.            *)
AluOnlyStages ==
  /\ dp.alloc
  /\ ForAlu(id) <=> id.wr_reg
  /\ ForAlu(dp.ctl) <=> dp.ctl.wr_reg
  /\ \A e \in BusyEntries : entry[e].ctl.wr_reg

(* The result latch of the ALU holds an instruction that executes, or tag  *)
(* 0, which wakes nobody.                                                  *)
LatchLegal ==
  /\ alu_latch.rrf_we = alu_latch.rob_we
  /\ alu_latch.rob_we => \E t \in Tags : InAlu(t) /\ Executing(t)
  /\ ~alu_latch.rob_we => alu_latch.rrf_tag = 0

(* Whoever executes is in one entry of the station or in that latch.       *)
PlacesOK ==
  /\ \A t \in Waiting : Executing(t) /\ ~InAlu(t)
  /\ \A e, f \in BusyEntries : entry[e].tag = entry[f].tag => e = f
  /\ \A t \in Tags : Executing(t) => t \in Waiting \/ InAlu(t)

-----------------------------------------------------------------------------
(* The station is never full: what is on its way to it, and what has just  *)
(* left it, fits beside what it holds into all entries but one.  The last  *)
(* entry is thus never written, and its tag 0 is the least when no entry   *)
(* is ready.                                                               *)
Claimed == Cardinality(BusyEntries) + Bit(ForAlu(dp.ctl))

RoomForAll ==
  /\ Claimed + Bit(ForAlu(id)) < NumEntries
  /\ Claimed + Bit(alu_latch.rob_we) < NumEntries

LastUnused ==
  LET e == NumEntries - 1
  IN  ~busy[e] /\ entry[e].tag = 0 /\ (NumEntries > 1 => ~sort_bit[e])

(* An operand that is not ready holds the tag of an older instruction that *)
(* has not finished.                                                       *)
Awaits(op, t) ==
  op \in Tags /\ InFlight(op) /\ ~finish[op] /\ Offset(op) < Offset(t)

WaitsForOlder ==
  /\ ForAlu(dp.ctl) =>
       /\ ~dp.rdy1 => Awaits(dp.src1, dp.tag)
       /\ ~dp.rdy2 => Awaits(dp.src2, dp.tag)
  /\ \A e \in BusyEntries :
       /\ ~entry[e].valid1 => Awaits(entry[e].op1, entry[e].tag)
       /\ ~entry[e].valid2 => Awaits(entry[e].op2, entry[e].tag)

(* A tag of the ring that is no less than the commit pointer was handed    *)
(* out before the wrap, if there was one.  The sort bits tell the two      *)
(* sides apart from the second edge after the wrap on; until then all      *)
(* entries are from before it and have the bit.                            *)
BeforeWrap(t) == t >= commit_ptr_1

Wrapping == nextrrfcyc \/ nextrrfcyc_reg

SortBits ==
  /\ nextrrfcyc <=> dp.ctl.wr_reg /\ dp.tag = NumTags
  /\ nextrrfcyc_reg => dp.tag = 1
  /\ \A e \in BusyEntries :
       IF sort_bit[e]
       THEN BeforeWrap(entry[e].tag) <=> (Wrapping \/ BeforeWrap(rrfptr))
       ELSE BeforeWrap(entry[e].tag) /\ ~Wrapping /\ ~BeforeWrap(rrfptr)

-----------------------------------------------------------------------------
(* Why tags do not run out: an instruction that waits in the station is    *)
(* overtaken by a younger one only while the ALU holds an instruction      *)
(* older than all that wait; the oldest one issues next.  Who is overtaken *)
(* once more has one fewer ahead.                                          *)
Out == {t \in Tags : InFlight(t) /\ ~InLatch(t) /\ (finish[t] \/ InAlu(t))}

Overtakers(t) == {u \in Out : Offset(u) > Offset(t)}

Ahead(t) == {u \in Waiting : Offset(u) < Offset(t)}

Behind(t) == ForAlu(dp.ctl) \/ \E u \in Waiting : Offset(u) > Offset(t)

AluIsOldest ==
  alu_latch.rob_we /\ \A u \in Waiting : Offset(alu_latch.rrf_tag) < Offset(u)

Overtaken(t) ==
  Cardinality(Overtakers(t)) + Cardinality(Ahead(t)) + Bit(AluIsOldest)
    + Bit(Overtakers(t) # {} \/ Behind(t))

Overtaking ==
  /\ \A t \in Waiting : Overtaken(t) <= NumEntries - 2
  /\ Cardinality(Out) <= NumEntries - 1
  /\ InAlu(commit_ptr_1) /\ Waiting # {} => Cardinality(Out) <= NumEntries - 2

-----------------------------------------------------------------------------
(* Where the values are.  What instruction t reads of register r: zero,    *)
(* the architectural value when no older instruction in flight writes r,   *)
(* or the result of the youngest of those, which is in the RRF or still to *)
(* come under its tag.                                                     *)
Older(r, t) == {w \in Writers(r) : Offset(w) < Offset(t)}

Supplies(r, t, src, rdy) ==
  \/ r = 0 /\ rdy /\ src = 0
  \/ r # 0 /\ Older(r, t) = {} /\ rdy /\ src = arf_data[r]
  \/ /\ r # 0
     /\ \E w \in Tags :
          /\ IsYoungest(w, Older(r, t))
          /\ IF rdy THEN finish[w] /\ ~InLatch(w) /\ src = rrf_data[w]
             ELSE src = w

(* The result of t is the one of its instruction on what it reads.         *)
Computed(t, result) ==
  \E a, b \in Operand :
    /\ Supplies(insn[t].rs1, t, a, TRUE)
    /\ Supplies(insn[t].rs2, t, b, TRUE)
    /\ result = AluResult(insn[t], a, b)

(* Each instruction keeps its control word, its operands and its result on *)
(* the way from the DP/SW register through the station and the ALU to the  *)
(* RRF, while others finish and commit.                                    *)
ValuesOK ==
  /\ id \in Fetchable
  /\ \A t \in Tags : InFlight(t) =>
       /\ insn[t] \in {Decode(i) : i \in Program} /\ insn[t].rd = Destination(t)
       /\ InLatch(t) =>
            /\ insn[t] = dp.ctl
            /\ Supplies(insn[t].rs1, t, dp.src1, dp.rdy1)
            /\ Supplies(insn[t].rs2, t, dp.src2, dp.rdy2)
       /\ \A e \in BusyEntries : entry[e].tag = t =>
            /\ insn[t] = entry[e].ctl
            /\ Supplies(insn[t].rs1, t, entry[e].op1, entry[e].valid1)
            /\ Supplies(insn[t].rs2, t, entry[e].op2, entry[e].valid2)
       /\ InAlu(t) => Computed(t, alu_latch.result)
       /\ finish[t] /\ ~InLatch(t) => Computed(t, rrf_data[t])

-----------------------------------------------------------------------------
(* All of it; with it go the invariants of RenameCommit.                   *)
CoreInv ==
  /\ CoreTypeOK
  /\ AluOnlyStages /\ LatchLegal /\ PlacesOK
  /\ RoomForAll /\ LastUnused
  /\ WaitsForOlder /\ SortBits
  /\ Overtaking
=============================================================================
