---------------------------- MODULE HeliosXProofs ----------------------------
(***************************************************************************)
(* Proofs about the core of HeliosX for every size of ring, station and    *)
(* register file, every program for the ALU and every result function.     *)
(***************************************************************************)
EXTENDS HeliosXInv, RenameTableProofs, RSAluProofs

USE NumTagsAssumption, NumRegsAssumption, DataAssumption, NumEntriesAssumption

-----------------------------------------------------------------------------
(* One clock edge from a state in which the invariant holds.               *)
FullInv == PacedInv /\ CoreInv

Edge(next) == FullInv /\ next \in Fetchable /\ Cycle(next)

(* The latch of the ALU is a result bus as RenameCommit wants it.          *)
LEMMA EdgeIsClock ==
  ASSUME NEW next, Edge(next)
  PROVE  /\ PacedInv /\ Inv /\ TypeOK
         /\ next \in Control /\ alu_latch \in Exe /\ Legal(alu_latch)
         /\ Clock(next, alu_latch)
         /\ ~StallDP(commit_1)
<1>1. PacedInv /\ Inv /\ TypeOK
  BY DEF Edge, FullInv, PacedInv, Inv
<1>2. next \in Control
  BY FetchableIsControl DEF Edge
<1>3. alu_latch \in Exe
  BY DEF Edge, FullInv, CoreInv, CoreTypeOK, ExTypeOK, Exe
<1>4. Legal(alu_latch)
  BY DEF Edge, FullInv, CoreInv, LatchLegal, InAlu, Legal
<1>5. Clock(next, alu_latch)
  BY DEF Edge, Cycle
<1>6. ~StallDP(commit_1)
  BY <1>1, NoStall DEF PacedInv
<1> QED
  BY <1>1, <1>2, <1>3, <1>4, <1>5, <1>6

(* What an edge loads into the two pipeline registers.                     *)
LEMMA PipelineStep ==
  ASSUME NEW next, Edge(next)
  PROVE  /\ id' = next
         /\ dp'.alloc = TRUE /\ dp'.tag = rrfptr /\ dp'.ctl = id
         /\ dp'.src1 = SourceBus(id.rs1, alu_latch)
         /\ dp'.rdy1 = SourceReady(id.rs1, alu_latch)
         /\ dp'.src2 = SourceBus(id.rs2, alu_latch)
         /\ dp'.rdy2 = SourceReady(id.rs2, alu_latch)
         /\ nextrrfcyc_reg' = nextrrfcyc
<1>1. /\ id' = IF StallDP(commit_1) THEN id ELSE next
      /\ dp' = [alloc |-> ~StallDP(commit_1), tag |-> rrfptr, ctl |-> id,
                src1 |-> SourceBus(id.rs1, alu_latch),
                rdy1 |-> SourceReady(id.rs1, alu_latch),
                src2 |-> SourceBus(id.rs2, alu_latch),
                rdy2 |-> SourceReady(id.rs2, alu_latch)]
      /\ nextrrfcyc_reg' = nextrrfcyc
  BY EdgeIsClock DEF Clock, DispatchClock
<1>2. ~StallDP(commit_1)
  BY EdgeIsClock
<1> QED
  BY <1>1, <1>2

-----------------------------------------------------------------------------
(* The station over an edge: the instruction that arrives from the DP/SW   *)
(* register, and the one that goes to the ALU.                             *)
Arrives(e) == ForAlu(dp.ctl) /\ IsSlot(e)

Goes(e) == Issue /\ e = IssueEntry

Content(e) == IF Arrives(e) THEN RsPort ELSE entry[e]

(* An entry over an edge: written by the DP/SW register, issued, or kept;  *)
(* woken in every case.                                                    *)
LEMMA StationStep ==
  ASSUME NEW next, Edge(next), NEW e \in Entries
  PROVE  /\ entry'[e] = Wakeup(Content(e), ResultBuses)
         /\ busy'[e] <=> (Arrives(e) \/ busy[e]) /\ ~Goes(e)
         /\ sort_bit'[e] <=> Arrives(e) \/ (sort_bit[e] /\ ~nextrrfcyc_reg)
         /\ Arrives(e) => ~busy[e] /\ ~Goes(e)
         /\ Goes(e) => Ready(e) /\ busy[e]
<1>1. RsClock(RsRequest, StallDP(commit_1), nextrrfcyc_reg, ResultBuses)
  BY DEF Edge, Cycle
<1>2. RsRequest = <<>> \/ RsRequest = <<RsPort>>
  BY DEF RsRequest
<1>3. /\ Written(e, RsRequest, StallDP(commit_1)) <=>
           Takes(e, RsRequest, StallDP(commit_1))
      /\ Written(e, RsRequest, StallDP(commit_1)) =>
           RsRequest[Port(e)] = RsPort
  BY <1>2, WrittenIs
<1>4. RsRequest # <<>> <=> ForAlu(dp.ctl)
  BY DEF RsRequest, ForAlu
<1>5. Written(e, RsRequest, StallDP(commit_1)) <=> Arrives(e)
  BY <1>3, <1>4, EdgeIsClock DEF Takes, Arrives
<1>6. entry'[e] = Wakeup(Content(e), ResultBuses)
  BY <1>1, <1>3, <1>5 DEF RsClock, Stored, Content
<1>7. busy'[e] <=> (Arrives(e) \/ busy[e]) /\ ~Goes(e)
  BY <1>1, <1>5 DEF RsClock, Goes
<1>8. sort_bit'[e] <=> Arrives(e) \/ (sort_bit[e] /\ ~nextrrfcyc_reg)
  BY <1>1, <1>5 DEF RsClock
<1>9. Goes(e) => Ready(e) /\ busy[e]
  BY DEF Goes, Issue, Ready
<1>10. Arrives(e) => ~busy[e]
  BY DEF Arrives, IsSlot, FreeEntries
<1> QED
  BY <1>6, <1>7, <1>8, <1>9, <1>10

(* Wakeup changes the operands and nothing else.                           *)
LEMMA WakeupIs ==
  ASSUME NEW ent \in [tag: TagIndex, ctl: Control, op1: Operand,
                      valid1: BOOLEAN, op2: Operand, valid2: BOOLEAN],
         alu_latch \in Exe
  PROVE  LET new == Wakeup(ent, ResultBuses) IN
         /\ new.tag = ent.tag /\ new.ctl = ent.ctl
         /\ new.op1 = Resolve(ent.op1, ent.valid1, ResultBuses)
         /\ new.valid1 = Resolved(ent.op1, ent.valid1, ResultBuses)
         /\ new.op2 = Resolve(ent.op2, ent.valid2, ResultBuses)
         /\ new.valid2 = Resolved(ent.op2, ent.valid2, ResultBuses)
         /\ new \in [tag: TagIndex, ctl: Control, op1: Operand,
                     valid1: BOOLEAN, op2: Operand, valid2: BOOLEAN]
<1>1. ASSUME NEW op \in Operand, NEW ready \in BOOLEAN
      PROVE  /\ Resolve(op, ready, ResultBuses) \in Operand
             /\ Resolved(op, ready, ResultBuses) \in BOOLEAN
  <2>1. /\ Resolve(op, ready, ResultBuses) =
             IF ready THEN op
             ELSE IF op = alu_latch.rrf_tag THEN alu_latch.result
             ELSE IF op = 0 THEN 0 ELSE op
    BY ResolveIs DEF ResultBuses
  <2>2. alu_latch.result \in Data /\ 0 \in Data
    BY DEF Exe
  <2>3. Resolve(op, ready, ResultBuses) \in Operand
    BY <2>1, <2>2 DEF Operand
  <2> QED
    BY <2>3 DEF Resolved
<1>2. /\ Resolve(ent.op1, ent.valid1, ResultBuses) \in Operand
      /\ Resolved(ent.op1, ent.valid1, ResultBuses) \in BOOLEAN
      /\ Resolve(ent.op2, ent.valid2, ResultBuses) \in Operand
      /\ Resolved(ent.op2, ent.valid2, ResultBuses) \in BOOLEAN
  BY <1>1
<1> QED
  BY <1>2 DEF Wakeup

(* What the DP/SW register brings to the station, field by field.          *)
LEMMA PortTyped ==
  ASSUME TypeOK
  PROVE  /\ RsPort \in [tag: TagIndex, ctl: Control, op1: Operand,
                        valid1: BOOLEAN, op2: Operand, valid2: BOOLEAN]
         /\ RsPort.tag = dp.tag /\ RsPort.ctl = dp.ctl
         /\ RsPort.op1 = dp.src1 /\ RsPort.valid1 = dp.rdy1
         /\ RsPort.op2 = dp.src2 /\ RsPort.valid2 = dp.rdy2
         /\ dp.tag \in Tags
<1>1. dp \in [alloc: BOOLEAN, tag: Tags, ctl: Control, src1: Operand,
              rdy1: BOOLEAN, src2: Operand, rdy2: BOOLEAN]
  BY DEF TypeOK, DispatchTypeOK
<1>2. dp.tag \in TagIndex
  BY <1>1 DEF Tags, TagIndex
<1> QED
  BY <1>1, <1>2 DEF RsPort

(* What an edge makes of the entries: tag and control word stay, and an    *)
(* operand meets the latch of the ALU.                                     *)
LEMMA EntryStep ==
  ASSUME NEW next, Edge(next), NEW e \in Entries
  PROVE  /\ entry'[e] \in [tag: TagIndex, ctl: Control, op1: Operand,
                           valid1: BOOLEAN, op2: Operand, valid2: BOOLEAN]
         /\ entry'[e].tag = Content(e).tag
         /\ entry'[e].ctl = Content(e).ctl
         /\ entry'[e].op1 =
              Resolve(Content(e).op1, Content(e).valid1, ResultBuses)
         /\ entry'[e].valid1 =
              Resolved(Content(e).op1, Content(e).valid1, ResultBuses)
         /\ entry'[e].op2 =
              Resolve(Content(e).op2, Content(e).valid2, ResultBuses)
         /\ entry'[e].valid2 =
              Resolved(Content(e).op2, Content(e).valid2, ResultBuses)
<1>1. TypeOK /\ alu_latch \in Exe
  BY EdgeIsClock
<1>2. entry[e] \in [tag: TagIndex, ctl: Control, op1: Operand,
                    valid1: BOOLEAN, op2: Operand, valid2: BOOLEAN]
  BY DEF Edge, FullInv, CoreInv, CoreTypeOK, RsTypeOK
<1>3. Content(e) \in [tag: TagIndex, ctl: Control, op1: Operand,
                      valid1: BOOLEAN, op2: Operand, valid2: BOOLEAN]
  BY <1>1, <1>2, PortTyped DEF Content
<1>4. entry'[e] = Wakeup(Content(e), ResultBuses)
  BY StationStep
<1> QED
  BY <1>1, <1>3, <1>4, WakeupIs

(* What the selected entry leaves in the latch of the ALU.                 *)
LEMMA AluStep ==
  ASSUME NEW next, Edge(next)
  PROVE  /\ IssueEntry \in Entries
         /\ alu_latch'.rob_we = Issue
         /\ alu_latch'.rrf_we = (Issue /\ entry[IssueEntry].ctl.wr_reg)
         /\ alu_latch'.rrf_tag = entry[IssueEntry].tag
         /\ ExTypeOK'
<1> DEFINE sel == Wakeup(entry[IssueEntry], ResultBuses)
<1>1. RsTypeOK /\ alu_latch \in Exe
  BY EdgeIsClock DEF Edge, FullInv, CoreInv, CoreTypeOK
<1>2. TagsInRange
  BY <1>1 DEF RsTypeOK, TagsInRange
<1>3. IssueEntry \in Entries
  BY <1>2, SelectsOne
<1>4. entry[IssueEntry] \in [tag: TagIndex, ctl: Control, op1: Operand,
                             valid1: BOOLEAN, op2: Operand, valid2: BOOLEAN]
  BY <1>1, <1>3 DEF RsTypeOK
<1>5. /\ sel.tag = entry[IssueEntry].tag /\ sel.ctl = entry[IssueEntry].ctl
      /\ sel \in [tag: TagIndex, ctl: Control, op1: Operand,
                  valid1: BOOLEAN, op2: Operand, valid2: BOOLEAN]
  BY <1>1, <1>4, WakeupIs
<1>6. alu_latch' = [result  |-> AluResult(sel.ctl, sel.op1, sel.op2),
                    rrf_tag |-> sel.tag, rob_we |-> Issue,
                    rrf_we  |-> Issue /\ sel.ctl.wr_reg]
  BY DEF Edge, Cycle, ExClock, Issued
<1>7. AluResult(sel.ctl, sel.op1, sel.op2) \in Data
  <2>1. /\ sel.ctl \in Control /\ sel.op1 \in Operand /\ sel.op2 \in Operand
    BY <1>5
  <2> HIDE DEF sel
  <2>2. /\ sel.ctl.pc \in Operand /\ sel.ctl.imm \in Operand /\ 0 \in Operand
        /\ sel.ctl.alu_op \in Fn
    BY <2>1 DEF Control, Operand
  <2>3. /\ SrcA(sel.ctl, sel.op1) \in Operand
        /\ SrcB(sel.ctl, sel.op2) \in Operand
    BY <2>1, <2>2 DEF SrcA, SrcB
  <2> QED
    BY <2>2, <2>3, AluAssumption DEF AluResult
<1>8. Issue \in BOOLEAN /\ sel.ctl.wr_reg \in BOOLEAN
  BY <1>5 DEF Issue, Ready, Control
<1> HIDE DEF sel
<1>9. ExTypeOK'
  BY <1>5, <1>6, <1>7, <1>8 DEF ExTypeOK
<1> QED
  BY <1>3, <1>5, <1>6, <1>9

-----------------------------------------------------------------------------
(* Types.                                                                  *)
LEMMA StationTyped ==
  ASSUME NEW next, Edge(next)
  PROVE  RsTypeOK' /\ insn' \in [Tags -> Control]
<1>1. /\ RsClock(RsRequest, StallDP(commit_1), nextrrfcyc_reg, ResultBuses)
      /\ insn' = [t \in Tags |->
           IF t = rrfptr /\ id.wr_reg /\ ~StallDP(commit_1) THEN id
           ELSE IF t = commit_ptr_1 /\ commit_1 THEN Bubble ELSE insn[t]]
  BY DEF Edge, Cycle
<1>2. \A e \in Entries :
        entry'[e] \in [tag: TagIndex, ctl: Control, op1: Operand,
                       valid1: BOOLEAN, op2: Operand, valid2: BOOLEAN]
  BY EntryStep
<1>3. entry' \in [Entries -> [tag: TagIndex, ctl: Control, op1: Operand,
                              valid1: BOOLEAN, op2: Operand, valid2: BOOLEAN]]
  <2>1. entry' = [e \in Entries |-> entry'[e]]
    BY <1>1 DEF RsClock
  <2> QED
    BY <1>2, <2>1
<1>4. busy' \in [Entries -> BOOLEAN] /\ sort_bit' \in [Entries -> BOOLEAN]
  <2>1. \A e \in Entries : Written(e, RsRequest, StallDP(commit_1)) \in BOOLEAN
    BY DEF Written
  <2>2. sort_bit \in [Entries -> BOOLEAN]
    BY DEF Edge, FullInv, CoreInv, CoreTypeOK, RsTypeOK
  <2>3. busy' \in [Entries -> BOOLEAN]
    BY <1>1 DEF RsClock
  <2>4. sort_bit' \in [Entries -> BOOLEAN]
    BY <1>1, <2>1, <2>2 DEF RsClock
  <2> QED
    BY <2>3, <2>4
<1>5. id \in Control /\ Bubble \in Control /\ insn \in [Tags -> Control]
  <2>1. id \in Control
    BY EdgeIsClock, WireTypes
  <2>2. Bubble \in Control
    BY FetchableIsControl DEF Fetchable
  <2>3. insn \in [Tags -> Control]
    BY DEF Edge, FullInv, CoreInv, CoreTypeOK
  <2> QED
    BY <2>1, <2>2, <2>3
<1>6. insn' \in [Tags -> Control]
  BY <1>1, <1>5
<1> QED
  BY <1>3, <1>4, <1>6 DEF RsTypeOK

(* Every edge keeps the widths.                                            *)
LEMMA CoreTypePreserved ==
  ASSUME NEW next, Edge(next)
  PROVE  CoreTypeOK'
<1>1. TypeOK'
  BY EdgeIsClock, ClockInv DEF Inv
<1> QED
  BY <1>1, AluStep, StationTyped DEF CoreTypeOK

(* What is fetched, and so what is in the stages, is for the station if it *)
(* writes a register.                                                      *)
LEMMA StagesPreserved ==
  ASSUME NEW next, Edge(next), AluProgram
  PROVE  AluOnlyStages'
<1>1. ForAlu(next) <=> next.wr_reg
  <2>1. CASE next = Bubble
    BY <2>1 DEF Bubble, ForAlu
  <2>2. CASE \E i \in Program : next = Decode(i)
    <3>1. PICK i \in Program : next = Decode(i)
      BY <2>2
    <3>2. next.wr_reg = wr_reg(i) /\ next.rs_ent = rs_ent(i)
      BY <3>1 DEF Decode
    <3>3. i.opcode \in Opcode /\ i.opcode \notin {"LOAD", "JAL", "JALR"}
      BY ProgramAssumption DEF AluProgram, Instruction
    <3> QED
      BY <3>2, <3>3 DEF ForAlu, wr_reg, rs_ent, Opcode
  <2> QED
    BY <2>1, <2>2 DEF Edge, Fetchable
<1>2. /\ dp.alloc
      /\ ForAlu(id) <=> id.wr_reg
      /\ ForAlu(dp.ctl) <=> dp.ctl.wr_reg
      /\ \A e \in BusyEntries : entry[e].ctl.wr_reg
  BY DEF Edge, FullInv, CoreInv, AluOnlyStages
<1>3. id' = next /\ dp'.alloc = TRUE /\ dp'.ctl = id
  BY PipelineStep
<1>4. ASSUME NEW e \in Entries, busy'[e] PROVE entry'[e].ctl.wr_reg
  <2>1. entry'[e].ctl = Content(e).ctl
    BY EntryStep
  <2>2. CASE Arrives(e)
    <3>1. Content(e).ctl = dp.ctl
      BY <2>2, EdgeIsClock, PortTyped DEF Content
    <3> QED
      BY <1>2, <2>1, <2>2, <3>1 DEF Arrives
  <2>3. CASE ~Arrives(e)
    <3>1. busy[e]
      BY <1>4, <2>3, StationStep
    <3> QED
      BY <1>2, <2>1, <2>3, <3>1 DEF Content, BusyEntries
  <2> QED
    BY <2>2, <2>3
<1> QED
  BY <1>1, <1>2, <1>3, <1>4 DEF AluOnlyStages, ForAlu, BusyEntries

-----------------------------------------------------------------------------
(* Room in the station.                                                    *)
LEMMA BusyIsFinite ==
  /\ IsFiniteSet(BusyEntries) /\ Cardinality(BusyEntries) \in Nat
  /\ IsFiniteSet(BusyEntries') /\ Cardinality(BusyEntries') \in Nat
BY EntriesFinite DEF BusyEntries

(* The instruction in the DP/SW register finds an entry, not the last one. *)
LEMMA FindsSlot ==
  ASSUME NEW next, Edge(next), ForAlu(dp.ctl)
  PROVE  \E e \in Entries : Arrives(e) /\ e # NumEntries - 1
<1>1. Cardinality(BusyEntries) + 1 < NumEntries
  <2>1. Claimed + Bit(ForAlu(id)) < NumEntries
    BY DEF Edge, FullInv, CoreInv, RoomForAll
  <2> QED
    BY <2>1, BusyIsFinite DEF Claimed, Bit
<1>2. NumEntries - 1 \in Entries /\ ~busy[NumEntries - 1]
  BY DEF Edge, FullInv, CoreInv, LastUnused, Entries
<1>3. FreeEntries # {}
  BY <1>2 DEF FreeEntries
<1>4. PICK e \in Entries : IsSlot(e)
  BY <1>3, SlotIs
<1>5. ASSUME e = NumEntries - 1 PROVE FALSE
  <2>1. BusyEntries = Entries \ {NumEntries - 1}
    BY <1>2, <1>4, <1>5 DEF IsSlot, FreeEntries, BusyEntries, Entries
  <2>2. Cardinality(BusyEntries) = NumEntries - 1
    BY <1>2, <2>1, EntriesFinite, FS_RemoveElement
  <2> QED
    BY <1>1, <2>2
<1> QED
  BY <1>4, <1>5 DEF Arrives

(* The number of busy entries.                                             *)
LEMMA BusyStep ==
  ASSUME NEW next, Edge(next)
  PROVE  Cardinality(BusyEntries') =
           Cardinality(BusyEntries) + Bit(ForAlu(dp.ctl)) - Bit(Issue)
<1> DEFINE came == {e \in Entries : busy[e] \/ Arrives(e)}
<1>1. IsFiniteSet(came) /\ Cardinality(came) \in Nat
  BY EntriesFinite
<1>2. Cardinality(came) = Cardinality(BusyEntries) + Bit(ForAlu(dp.ctl))
  <2>1. CASE ForAlu(dp.ctl)
    <3>1. PICK e \in Entries : Arrives(e)
      BY <2>1, FindsSlot
    <3>2. e \notin BusyEntries
      BY <3>1, StationStep DEF BusyEntries
    <3>3. came = BusyEntries \cup {e}
      BY <3>1, SlotIs DEF BusyEntries, Arrives
    <3> QED
      BY <2>1, <3>2, <3>3, BusyIsFinite, FS_AddElement DEF Bit
  <2>2. CASE ~ForAlu(dp.ctl)
    <3>1. came = BusyEntries
      BY <2>2 DEF Arrives, BusyEntries
    <3> HIDE DEF came
    <3> QED
      BY <2>2, <3>1, BusyIsFinite DEF Bit
  <2> QED
    BY <2>1, <2>2
<1>3. Cardinality(BusyEntries') = Cardinality(came) - Bit(Issue)
  <2>1. BusyEntries' = {e \in came : ~Goes(e)}
    BY StationStep DEF BusyEntries
  <2>2. CASE Issue
    <3>1. IssueEntry \in Entries /\ Goes(IssueEntry)
      BY <2>2, AluStep DEF Goes
    <3>2. IssueEntry \in came
      BY <3>1, StationStep
    <3>3. BusyEntries' = came \ {IssueEntry}
      BY <2>1, <2>2 DEF Goes
    <3> HIDE DEF came
    <3> QED
      BY <1>1, <2>2, <3>2, <3>3, FS_RemoveElement DEF Bit
  <2>3. CASE ~Issue
    <3>1. BusyEntries' = came
      BY <2>1, <2>3 DEF Goes
    <3> QED
      BY <1>1, <2>3, <3>1 DEF Bit
  <2> QED
    BY <2>2, <2>3
<1> HIDE DEF came
<1> QED
  BY <1>1, <1>2, <1>3, BusyIsFinite DEF Bit

(* Every instruction on its way moves on by one stage on every edge.       *)
LEMMA RoomPreserved ==
  ASSUME NEW next, Edge(next), Paced(next, 1)
  PROVE  RoomForAll'
<1>1. /\ Claimed + Bit(ForAlu(id)) < NumEntries
      /\ Claimed = Cardinality(BusyEntries) + Bit(ForAlu(dp.ctl))
  BY DEF Edge, FullInv, CoreInv, RoomForAll, Claimed
<1>2. Cardinality(BusyEntries) \in Nat /\ Cardinality(BusyEntries') \in Nat
  BY BusyIsFinite
<1>3. Claimed' = Cardinality(BusyEntries') + Bit(ForAlu(id))
  BY PipelineStep DEF Claimed, ForAlu
<1>4. Claimed' = Claimed + Bit(ForAlu(id)) - Bit(Issue)
  BY <1>1, <1>2, <1>3, BusyStep DEF Bit
<1>5. Claimed' + Bit(alu_latch'.rob_we) < NumEntries
  BY <1>1, <1>2, <1>4, AluStep DEF Bit
<1>6. Claimed' + Bit(ForAlu(next)) < NumEntries
  <2>1. CASE ForAlu(next)
    <3>1. Occupied = Cardinality(BusyEntries')
      BY DEF Occupied, BusyEntries
    <3>2. Occupied + Bit(ForAlu(id)) + 1 + 1 <= NumEntries
      BY <2>1, PipelineStep DEF Paced, ForAlu
    <3> QED
      BY <1>2, <1>3, <2>1, <3>1, <3>2 DEF Bit
  <2>2. CASE ~ForAlu(next)
    BY <1>1, <1>2, <1>4, <2>2 DEF Bit
  <2> QED
    BY <2>1, <2>2
<1>7. id' = next
  BY PipelineStep
<1> QED
  BY <1>5, <1>6, <1>7 DEF RoomForAll, ForAlu

(* The last entry stays unused.                                            *)
LEMMA LastPreserved ==
  ASSUME NEW next, Edge(next)
  PROVE  LastUnused'
<1> DEFINE last == NumEntries - 1
<1>1. last \in Entries
  BY DEF Entries
<1>2. /\ ~busy[last] /\ entry[last].tag = 0
      /\ NumEntries > 1 => ~sort_bit[last]
  BY DEF Edge, FullInv, CoreInv, LastUnused
<1>3. ~Arrives(last)
  BY <1>1, FindsSlot, SlotIs DEF Arrives
<1> HIDE DEF last
<1>4. entry'[last].tag = 0
  BY <1>1, <1>2, <1>3, EntryStep DEF Content
<1>5. ~busy'[last] /\ (NumEntries > 1 => ~sort_bit'[last])
  BY <1>1, <1>2, <1>3, StationStep
<1> QED
  BY <1>4, <1>5 DEF LastUnused, last

-----------------------------------------------------------------------------
(* Who executes, and where.                                                *)

(* The instruction in the DP/SW register is the youngest in flight.        *)
LEMMA LatchTag ==
  ASSUME NEW next, Edge(next), NEW t \in Tags
  PROVE  /\ InLatch(t) <=> ForAlu(dp.ctl) /\ t = dp.tag
         /\ InLatch(t) => InFlight(t) /\ Offset(t) = InUse - 1
<1>1. dp.alloc /\ (ForAlu(dp.ctl) <=> dp.ctl.wr_reg)
  BY DEF Edge, FullInv, CoreInv, AluOnlyStages
<1>2. LatchIsLast
  BY EdgeIsClock DEF PacedInv
<1> QED
  BY <1>1, <1>2 DEF InLatch, LatchIsLast

(* Who executes after an edge: those who did, without the one the ALU      *)
(* finishes, and the one that leaves the DP/SW register.                   *)
LEMMA ExecutingStep ==
  ASSUME NEW next, Edge(next), NEW t \in Tags
  PROVE  /\ Executing(t)' <=> (Executing(t) /\ ~InAlu(t)) \/ InLatch(t)
         /\ InAlu(t) => Executing(t)
         /\ Executing(t) => ~Leaves(t) /\ valid[t]
<1>1. PacedInv /\ Clock(next, alu_latch)
  BY EdgeIsClock
<1>2. /\ EntriesHeld /\ EntriesHeld'
  BY <1>1, EntriesHeldPreserved DEF PacedInv
<1>3. InAlu(t) => Executing(t)
  BY DEF Edge, FullInv, CoreInv, LatchLegal, InAlu
<1>4. Executing(t) => ~Leaves(t) /\ valid[t]
  BY DEF Executing, Leaves, commit_1
<1>5. Leaves(t) => InFlight(t) /\ ~InLatch(t) /\ finish[t]
  BY <1>1, HeadWrites DEF PacedInv
<1>6. ASSUME InFlight(t)
      PROVE  finish'[t] <=> ~InLatch(t) /\ (finish[t] \/ InAlu(t))
  BY <1>1, <1>6, FinishStep DEF InAlu
<1>7. Executing(t)' <=> InFlight(t)' /\ ~InLatch(t)' /\ ~finish'[t]
  BY <1>2 DEF Executing, EntriesHeld
<1>8. CASE id.wr_reg /\ t = rrfptr
  <2>1. ~InFlight(t) /\ InLatch(t)'
    BY <1>1, <1>8, TagStep
  <2> QED
    BY <1>3, <1>4, <1>7, <2>1, LatchTag DEF Executing
<1>9. CASE ~(id.wr_reg /\ t = rrfptr)
  <2>1. (InFlight(t)' <=> InFlight(t) /\ ~Leaves(t)) /\ ~InLatch(t)'
    BY <1>1, <1>9, TagStep
  <2>2. CASE InLatch(t)
    BY <1>3, <1>4, <1>5, <1>6, <1>7, <2>1, <2>2, LatchTag
  <2>3. CASE ~InLatch(t)
    BY <1>2, <1>3, <1>4, <1>6, <1>7, <2>1, <2>3 DEF Executing, EntriesHeld
  <2> QED
    BY <2>2, <2>3
<1> QED
  BY <1>3, <1>4, <1>8, <1>9

(* What is issued was waiting, and is in the latch of the ALU after the    *)
(* edge.                                                                   *)
LEMMA InAluStep ==
  ASSUME NEW next, Edge(next), NEW t \in Tags
  PROVE  /\ InAlu(t)' <=> Issue /\ entry[IssueEntry].tag = t
         /\ InAlu(t)' => t \in Waiting /\ IssueEntry \in BusyEntries
<1>1. InAlu(t)' <=> Issue /\ entry[IssueEntry].tag = t
  BY AluStep DEF InAlu
<1>2. Issue => IssueEntry \in BusyEntries
  BY AluStep DEF Issue, Ready, BusyEntries
<1> QED
  BY <1>1, <1>2 DEF Waiting

(* What PlacesOK says of the entries, for use over an edge.                *)
LEMMA WaitingExecutes ==
  ASSUME NEW next, Edge(next)
  PROVE  /\ Waiting \subseteq Tags
         /\ \A t \in Waiting : Executing(t) /\ ~InAlu(t) /\ InFlight(t)
                               /\ ~InLatch(t) /\ ~finish[t]
         /\ \A t \in Tags : Executing(t) => t \in Waiting \/ InAlu(t)
         /\ \A e, f \in BusyEntries : entry[e].tag = entry[f].tag => e = f
<1>1. PlacesOK
  BY DEF Edge, FullInv, CoreInv
<1> QED
  BY <1>1 DEF PlacesOK, Waiting, Executing, InFlight

(* An entry after the edge is the one that arrived or was there before.    *)
LEMMA EntryOrigin ==
  ASSUME NEW next, Edge(next), NEW e \in BusyEntries'
  PROVE  /\ e \in Entries /\ ~Goes(e)
         /\ Arrives(e) => entry'[e].tag = dp.tag /\ InLatch(dp.tag)
         /\ ~Arrives(e) => e \in BusyEntries /\ entry'[e].tag = entry[e].tag
<1>1. e \in Entries /\ busy'[e]
  BY DEF BusyEntries
<1>2. (Arrives(e) \/ busy[e]) /\ ~Goes(e)
  BY <1>1, StationStep
<1>3. entry'[e].tag = Content(e).tag
  BY <1>1, EntryStep
<1>4. RsPort.tag = dp.tag /\ dp.tag \in Tags
  BY EdgeIsClock, PortTyped
<1> QED
  BY <1>1, <1>2, <1>3, <1>4, LatchTag DEF Content, BusyEntries, Arrives

(* Who waits after an edge: those who did and were not issued, and the one *)
(* that arrives.                                                           *)
LEMMA WaitingStep ==
  ASSUME NEW next, Edge(next), NEW t \in Tags
  PROVE  t \in Waiting' <=> (t \in Waiting /\ ~InAlu(t)') \/ InLatch(t)
<1>1. ASSUME NEW e \in BusyEntries', entry'[e].tag = t
      PROVE  (t \in Waiting /\ ~InAlu(t)') \/ InLatch(t)
  <2>1. CASE Arrives(e)
    BY <1>1, <2>1, EntryOrigin
  <2>2. CASE ~Arrives(e)
    <3>1. e \in BusyEntries /\ entry[e].tag = t /\ ~Goes(e)
      BY <1>1, <2>2, EntryOrigin
    <3>2. ~InAlu(t)'
      BY <3>1, InAluStep, WaitingExecutes DEF Goes
    <3> QED
      BY <3>1, <3>2 DEF Waiting
  <2> QED
    BY <2>1, <2>2
<1>2. ASSUME InLatch(t) PROVE t \in Waiting'
  <2>1. ForAlu(dp.ctl) /\ t = dp.tag
    BY <1>2, LatchTag
  <2>2. PICK e \in Entries : Arrives(e)
    BY <2>1, FindsSlot
  <2>3. e \in BusyEntries'
    BY <2>2, StationStep DEF BusyEntries
  <2>4. entry'[e].tag = t
    BY <2>1, <2>2, <2>3, EntryOrigin
  <2> QED
    BY <2>3, <2>4 DEF Waiting
<1>3. ASSUME t \in Waiting, ~InAlu(t)' PROVE t \in Waiting'
  <2>1. PICK e \in BusyEntries : entry[e].tag = t
    BY <1>3 DEF Waiting
  <2>2. e \in Entries /\ ~Arrives(e) /\ ~Goes(e) /\ busy[e]
    BY <1>3, <2>1, InAluStep, StationStep DEF BusyEntries, Goes
  <2>3. e \in BusyEntries'
    BY <2>2, StationStep DEF BusyEntries
  <2>4. entry'[e].tag = t
    BY <2>1, <2>2, <2>3, EntryOrigin
  <2> QED
    BY <2>3, <2>4 DEF Waiting
<1> QED
  BY <1>1, <1>2, <1>3 DEF Waiting

(* Every edge keeps each executing instruction in one place.               *)
LEMMA PlacesPreserved ==
  ASSUME NEW next, Edge(next)
  PROVE  PlacesOK'
<1>1. ASSUME NEW t \in Waiting' PROVE Executing(t)' /\ ~InAlu(t)'
  <2>1. t \in Tags
    <3>1. PICK e \in BusyEntries' : t = entry'[e].tag
      BY DEF Waiting
    <3>2. CASE Arrives(e)
      BY <3>1, <3>2, EntryOrigin, EdgeIsClock, PortTyped
    <3>3. CASE ~Arrives(e)
      BY <3>1, <3>3, EntryOrigin, WaitingExecutes DEF Waiting
    <3> QED
      BY <3>2, <3>3
  <2>2. (t \in Waiting /\ ~InAlu(t)') \/ InLatch(t)
    BY <2>1, WaitingStep
  <2>3. Executing(t)'
    BY <2>1, <2>2, WaitingExecutes, ExecutingStep
  <2>4. ~InAlu(t)'
    BY <2>1, <2>2, InAluStep, WaitingExecutes
  <2> QED
    BY <2>3, <2>4
<1>2. ASSUME NEW e \in BusyEntries', NEW f \in BusyEntries',
             entry'[e].tag = entry'[f].tag
      PROVE  e = f
  <2>1. CASE Arrives(e) /\ Arrives(f)
    BY <2>1, EntryOrigin, SlotIs DEF Arrives
  <2>2. CASE Arrives(e) /\ ~Arrives(f)
    BY <1>2, <2>2, EntryOrigin, WaitingExecutes DEF Waiting
  <2>3. CASE ~Arrives(e) /\ Arrives(f)
    BY <1>2, <2>3, EntryOrigin, WaitingExecutes DEF Waiting
  <2>4. CASE ~Arrives(e) /\ ~Arrives(f)
    BY <1>2, <2>4, EntryOrigin, WaitingExecutes
  <2> QED
    BY <2>1, <2>2, <2>3, <2>4
<1>3. ASSUME NEW t \in Tags, Executing(t)'
      PROVE  t \in Waiting' \/ InAlu(t)'
  <2>1. (Executing(t) /\ ~InAlu(t)) \/ InLatch(t)
    BY <1>3, ExecutingStep
  <2>2. t \in Waiting \/ InLatch(t)
    BY <2>1, WaitingExecutes
  <2> QED
    BY <2>2, WaitingStep
<1> QED
  BY <1>1, <1>2, <1>3 DEF PlacesOK

(* The ALU latches an executing instruction, or tag 0.                     *)
LEMMA LegalPreserved ==
  ASSUME NEW next, Edge(next)
  PROVE  LatchLegal'
<1>1. /\ IssueEntry \in Entries
      /\ alu_latch'.rob_we = Issue
      /\ alu_latch'.rrf_we = (Issue /\ entry[IssueEntry].ctl.wr_reg)
      /\ alu_latch'.rrf_tag = entry[IssueEntry].tag
  BY AluStep
<1>2. ASSUME Issue
      PROVE  /\ entry[IssueEntry].ctl.wr_reg
             /\ \E t \in Tags : t = alu_latch'.rrf_tag /\ Executing(t)'
  <2>1. IssueEntry \in BusyEntries
    BY <1>1, <1>2 DEF Issue, Ready, BusyEntries
  <2>2. entry[IssueEntry].ctl.wr_reg
    BY <2>1 DEF Edge, FullInv, CoreInv, AluOnlyStages
  <2>3. entry[IssueEntry].tag \in Waiting
    BY <2>1 DEF Waiting
  <2>4. PICK t \in Tags : t = entry[IssueEntry].tag
    BY <2>3, WaitingExecutes
  <2>5. Executing(t)'
    BY <2>3, <2>4, WaitingExecutes, ExecutingStep
  <2> QED
    BY <1>1, <2>2, <2>4, <2>5
<1>3. ASSUME ~Issue PROVE entry[IssueEntry].tag = 0
  <2> DEFINE last == NumEntries - 1
  <2>1. RsTypeOK
    BY DEF Edge, FullInv, CoreInv, CoreTypeOK
  <2>2. TagsInRange
    BY <2>1 DEF RsTypeOK, TagsInRange
  <2>3. last \in Entries
    BY DEF Entries
  <2>4. Age(IssueEntry) <= Age(last)
    BY <1>3, <2>2, <2>3, SelectsLeast
  <2>5. entry[last].tag = 0 /\ (NumEntries > 1 => ~sort_bit[last])
    BY DEF Edge, FullInv, CoreInv, LastUnused
  <2>6. entry[IssueEntry].tag \in Nat
    BY <1>1, <2>2 DEF TagsInRange, TagIndex
  <2>7. CASE NumEntries > 1
    <3>1. Age(last) = 0
      BY <2>5, <2>7 DEF Age, Bit
    <3> QED
      BY <2>4, <2>6, <3>1 DEF Age, Bit
  <2>8. CASE NumEntries = 1
    BY <1>1, <2>5, <2>8 DEF Entries
  <2> QED
    BY <2>7, <2>8
<1>4. Issue \in BOOLEAN
  BY DEF Issue, Ready
<1> QED
  BY <1>1, <1>2, <1>3, <1>4 DEF LatchLegal, InAlu

-----------------------------------------------------------------------------
(* Operands that wait.                                                     *)

(* Over an edge an operand keeps waiting for the same older instruction,   *)
(* or it takes that one's result.                                          *)
LEMMA OperandStep ==
  ASSUME NEW next, Edge(next), NEW op, NEW ready \in BOOLEAN, NEW t \in Tags,
         InFlight(t), ~Leaves(t), ~ready => Awaits(op, t)
  PROVE  /\ ~Resolved(op, ready, ResultBuses) =>
              Resolve(op, ready, ResultBuses) = op /\ Awaits(op, t)'
         /\ ~ready /\ Resolved(op, ready, ResultBuses) =>
              /\ finish'[op]
              /\ Resolve(op, ready, ResultBuses) = rrf_data'[op]
<1> SUFFICES ASSUME ~ready
             PROVE  /\ ~Resolved(op, ready, ResultBuses) =>
                         /\ Resolve(op, ready, ResultBuses) = op
                         /\ Awaits(op, t)'
                    /\ Resolved(op, ready, ResultBuses) =>
                         /\ finish'[op]
                         /\ Resolve(op, ready, ResultBuses) = rrf_data'[op]
  BY DEF Resolved
<1>1. /\ op \in Tags /\ op # 0 /\ InFlight(op) /\ ~finish[op]
      /\ Offset(op) < Offset(t)
  BY DEF Awaits, Tags
<1>2. /\ PacedInv /\ Clock(next, alu_latch) /\ alu_latch \in Exe
  BY EdgeIsClock
<1>3. /\ Resolved(op, ready, ResultBuses) <=> op = alu_latch.rrf_tag
      /\ Resolve(op, ready, ResultBuses) =
           IF op = alu_latch.rrf_tag THEN alu_latch.result ELSE op
  BY <1>1, ResolveIs DEF ResultBuses
<1>4. /\ ~alu_latch.rob_we => alu_latch.rrf_tag = 0
      /\ alu_latch.rrf_we = alu_latch.rob_we
  BY DEF Edge, FullInv, CoreInv, LatchLegal
<1>5. finish'[op] <=> ~InLatch(op) /\ (finish[op] \/ InAlu(op))
  BY <1>1, <1>2, FinishStep DEF InAlu
<1>6. CASE op = alu_latch.rrf_tag
  <2>1. InAlu(op) /\ ~InLatch(op)
    BY <1>1, <1>4, <1>6, ExecutingStep DEF InAlu, Executing
  <2>2. rrf_data' = [rrf_data EXCEPT ![op] = alu_latch.result]
    BY <1>2, <1>4, <1>6, <2>1 DEF Clock, DispatchClock, RrfClock, InAlu
  <2>3. rrf_data'[op] = alu_latch.result
    BY <1>1, <2>2, EdgeIsClock, WireTypes DEF RrfTypeOK, Tags, TagIndex
  <2> QED
    BY <1>3, <1>5, <1>6, <2>1, <2>3
<1>7. CASE op # alu_latch.rrf_tag
  <2>1. ~Leaves(op)
    BY <1>1 DEF Leaves, commit_1
  <2>2. /\ InFlight(op)' /\ Offset(op)' = Offset(op) - Bit(commit_1)
        /\ Offset(t)' = Offset(t) - Bit(commit_1)
    <3>1. InFlight(op)'
      BY <1>1, <1>2, <2>1, TagStep
    <3> QED
      BY <1>1, <1>2, <2>1, <3>1, TagStep
  <2>3. Offset(op)' < Offset(t)'
    <3>1. Offset(op) \in Int /\ Offset(t) \in Int
      BY <1>1, EdgeIsClock, WireTypes DEF Offset, RobTypeOK, Tags
    <3> QED
      BY <1>1, <2>2, <3>1 DEF Bit
  <2>4. ~finish'[op]
    BY <1>1, <1>5, <1>7 DEF InAlu
  <2> QED
    BY <1>1, <1>3, <1>7, <2>2, <2>3, <2>4 DEF Awaits
<1> QED
  BY <1>6, <1>7

(* What the DP/SW register is loaded with: a value, or the tag of an older *)
(* instruction that has not finished.                                      *)
LEMMA SourceStep ==
  ASSUME NEW next, Edge(next), NEW r \in Regs, id.wr_reg,
         ~SourceReady(r, alu_latch)
  PROVE  \E w \in Tags : /\ w = SourceBus(r, alu_latch)
                         /\ InFlight(w)' /\ ~finish'[w]
                         /\ Offset(w)' < InUse' - 1
<1>1. /\ PacedInv /\ Clock(next, alu_latch) /\ alu_latch \in Exe
      /\ Legal(alu_latch) /\ next \in Control
  BY EdgeIsClock
<1>2. IsOperand(r, SourceBus(r, alu_latch), SourceReady(r, alu_latch))
  BY <1>1, SourceSound
<1>3. PICK w \in Tags : /\ IsYoungest(w, Writers(r))
                        /\ w = SourceBus(r, alu_latch)
                        /\ ~(finish'[w] /\ ~InLatch(w))
  BY <1>2 DEF IsOperand
<1>4. InFlight(w)
  BY <1>3 DEF IsYoungest, Writers
<1>5. finish'[w] <=> ~InLatch(w) /\ (finish[w] \/ InAlu(w))
  BY <1>1, <1>4, FinishStep DEF InAlu
<1>6. (~finish'[w] /\ ~finish[w]) \/ InLatch(w)
  BY <1>3, <1>5
<1>7. ~Leaves(w)
  BY <1>1, <1>6, HeadWrites DEF PacedInv
<1>8. w # rrfptr
  BY <1>1, <1>4, NoStall DEF PacedInv
<1>9. /\ InFlight(w)' /\ Offset(w)' = Offset(w) - Bit(commit_1)
  <2>1. InFlight(w)'
    BY <1>1, <1>4, <1>7, <1>8, TagStep
  <2> QED
    BY <1>1, <1>4, <1>7, <2>1, TagStep
<1>10. InUse' = InUse - Bit(commit_1) + 1
  <2>1. /\ freenum' = freenum + Bit(commit_1) - Bit(Renames)
        /\ freenum \in Nat
    BY EdgeIsClock, WireTypes, RingStep DEF Inv, AllocTypeOK
  <2>2. Renames
    BY <1>1, NoStall DEF PacedInv
  <2> QED
    BY <2>1, <2>2 DEF InUse, Bit
<1>11. Offset(w) \in Int /\ Offset(w) < InUse /\ InUse \in Int
  BY <1>4, EdgeIsClock, WireTypes
  DEF InFlight, Offset, InUse, RobTypeOK, AllocTypeOK, Tags
<1>12. Offset(w)' < InUse' - 1
  BY <1>9, <1>10, <1>11 DEF Bit
<1>13. ~finish'[w]
  BY <1>3, <1>5
<1> QED
  BY <1>3, <1>9, <1>12, <1>13

(* What an entry that is busy after the edge holds before its operands meet *)
(* the result: an instruction that stays in flight.                        *)
LEMMA ContentWaits ==
  ASSUME NEW next, Edge(next), NEW e \in BusyEntries'
  PROVE  \E t \in Tags : /\ t = entry'[e].tag /\ t = Content(e).tag
                         /\ InFlight(t) /\ ~Leaves(t)
                         /\ ~Content(e).valid1 => Awaits(Content(e).op1, t)
                         /\ ~Content(e).valid2 => Awaits(Content(e).op2, t)
                         /\ Content(e).valid1 \in BOOLEAN
                         /\ Content(e).valid2 \in BOOLEAN
<1> DEFINE was == Content(e)
<1>1. TypeOK
  BY EdgeIsClock
<1>2. e \in Entries
  BY EntryOrigin
<1>3. CASE Arrives(e)
  <2>1. /\ was.tag = dp.tag /\ was.op1 = dp.src1 /\ was.valid1 = dp.rdy1
        /\ was.op2 = dp.src2 /\ was.valid2 = dp.rdy2 /\ dp.tag \in Tags
        /\ dp.rdy1 \in BOOLEAN /\ dp.rdy2 \in BOOLEAN
    BY <1>1, <1>3, PortTyped DEF Content, TypeOK, DispatchTypeOK
  <2>2. InLatch(dp.tag) /\ entry'[e].tag = dp.tag /\ ForAlu(dp.ctl)
    BY <1>3, EntryOrigin DEF Arrives
  <2>3. InFlight(dp.tag) /\ ~Leaves(dp.tag)
    BY <2>1, <2>2, LatchTag, EdgeIsClock, HeadWrites DEF PacedInv
  <2>4. /\ ~dp.rdy1 => Awaits(dp.src1, dp.tag)
        /\ ~dp.rdy2 => Awaits(dp.src2, dp.tag)
    BY <2>2 DEF Edge, FullInv, CoreInv, WaitsForOlder
  <2> QED
    BY <2>1, <2>2, <2>3, <2>4
<1>4. CASE ~Arrives(e)
  <2>1. e \in BusyEntries /\ was = entry[e] /\ entry'[e].tag = entry[e].tag
    BY <1>4, EntryOrigin DEF Content
  <2>2. entry[e].tag \in Waiting
    BY <2>1 DEF Waiting
  <2>3. /\ entry[e].tag \in Tags /\ Executing(entry[e].tag)
        /\ InFlight(entry[e].tag)
    BY <2>2, WaitingExecutes
  <2>4. ~Leaves(entry[e].tag)
    BY <2>3, ExecutingStep
  <2>5. /\ ~entry[e].valid1 => Awaits(entry[e].op1, entry[e].tag)
        /\ ~entry[e].valid2 => Awaits(entry[e].op2, entry[e].tag)
        /\ entry[e].valid1 \in BOOLEAN /\ entry[e].valid2 \in BOOLEAN
    BY <1>2, <2>1
    DEF Edge, FullInv, CoreInv, WaitsForOlder, CoreTypeOK, RsTypeOK
  <2> QED
    BY <2>1, <2>3, <2>4, <2>5
<1> QED
  BY <1>3, <1>4

(* Every operand that is not ready after an edge waits for an older        *)
(* instruction that has not finished.                                      *)
LEMMA WaitsPreserved ==
  ASSUME NEW next, Edge(next)
  PROVE  WaitsForOlder'
<1>1. TypeOK
  BY EdgeIsClock
<1>2. ASSUME ForAlu(dp.ctl)'
      PROVE  /\ ~dp'.rdy1 => Awaits(dp.src1, dp.tag)'
             /\ ~dp'.rdy2 => Awaits(dp.src2, dp.tag)'
  <2>1. id.wr_reg /\ dp'.tag = rrfptr
    BY <1>2, PipelineStep DEF Edge, FullInv, CoreInv, AluOnlyStages, ForAlu
  <2>2. PICK t \in Tags : t = rrfptr
    BY <1>1, WireTypes DEF AllocTypeOK
  <2>3. Offset(t)' = InUse' - 1
    BY <2>1, <2>2, EdgeIsClock, TagStep
  <2>4. id.rs1 \in Regs /\ id.rs2 \in Regs
    BY <1>1, WireTypes
  <2>5. ASSUME ~dp'.rdy1 PROVE Awaits(dp.src1, dp.tag)'
    <3>1. PICK w \in Tags : /\ w = dp'.src1
                            /\ InFlight(w)' /\ ~finish'[w]
                            /\ Offset(w)' < InUse' - 1
      BY <2>1, <2>4, <2>5, PipelineStep, SourceStep
    <3> QED
      BY <2>1, <2>2, <2>3, <3>1 DEF Awaits, InFlight, Offset, InUse
  <2>6. ASSUME ~dp'.rdy2 PROVE Awaits(dp.src2, dp.tag)'
    <3>1. PICK w \in Tags : /\ w = dp'.src2
                            /\ InFlight(w)' /\ ~finish'[w]
                            /\ Offset(w)' < InUse' - 1
      BY <2>1, <2>4, <2>6, PipelineStep, SourceStep
    <3> QED
      BY <2>1, <2>2, <2>3, <3>1 DEF Awaits, InFlight, Offset, InUse
  <2> QED
    BY <2>5, <2>6
<1>3. ASSUME NEW e \in BusyEntries'
      PROVE  /\ ~entry'[e].valid1 => Awaits(entry[e].op1, entry[e].tag)'
             /\ ~entry'[e].valid2 => Awaits(entry[e].op2, entry[e].tag)'
  <2> DEFINE was == Content(e)
  <2>1. e \in Entries
    BY EntryOrigin
  <2>2. PICK t \in Tags : /\ t = entry'[e].tag /\ t = was.tag
                          /\ InFlight(t) /\ ~Leaves(t)
                          /\ ~was.valid1 => Awaits(was.op1, t)
                          /\ ~was.valid2 => Awaits(was.op2, t)
                          /\ was.valid1 \in BOOLEAN /\ was.valid2 \in BOOLEAN
    BY ContentWaits
  <2>3. /\ entry'[e].op1 = Resolve(was.op1, was.valid1, ResultBuses)
        /\ entry'[e].valid1 = Resolved(was.op1, was.valid1, ResultBuses)
        /\ entry'[e].op2 = Resolve(was.op2, was.valid2, ResultBuses)
        /\ entry'[e].valid2 = Resolved(was.op2, was.valid2, ResultBuses)
    BY <2>1, EntryStep
  <2> HIDE DEF was
  <2>4. ASSUME ~entry'[e].valid1
        PROVE  Awaits(entry[e].op1, entry[e].tag)'
    <3>1. PICK w : w = was.op1
      OBVIOUS
    <3>2. PICK b \in BOOLEAN : b = was.valid1
      BY <2>2
    <3>3. ~Resolved(w, b, ResultBuses) /\ (~b => Awaits(w, t))
      BY <2>2, <2>3, <2>4, <3>1, <3>2
    <3>4. Resolve(w, b, ResultBuses) = w /\ Awaits(w, t)'
      BY <2>2, <3>3, OperandStep
    <3>5. w = entry'[e].op1 /\ t = entry'[e].tag
      BY <2>2, <2>3, <3>1, <3>2, <3>4
    <3> QED
      BY <3>4, <3>5 DEF Awaits, InFlight, Offset, InUse
  <2>5. ASSUME ~entry'[e].valid2
        PROVE  Awaits(entry[e].op2, entry[e].tag)'
    <3>1. PICK w : w = was.op2
      OBVIOUS
    <3>2. PICK b \in BOOLEAN : b = was.valid2
      BY <2>2
    <3>3. ~Resolved(w, b, ResultBuses) /\ (~b => Awaits(w, t))
      BY <2>2, <2>3, <2>5, <3>1, <3>2
    <3>4. Resolve(w, b, ResultBuses) = w /\ Awaits(w, t)'
      BY <2>2, <3>3, OperandStep
    <3>5. w = entry'[e].op2 /\ t = entry'[e].tag
      BY <2>2, <2>3, <3>1, <3>2, <3>4
    <3> QED
      BY <3>4, <3>5 DEF Awaits, InFlight, Offset, InUse
  <2> QED
    BY <2>4, <2>5
<1> QED
  BY <1>2, <1>3 DEF WaitsForOlder

-----------------------------------------------------------------------------
(* The ring over an edge, as numbers.                                      *)
LEMMA RingEdge ==
  ASSUME NEW next, Edge(next)
  PROVE  /\ freenum \in 1..NumTags /\ freenum' \in 1..NumTags
         /\ commit_ptr_1 \in 1..NumTags /\ commit_ptr_1' \in 1..NumTags
         /\ rrfptr \in 1..NumTags /\ rrfptr' \in 1..NumTags
         /\ TagRing /\ TagRing'
         /\ id.wr_reg => freenum >= 2
         /\ freenum' = freenum + Bit(commit_1) - Bit(id.wr_reg)
         /\ rrfptr' = IF id.wr_reg THEN NextTag(rrfptr) ELSE rrfptr
         /\ commit_ptr_1' = IF commit_1 THEN NextTag(commit_ptr_1)
                            ELSE commit_ptr_1
         /\ commit_1 => freenum < NumTags
         /\ nextrrfcyc' <=> id.wr_reg /\ rrfptr = NumTags
<1>1. /\ AllocTypeOK /\ RobTypeOK /\ TagRing /\ NoPhantomCommit
      /\ id.wr_reg \in BOOLEAN /\ commit_1 \in BOOLEAN
  BY EdgeIsClock, WireTypes DEF Inv
<1>2. TwoFree /\ Clock(next, alu_latch)
  BY EdgeIsClock DEF PacedInv
<1>3. Renames <=> id.wr_reg
  BY EdgeIsClock, NoStall DEF PacedInv
<1>4. /\ freenum' = freenum + Bit(commit_1) - Bit(id.wr_reg)
      /\ rrfptr' = IF id.wr_reg THEN NextTag(rrfptr) ELSE rrfptr
      /\ commit_ptr_1' = IF commit_1 THEN NextTag(commit_ptr_1)
                         ELSE commit_ptr_1
      /\ freenum' \in 0..NumTags
  <2>1. Bit(Renames) = Bit(id.wr_reg)
    BY <1>3 DEF Bit
  <2> QED
    BY <1>1, <1>2, <1>3, <2>1, RingStep
<1>5. /\ freenum \in 1..NumTags /\ (id.wr_reg => freenum >= 2)
      /\ commit_ptr_1 \in 1..NumTags /\ rrfptr \in 1..NumTags
  BY <1>1, <1>2 DEF AllocTypeOK, RobTypeOK, Tags, TwoFree
<1>6. freenum' \in 1..NumTags
  BY <1>1, <1>4, <1>5 DEF Bit
<1>7. commit_ptr_1' \in 1..NumTags /\ rrfptr' \in 1..NumTags
  BY <1>4, <1>5, NextTagIsTag DEF Tags
<1>8. TagRing' /\ (commit_1 => freenum < NumTags)
  BY <1>1, <1>2, RingPreserved, CommitsInFlight
<1>9. nextrrfcyc' <=> id.wr_reg /\ rrfptr = NumTags
  <2>1. nextrrfcyc' = (rrfptr > rrfptr')
    BY <1>2, <1>4, EdgeIsClock
    DEF Clock, DispatchClock, AllocClock, AllocRun
  <2>2. id.wr_reg => NumTags > 1
    BY <1>5
  <2>3. rrfptr > rrfptr' <=> id.wr_reg /\ rrfptr = NumTags
    BY <1>4, <1>5, <2>2 DEF NextTag
  <2> QED
    BY <2>1, <2>3
<1> QED
  BY <1>1, <1>4, <1>5, <1>6, <1>7, <1>8, <1>9

(* The side of the wrap on which a tag in flight is, over an edge.         *)
LEMMA WrapStep ==
  ASSUME NEW next, Edge(next), NEW t \in Tags, InFlight(t), ~Leaves(t)
  PROVE  /\ BeforeWrap(t) => BeforeWrap(t)'
         /\ ~BeforeWrap(t) => \/ commit_ptr_1 = NumTags /\ commit_1
                              \/ ~BeforeWrap(t)'
         /\ BeforeWrap(t) => ~(commit_ptr_1 = NumTags /\ commit_1)
         /\ ~BeforeWrap(t) => ~BeforeWrap(rrfptr)
         /\ InUse \in 1..(NumTags - 1) /\ rrfptr # commit_ptr_1
<1>1. t \in 1..NumTags /\ Offset(t) < InUse /\ ~(commit_1 /\ t = commit_ptr_1)
  BY DEF Tags, InFlight, Leaves
<1> QED
  BY <1>1, RingEdge DEF BeforeWrap, NextTag, Offset, InUse, TagRing

(* The sort bits after an edge still tell which side of the wrap an entry  *)
(* is on: of the tags in flight those before the wrap are the older ones.  *)
LEMMA SortBitsPreserved ==
  ASSUME NEW next, Edge(next)
  PROVE  SortBits'
<1>1. /\ nextrrfcyc <=> dp.ctl.wr_reg /\ dp.tag = NumTags
      /\ nextrrfcyc_reg => dp.tag = 1
      /\ \A e \in BusyEntries :
           IF sort_bit[e]
           THEN BeforeWrap(entry[e].tag) <=> (Wrapping \/ BeforeWrap(rrfptr))
           ELSE BeforeWrap(entry[e].tag) /\ ~Wrapping /\ ~BeforeWrap(rrfptr)
  BY DEF Edge, FullInv, CoreInv, SortBits
<1>2. /\ dp'.ctl = id /\ dp'.tag = rrfptr /\ nextrrfcyc_reg' = nextrrfcyc
  BY PipelineStep
<1>3. /\ dp.ctl.wr_reg => InFlight(dp.tag) /\ Offset(dp.tag) = InUse - 1
      /\ ~dp.ctl.wr_reg => dp.tag = rrfptr
      /\ dp.tag \in Tags
  BY EdgeIsClock, PortTyped
  DEF PacedInv, LatchIsLast, Edge, FullInv, CoreInv, AluOnlyStages
<1>4. /\ dp.ctl.wr_reg =>
           /\ dp.tag = IF rrfptr = 1 THEN NumTags ELSE rrfptr - 1
           /\ NumTags > 1
  BY <1>3, RingEdge DEF InFlight, Offset, InUse, TagRing, Tags
<1>5. nextrrfcyc => rrfptr = 1 /\ dp.tag = NumTags /\ NumTags > 1
  BY <1>1, <1>3, <1>4, RingEdge DEF Tags
<1>6. nextrrfcyc' <=> dp'.ctl.wr_reg /\ dp'.tag = NumTags
  BY <1>2, RingEdge
<1>7. nextrrfcyc_reg' => dp'.tag = 1
  BY <1>2, <1>5
<1>8. ~(nextrrfcyc /\ nextrrfcyc_reg)
  BY <1>1, <1>5
<1>9. ASSUME NEW e \in BusyEntries'
      PROVE  IF sort_bit'[e]
             THEN BeforeWrap(entry[e].tag)' <=> (Wrapping \/ BeforeWrap(rrfptr))'
             ELSE BeforeWrap(entry[e].tag)' /\ ~Wrapping' /\ ~BeforeWrap(rrfptr)'
  <2>1. e \in Entries
    BY EntryOrigin
  <2>2. sort_bit'[e] <=> Arrives(e) \/ (sort_bit[e] /\ ~nextrrfcyc_reg)
    BY <2>1, StationStep
  <2>3. CASE Arrives(e)
    <3>1. PICK t \in Tags : t = dp.tag
      BY <1>3
    <3>2. entry'[e].tag = t /\ InLatch(t) /\ dp.ctl.wr_reg
      BY <2>3, <3>1, EntryOrigin DEF InLatch
    <3>3. InFlight(t) /\ ~Leaves(t)
      BY <3>1, <3>2, LatchTag, EdgeIsClock, HeadWrites DEF PacedInv
    <3>4. t = IF rrfptr = 1 THEN NumTags ELSE rrfptr - 1
      BY <1>4, <3>1, <3>2
    <3>5. BeforeWrap(t)' <=> (Wrapping \/ BeforeWrap(rrfptr))'
      <4>1. CASE nextrrfcyc
        BY <1>2, <1>5, <3>1, <4>1, RingEdge DEF BeforeWrap, Wrapping
      <4>2. CASE ~nextrrfcyc
        <5>1. t # NumTags /\ t = rrfptr - 1 /\ NumTags > 1
          BY <1>1, <1>4, <3>1, <3>2, <3>4, <4>2, RingEdge
        <5>2. Wrapping' <=> id.wr_reg /\ rrfptr = NumTags
          BY <1>2, <4>2, RingEdge DEF Wrapping
        <5>3. Offset(t) = InUse - 1
          BY <1>3, <3>1, <3>2
        <5>4. BeforeWrap(t) <=> BeforeWrap(rrfptr)
          BY <3>3, <5>1, <5>3, WrapStep, RingEdge
          DEF BeforeWrap, TagRing, InUse, Offset, Tags
        <5>5. BeforeWrap(t)' <=> (Wrapping \/ BeforeWrap(rrfptr))'
          BY <3>3, <5>2, <5>4, WrapStep, RingEdge
          DEF BeforeWrap, TagRing, InUse, Offset, InFlight, Tags, Bit, NextTag
        <5> QED
          BY <5>5
      <4> QED
        BY <4>1, <4>2
    <3> QED
      BY <2>2, <2>3, <3>2, <3>5 DEF BeforeWrap
  <2>4. CASE ~Arrives(e)
    <3>1. e \in BusyEntries /\ entry'[e].tag = entry[e].tag
      BY <2>4, EntryOrigin
    <3>2. entry[e].tag \in Waiting
      BY <3>1 DEF Waiting
    <3>3. PICK t \in Tags : t = entry[e].tag /\ InFlight(t) /\ ~Leaves(t)
                            /\ ~InLatch(t)
      BY <3>2, WaitingExecutes, ExecutingStep
    <3>4. IF sort_bit[e]
          THEN BeforeWrap(t) <=> (Wrapping \/ BeforeWrap(rrfptr))
          ELSE BeforeWrap(t) /\ ~Wrapping /\ ~BeforeWrap(rrfptr)
      BY <1>1, <3>1, <3>3
    <3>5. IF sort_bit'[e]
          THEN BeforeWrap(t)' <=> (Wrapping \/ BeforeWrap(rrfptr))'
          ELSE BeforeWrap(t)' /\ ~Wrapping' /\ ~BeforeWrap(rrfptr)'
      <4>1. CASE nextrrfcyc
        <5>1. sort_bit[e] /\ BeforeWrap(t) /\ sort_bit'[e]
          BY <1>8, <2>2, <3>4, <4>1 DEF Wrapping
        <5>2. BeforeWrap(t)' /\ Wrapping'
          BY <1>2, <3>3, <4>1, <5>1, WrapStep DEF Wrapping
        <5> QED
          BY <5>1, <5>2
      <4>2. CASE nextrrfcyc_reg
        <5>1. BeforeWrap(t) /\ ~sort_bit'[e]
          BY <2>2, <2>4, <3>4, <4>2 DEF Wrapping
        <5>2. BeforeWrap(t)'
          BY <3>3, <5>1, WrapStep
        <5>3. dp.tag = 1 /\ (~dp.ctl.wr_reg => rrfptr = 1)
              /\ (dp.ctl.wr_reg => rrfptr = 2 /\ t # 1)
          <6>1. dp.tag = 1 /\ (~dp.ctl.wr_reg => rrfptr = 1)
            BY <1>1, <1>3, <4>2
          <6>2. dp.ctl.wr_reg => t # dp.tag
            BY <3>3 DEF InLatch, Edge, FullInv, CoreInv, AluOnlyStages
          <6>3. dp.ctl.wr_reg => rrfptr = 2
            BY <1>4, <6>1, RingEdge
          <6> QED
            BY <6>1, <6>2, <6>3
        <5>4. ~BeforeWrap(rrfptr)
          BY <3>3, <5>1, <5>3, WrapStep, RingEdge
          DEF BeforeWrap, TagRing, InUse, Offset, InFlight, Tags
        <5>5. ~Wrapping' /\ ~BeforeWrap(rrfptr)'
          <6>1. ~nextrrfcyc_reg'
            BY <1>2, <1>8, <4>2
          <6>2. rrfptr < commit_ptr_1 /\ rrfptr # NumTags
            BY <5>4, RingEdge DEF BeforeWrap
          <6>3. ~nextrrfcyc'
            BY <6>2, RingEdge
          <6>4. ~BeforeWrap(rrfptr)'
            BY <3>3, <5>1, <6>2, WrapStep, RingEdge
            DEF BeforeWrap, TagRing, InUse, Offset, InFlight, Tags, Bit, NextTag
          <6> QED
            BY <6>1, <6>3, <6>4 DEF Wrapping
        <5> QED
          BY <5>1, <5>2, <5>5
      <4>3. CASE ~Wrapping
        <5>1. sort_bit'[e] <=> sort_bit[e]
          BY <2>2, <2>4, <4>3 DEF Wrapping
        <5>2. Wrapping' <=> id.wr_reg /\ rrfptr = NumTags
          BY <1>2, <4>3, RingEdge DEF Wrapping
        <5>3. CASE sort_bit[e]
          <6>1. BeforeWrap(t) <=> BeforeWrap(rrfptr)
            BY <3>4, <4>3, <5>3
          <6>2. BeforeWrap(t)' <=> (Wrapping \/ BeforeWrap(rrfptr))'
            BY <3>3, <5>2, <6>1, WrapStep, RingEdge
            DEF BeforeWrap, TagRing, InUse, Offset, InFlight, Tags, Bit, NextTag
          <6> QED
            BY <5>1, <5>3, <6>2
        <5>4. CASE ~sort_bit[e]
          <6>1. BeforeWrap(t) /\ ~BeforeWrap(rrfptr)
            BY <3>4, <5>4
          <6>2. BeforeWrap(t)'
            BY <3>3, <6>1, WrapStep
          <6>3. ~Wrapping' /\ ~BeforeWrap(rrfptr)'
            BY <3>3, <5>2, <6>1, WrapStep, RingEdge
            DEF BeforeWrap, TagRing, InUse, Offset, InFlight, Tags, Bit, NextTag
          <6> QED
            BY <5>1, <5>4, <6>2, <6>3
        <5> QED
          BY <5>3, <5>4
      <4> QED
        BY <4>1, <4>2, <4>3 DEF Wrapping
    <3> QED
      BY <3>1, <3>3, <3>5 DEF BeforeWrap
  <2> QED
    BY <2>3, <2>4
<1> QED
  BY <1>6, <1>7, <1>9 DEF SortBits

(* An entry that issues holds the oldest of the ready ones.                *)
LEMMA IssuesOldest ==
  ASSUME FullInv
  PROVE  OldestFirst
<1> SUFFICES ASSUME Issue, NEW f \in Entries, Ready(f)
             PROVE  Offset(entry[IssueEntry].tag) <= Offset(entry[f].tag)
  BY DEF OldestFirst
<1>1. RsTypeOK /\ commit_ptr_1 \in 1..NumTags
  BY WireTypes
  DEF FullInv, CoreInv, CoreTypeOK, PacedInv, Inv, RobTypeOK, Tags
<1>2. TagsInRange
  BY <1>1 DEF RsTypeOK, TagsInRange
<1>3. IssueEntry \in Entries /\ Age(IssueEntry) <= Age(f)
  BY <1>2, SelectsLeast
<1>4. IssueEntry \in BusyEntries /\ f \in BusyEntries
  BY <1>3 DEF Issue, Ready, BusyEntries
<1>5. PICK s, t \in Tags : s = entry[IssueEntry].tag /\ t = entry[f].tag
  BY <1>4 DEF FullInv, CoreInv, PlacesOK, Waiting, Executing, InFlight
<1>6. /\ IF sort_bit[IssueEntry]
         THEN BeforeWrap(s) <=> (Wrapping \/ BeforeWrap(rrfptr))
         ELSE BeforeWrap(s) /\ ~Wrapping /\ ~BeforeWrap(rrfptr)
      /\ IF sort_bit[f]
         THEN BeforeWrap(t) <=> (Wrapping \/ BeforeWrap(rrfptr))
         ELSE BeforeWrap(t) /\ ~Wrapping /\ ~BeforeWrap(rrfptr)
  BY <1>4, <1>5 DEF FullInv, CoreInv, SortBits
<1>7. Bit(sort_bit[IssueEntry]) * (NumTags + 1) + s
        <= Bit(sort_bit[f]) * (NumTags + 1) + t
  BY <1>3, <1>5 DEF Age
<1>8. s \in 1..NumTags /\ t \in 1..NumTags
  BY DEF Tags
<1>9. CASE sort_bit[IssueEntry] <=> sort_bit[f]
  <2>1. s <= t /\ (BeforeWrap(s) <=> BeforeWrap(t))
    BY <1>6, <1>7, <1>8, <1>9 DEF Bit
  <2> QED
    BY <1>1, <1>5, <1>8, <2>1 DEF BeforeWrap, Offset
<1>10. CASE ~sort_bit[IssueEntry] /\ sort_bit[f]
  <2>1. BeforeWrap(s) /\ ~BeforeWrap(t)
    BY <1>6, <1>10
  <2> QED
    BY <1>1, <1>5, <1>8, <2>1 DEF BeforeWrap, Offset
<1>11. CASE sort_bit[IssueEntry] /\ ~sort_bit[f]
  BY <1>7, <1>8, <1>11 DEF Bit
<1> QED
  BY <1>9, <1>10, <1>11
=============================================================================
