----------------------------- MODULE ReNameUnit -----------------------------
(***************************************************************************)
(* rtl/core/DP/ReNameUnit.v: the dispatch stage.  It renames the           *)
(* instruction in the ID/DP register (the outputs of rtl/core/ID/IDUnit.v, *)
(* here id) and hands it with its operands to the next stage through the   *)
(* DP/SW register (here dp), which is loaded on every clock edge, stalled  *)
(* or not.                                                                 *)
(***************************************************************************)
EXTENDS RrfEntryAllocate, Arf, Rrf, Decoder

VARIABLES
  id,       \* ID/DP register: the control word being renamed
  dp,       \* DP/SW register: the renamed instruction
  nextrrfcyc_reg  \* the wrap flag, one more cycle late

dpVars == <<id, dp, nextrrfcyc_reg>>

(* SrcOprManager: a source bus is the zero register, the committed value,  *)
(* the finished value still in the RRF, or the tag to wait for.            *)
SourceReady(r, exe) ==
  r = 0 \/ ~arf_busy[r] \/ RrfValidOut(arf_rrftag[r], exe)

SourceBus(r, exe) ==
  IF r = 0 THEN 0
  ELSE IF ~arf_busy[r] THEN arf_data[r]
  ELSE IF RrfValidOut(arf_rrftag[r], exe) THEN RrfDataOut(arf_rrftag[r], exe)
  ELSE arf_rrftag[r]

(* HeliosX wires every stall input to the allocator alone: the signal of a *)
(* full reservation station is commented out.                              *)
StallDP(com) == ~RrfAllocatable(id.wr_reg, com)

DispatchInit ==
  /\ AllocInit /\ ArfInit /\ RrfInit
  /\ id = Bubble
  /\ dp = [alloc |-> TRUE, tag |-> 1, ctl |-> Bubble,
           src1 |-> 0, rdy1 |-> TRUE, src2 |-> 0, rdy2 |-> TRUE]
  /\ nextrrfcyc_reg = FALSE

(* What the rename table is told.  The write enable is the decoder's bit:  *)
(* it is not gated by the stall.                                           *)
RenamePort == [en |-> id.wr_reg, rd |-> id.rd, tag |-> rrfptr]

(* One rising clock edge of the stage; commit = [we, dst, tag, data] comes *)
(* from the ROB and the RRF, exe from the EX latch, next from the decoder. *)
DispatchClock(com, commit, exe, next) ==
  /\ AllocClock(id.wr_reg, com, StallDP(com))
  /\ ArfClock(commit, RenamePort)
  /\ RrfClock(commit, exe)
  /\ dp' = [alloc |-> ~StallDP(com), tag |-> rrfptr, ctl |-> id,
            src1 |-> SourceBus(id.rs1, exe), rdy1 |-> SourceReady(id.rs1, exe),
            src2 |-> SourceBus(id.rs2, exe), rdy2 |-> SourceReady(id.rs2, exe)]
  /\ nextrrfcyc_reg' = nextrrfcyc
  /\ id' = IF StallDP(com) THEN id ELSE next

DispatchTypeOK ==
  /\ AllocTypeOK /\ ArfTypeOK /\ RrfTypeOK
  /\ id \in Control
  /\ dp \in [alloc: BOOLEAN, tag: Tags, ctl: Control, src1: Operand,
             rdy1: BOOLEAN, src2: Operand, rdy2: BOOLEAN]
  /\ nextrrfcyc_reg \in BOOLEAN
=============================================================================
