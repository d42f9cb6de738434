------------------------------- MODULE Consts -------------------------------
(***************************************************************************)
(* The parameters every stage of the core shares: the sizes that           *)
(* rtl/consts/Consts.vh fixes with `define, left open here so that the     *)
(* properties are about every size, and the value domains of the buses.    *)
(***************************************************************************)
EXTENDS Integers

CONSTANTS
  NumTags,   \* RRF_NUM: rename tags in circulation (63); tag 0 is reserved
  NumRegs,   \* REG_NUM: architectural registers (32); register 0 reads as 0
  Data       \* the values a DATA_LEN bus can carry; contains 0

ASSUME NumTagsAssumption == NumTags \in Nat \ {0}
ASSUME NumRegsAssumption == NumRegs \in Nat \ {0}
ASSUME DataAssumption    == 0 \in Data /\ Data \subseteq Nat

(* The tags RrfEntryAllocate hands out, and every index of the RRF and of  *)
(* the ROB (ROB_NUM = RRF_NUM + 1 entries, entry 0 never allocated).       *)
Tags     == 1..NumTags
TagIndex == 0..NumTags

Regs == 0..(NumRegs - 1)

(* A one-bit wire added into a counter.                                    *)
Bit(b) == IF b THEN 1 ELSE 0

(* A source bus carries a value when it is ready and an rrftag when it is  *)
(* not (SrcOprManager pads the tag to DATA_LEN bits).                      *)
Operand == Data \cup TagIndex
=============================================================================
