------------------------------- MODULE IFUnit -------------------------------
(***************************************************************************)
(* rtl/core/IF/IFUnit.v with PipelineIF.v: the fetch stage.  An            *)
(* instruction word is represented by the control word it decodes to, the  *)
(* zero word by Bubble.                                                    *)
(***************************************************************************)
EXTENDS Decoder

CONSTANTS
  EntryPoint,      \* ENTRY_POINT: the first address after the reset
  AddressSpace     \* addresses are counted modulo this number

ASSUME AddressAssumption ==
  /\ AddressSpace \in Nat \ {0} /\ AddressSpace % 4 = 0
  /\ EntryPoint \in 0..(AddressSpace - 1)

VARIABLES
  pc,        \* moves on with every edge, whatever the stall
  npc_o,     \* the address on the way to the memory (iaddr_o)
  inst_o     \* the word handed to the decoder

ifVars == <<pc, npc_o, inst_o>>

npc == (pc + 4) % AddressSpace

IfInit == pc = EntryPoint /\ npc_o = EntryPoint /\ inst_o = Bubble

(* Mutant, for the checks only: the two arms of the address' choice        *)
(* swapped.                                                                *)
IfClockSwapped(idata, stall, kill) ==
  /\ pc' = npc
  /\ npc_o' = IF stall THEN npc ELSE pc
  /\ inst_o' = IF kill THEN Bubble ELSE IF stall THEN inst_o ELSE idata

(* One rising clock edge; idata is the memory's answer.                    *)
IfClock(idata, stall, kill) ==
  /\ pc' = npc
  /\ npc_o' = IF stall THEN pc ELSE npc
  /\ inst_o' = IF kill THEN Bubble ELSE IF stall THEN inst_o ELSE idata
=============================================================================
