-------------------------------- MODULE Fetch --------------------------------
(***************************************************************************)
(* The fetch stage in the core: IFUnit, the instruction memory, which      *)
(* answers one cycle after the address, and the two registers by which     *)
(* rtl/HeliosX.v delays the address so that it meets its instruction in    *)
(* the decoder.                                                            *)
(***************************************************************************)
EXTENDS IFUnit

CONSTANT Image     \* the words in memory: a function from addresses

VARIABLES
  fetched,         \* the word the memory answers with in this cycle
  pc_t, pc_id      \* the address, one and two cycles late

fetchVars == <<ifVars, fetched, pc_t, pc_id>>

(* Outside the program the memory holds zeros.                             *)
WordAt(a) == IF a \in DOMAIN Image THEN Image[a] ELSE Bubble

(* While the core is reset the delay registers fill up with the entry      *)
(* point; the memory is not read before.                                   *)
FetchInit ==
  /\ IfInit
  /\ fetched = Bubble
  /\ pc_t = EntryPoint /\ pc_id = EntryPoint

(* Mutant, for the checks only: the address meets the next instruction.    *)
DecodedEarly == [inst_o EXCEPT !.pc = pc_t]

(* What the decoder hands to the ID/DP register.                           *)
Decoded == [inst_o EXCEPT !.pc = pc_id]

(* HeliosX.v connects the stall to the kill input as well.                 *)
FetchClock(stall) ==
  /\ IfClock(fetched, stall, stall)
  /\ fetched' = WordAt(npc_o)
  /\ pc_t' = npc_o
  /\ pc_id' = pc_t
=============================================================================
