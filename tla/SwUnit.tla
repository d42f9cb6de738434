-------------------------------- MODULE SwUnit --------------------------------
(***************************************************************************)
(* rtl/core/SW/SwUnit.v: the select and wakeup stage.  Its two reservation *)
(* stations share the operand ports of the dispatch stage, the result      *)
(* buses, the stall and the kill; a cycle brings requests for the one, the *)
(* other or both, counted separately.                                      *)
(***************************************************************************)
EXTENDS RSAlu, RSAccessMem

swVars == <<rsVars, memRsVars>>

SwInit == RsInit /\ MemRsInit

(* The requests of a cycle: the first n of the two dispatch ports.         *)
Requested(ports, n) == SubSeq(ports, 1, n)

(* One rising clock edge.  A kill keeps both stations from being written,  *)
(* as a stall does; neither keeps them from issuing.                       *)
SwClock(ports, alu_num, mem_num, held, nextcyc, beyond, buses) ==
  /\ RsClock(Requested(ports, alu_num), held, nextcyc, buses)
  /\ MemRsClock(Requested(ports, mem_num), held, beyond, buses)
=============================================================================
