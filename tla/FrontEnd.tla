------------------------------ MODULE FrontEnd ------------------------------
(***************************************************************************)
(* The in-order part of the core with its fetch stage: RenameCommit fed    *)
(* with the words of a program in memory.  What stalls the fetch is the    *)
(* dispatch stage out of tags, as in rtl/HeliosX.v.                        *)
(***************************************************************************)
EXTENDS RenameCommit, Fetch

VARIABLES
  expected,    \* history: the address of the next instruction to rename
  stalled      \* history: there has been a stall

frontVars == <<vars, fetchVars, expected, stalled>>

(* The program writes one register; an instruction's immediate is its own  *)
(* address, which tells it from the others wherever it is.                 *)
ASSUME ProgramInMemory ==
  \A a \in DOMAIN Image :
    Image[a] \in Control /\ Image[a].wr_reg /\ Image[a].imm = a

(* An address fits a bus of data: both are 32 bits wide.                   *)
ASSUME AddressesAreData ==
  \A a \in 0..(AddressSpace - 1) : a % 4 = EntryPoint % 4 => a \in Data

(* It is one block from the entry point on: the one word of it that does   *)
(* not follow another is the first.                                        *)
ASSUME ProgramIsOneBlock ==
  \A a \in 0..(AddressSpace - 1) :
    LET b == (a + 4) % AddressSpace
    IN b \in DOMAIN Image => a \in DOMAIN Image \/ b = EntryPoint

FrontInit ==
  /\ Init /\ FetchInit
  /\ arf_data = [r \in Regs |-> 0]
  /\ expected = EntryPoint /\ stalled = FALSE

(* The address of the instruction behind the one at a: the zeros that      *)
(* follow the program are not instructions.                                *)
Behind(a) == LET b == (a + 4) % AddressSpace
             IN IF b \in DOMAIN Image THEN b ELSE EntryPoint

FrontCycle(exe) ==
  /\ Clock(Decoded, exe)
  /\ FetchClock(StallDP(commit_1))
  /\ stalled' = (stalled \/ StallDP(commit_1))
  /\ expected' = IF id.wr_reg /\ ~StallDP(commit_1)
                 THEN Behind(id.imm) ELSE expected

FrontNext ==
  \/ FrontCycle(NoResult)
  \/ \E t \in Tags : Executing(t) /\ FrontCycle(Result(t, 0))

FrontSpec == FrontInit /\ [][FrontNext]_frontVars

-----------------------------------------------------------------------------
(* The decoder and everything behind it see each instruction with its own  *)
(* address, although address and word travel apart through the memory and  *)
(* the delay registers, and stalls hold the one and kill the other.        *)
PcOf(c) == c.wr_reg => c.pc = c.imm

PcFollowsInstruction == PcOf(Decoded) /\ PcOf(id) /\ PcOf(dp.ctl)

(* The instructions are renamed in program order, each once.               *)
InProgramOrder == id.wr_reg => id.imm = expected

(* They are until the first stall; the fetch unit has a pipeline of three  *)
(* registers to fill before the first one arrives.                         *)
InOrderUntilStall == ~stalled => InProgramOrder
=============================================================================
