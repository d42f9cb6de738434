# HeliosXCore: specification, model checking and proofs

HeliosXCore (`src/rtl/`) is a RISC-V core in Verilog with register renaming,
out-of-order issue and in-order commit.  This directory holds TLA+ modules
translated from that RTL, TLC configurations that check them on small cores,
and proofs, checked by TLAPS, that hold for every size of core.

The unit of time is the clock edge.  A step of a model is one rising edge of
the whole core: every `always @(posedge clk_i)` block of the stages it covers,
with the wires between them evaluated on the state before the edge.  Inside a
step nothing is optional; the only choices are the instruction the decoder
delivers, what finishes where an execution unit is abstracted, and, for a unit
that is modelled on its own, the requests it gets.

## 1. The system

```
 IFUnit -> Decoder -> [ID/DP] -> ReNameUnit -> [DP/SW] -> RSAlu -> Alu -> [latch]
              id                  |  Arf, Rrf      dp      |  entries        alu_latch
                                  |  RrfEntryAllocate      |                    |
                                  +---- SingleInstROB <----+--- finish, result -+
                                           commit_ptr_1
```

| Part (files under `src/rtl/`) | State | Operations | Talks to | What is hard | Correct when |
|---|---|---|---|---|---|
| Tag allocator `core/DP/RrfEntryAllocate.v` | `freenum`, `rrfptr`, `nextrrfcyc` | reset, stall, run | counts the ROB's commits | last tag, wrap, a commit in the same cycle | the ring agrees with the ROB's pointer; no tag is reused early |
| Rename table `core/DP/Arf.v`, `SyncRAM.v` | values, busy bits, tags | rename, commit | decoder, allocator, ROB | both write a busy bit on one edge | busy names the youngest writer in flight |
| Rename registers `core/DP/Rrf.v` | `rrf_valid`, `rrf_data` | forward, commit, bypassed read | result bus, ROB | a read on the cycle of the result; bits left by an old owner | valid exactly from the result to the commit of the owner |
| Dispatch `core/DP/ReNameUnit.v`, `SrcOprManager.v`, `RSRequestGen.v` | DP/SW register | one load per edge | all of the above | the register is loaded during a stall too | operands are the right value or the right tag |
| ALU station `core/SW/SwUnit.v`, `RSAlu*.v`, `SourceManager.v`, `AllocateUnit.v`, `OldestFinder.v` | entries, busy bits, sort bits | write, wake, issue | dispatch, result bus | a result that passes an operand on its way in; age across the wrap; a full station | nothing lost, doubled, or woken by a result it did not wait for; oldest first |
| ALU `core/EX/ExUnit.v`, `AluUnit.v`, `SrcSelect.v`, `Alu.v` | result latch | one load per edge | station, RRF, ROB | the tag is latched even when nothing issued | see station |
| ROB `core/COM/SingleInstROB.v` | `valid`, `finish`, `dst`, `dstValid`, `commit_ptr_1` | dispatch, finish, commit | dispatch, ALU | flags of the last owner of a tag | in-order commit of executed instructions only |
| Decoder `core/ID/*.v` | ID/DP register | load, hold | fetch, dispatch | | |
| Fetch `core/IF/*.v`, delay registers of `HeliosX.v` | pc, npc, instruction register, two delayed addresses | advance, hold, kill | memory, decoder | address and word travel apart; a stall holds one and kills the other | every instruction is delivered once, with its own address |
| Memory station `core/SW/RSAccessMem*.v`, `InorderAllocIssueUnit.v`, `Searcher.v` | entries, busy bits, allocation pointer | allocate, wake, issue in order | (not requested: `HeliosX.v:406`) | there is no issue pointer: it is worked out from the busy bits, where empty, full and wrapped look alike | a queue |
| Store buffer `core/EX/StoreBuffer.v`, `MemAccessUnit.v` | entries, three pointers; the RAM behind it | store, load, complete, retire | memory, ROB | wrap, full, youngest match, read and write of one address on one edge | together with the RAM, a plain memory |
| Arithmetic `core/EX/Alu.v`, `BranchUnit.v` | none | one result per operand pair | ALU latch; nothing uses the branch unit | signs, widths, the end of the address space | the manual's result |
| Dual ROB `core/COM/ROB.v` | as the ROB, two ports | as the ROB | (not instantiated) | two commits per cycle | as the ROB |
| C++ benches `../testbench/verilator/` | time and inputs | poke inputs, assert outputs | the unit under test | | their assertions hold |

`PROJECT.json` lists every part with what is modelled of it, and under
`hazards` each place in the code where one of the difficulties bites.

## 2. Modules

Layering follows the RTL: a component module declares its registers as
VARIABLES, its wires as operators, its reset as `...Init`, and its clock edge as
one operator `...Clock(inputs)`; the composing module connects ports to wires
and forms the step.

| Module | Models | Remarks |
|---|---|---|
| `Consts` | `consts/Consts.vh` | sizes are CONSTANTS with assumptions |
| `RrfEntryAllocate`, `Arf`, `Rrf`, `SingleInstROB` | the files of that name | state and operator names are the RTL's |
| `Decoder` | `ID/Decoder.v`, `EX/SrcSelect.v`, `EX/AluUnit.v` | an instruction is a record of its fields; the ALU function is the parameter `AluFn` |
| `ReNameUnit` | `DP/ReNameUnit.v` and the ID/DP register of `ID/IDUnit.v` | `id` and `dp` are the two pipeline registers |
| `RenameCommit` | `ReNameUnit` and `SingleInstROB` as `HeliosX.v` connects them | the station and the ALU are an environment that finishes any executing instruction, in any order, with any value |
| `ProgramOrder` | abstract: a queue of instructions whose results reach the registers from the oldest on | refined by `RenameCommit` |
| `SourceManager` | `SW/SourceManager.v`: the comparison of a waiting operand with the result buses | used by both stations |
| `RSAlu`, `ExUnit` | the ALU station with its allocator and issuer; the ALU latch | both dispatch ports; `HeliosX` brings one request at a time, as `HeliosX.v` ties the second port to 0 |
| `RSAccessMem` | `RSAccessMem.v`, `InorderAllocIssueUnit.v`, `Searcher.v` | the bit outside the busy vector is a choice (`beyond`) |
| `MemDispatch` | the memory station with its requests and result buses | refines `MemQueue` |
| `MemQueue` | abstract: accesses enter in order, leave from the front when ready | |
| `SwUnit` | `SW/SwUnit.v`: both stations on one edge | |
| `StoreBuffer`, `MemAccess` | `EX/StoreBuffer.v`; `EX/MemAccessUnit.v` and the block RAM of `soc/` | an edge is an operation (none, load, store) and whether a store commits |
| `FlatMemory` | abstract: a memory without a buffer | refined by `MemAccess` |
| `IFUnit`, `Fetch` | `IF/*.v`; the memory's delay and `pc_t`, `pc_id` of `HeliosX.v` | a word in memory is the control word it decodes to |
| `FrontEnd` | `RenameCommit` fed by `Fetch` | stalls come from the allocator, as in `HeliosX.v` |
| `Alu`, `BranchUnit` | the files of that name, and the manual's definition of each operation | the width of a word is a parameter |
| `Testbench` | `verilator_tb.hpp`: clock, time and inputs of a bench | a state is the time between two rising edges |
| `HeliosXBench`, `SwUnitBench`, `MemBench`, `StageBench` | `heliosx_tb.cpp`; `swunit_tb.cpp`; `mem_access_unit_tb.cpp` and `store_buffer_tb.cpp`; the benches of fetch, decode, rename table, allocator and ROB | inputs and assertions by time |
| `HeliosX` | the ALU core, ID/DP register to commit | deterministic but for the stream; `insn` is a history variable |
| `SequentialMachine` | abstract: instructions executed one after the other | refined by `HeliosX` |
| `HeliosXInv` | the inductive invariant of `HeliosX`, definitions only | checked by TLC, proved in `HeliosXTheorems` |
| `RenameCommitProofs` | theorems about `RenameCommit` under `Spec` | |
| `RenameTableProofs`, `ProgramOrderProofs` | theorems about `RenameCommit` under `PacedSpec` | the second proves the refinement of `ProgramOrder` |
| `RSAluProofs`, `HeliosXProofs` | lemmas about the station, and about an edge of the core | |
| `HeliosXTheorems` | theorems about `HeliosX` under `SpareSpec` | |
| `MemoryProofs` | theorems about `MemAccess` and `MemDispatch` | |
| `UnitProofs` | theorems about `FrontEnd`, `BranchUnit` and `Alu`, and about all units of `MCUnits` together | |
| `MCRename`, `MCHeliosX`, `MCFetch` | small programs for TLC | |
| `MCUnits` | one of memory station, memory unit, front end, ALU, branch unit per behaviour | |
| `MCBenches` | one of the benches per behaviour | |

Names ending in a mutated meaning (`NextTagPlain`, `BusyAfterClearFirst`, ...)
stand in the components under the heading "Mutants": each replaces one
definition in a check that the property it belongs to can fail.

Translation choices worth knowing:

* **Stalls.** `HeliosX.v:33-41` wires every stall to the allocator.  A stall
  holds the ID/DP register and the allocator's pointer, but not the rename
  table, the DP/SW register or the station.  The models do the same.
* **Unconnected ports.** Forwarding ports `alu2`, `mul`, `branch` and the
  clear-on-allocate port have no driver: the build reads them as 0.  The memory
  port never fires because no memory entry is ever requested.
* **Wakeup without enable.** The station compares the tag on the result bus
  whether or not something was executed, so `Resolved` ignores the enables.
* **Power-up.** `arf_data` has no reset: `ArfInit` leaves it open.  The ROB's
  dispatch block is not gated by the reset: `RobInit` allows entry 1 valid.
* **Assignments in order.** The store buffer assigns its pointers with `=` and
  its arrays with `<=` in one block: a store, a completion and a retirement on
  one edge see each other's pointers, and the retirement may take the entry that
  the same edge stored.  `SbClock` keeps that order.
* **Widths.** `used_ptr == ~0` compares 5 bits with 32 and is never true, so
  `Following` goes through entry 0.  The arms of the conditional in `Alu.v` are
  unsigned, so `>>>` shifts in zeros; the comparisons stand in concatenations
  and keep their signs.
* **Instructions.** The zero word and every opcode outside the eight the
  decoder knows have all-zero control: they are `Bubble`.

## 3. Streams

What a component can rely on is a property of the instruction stream, so the
specifications differ only in it:

| Specification | Stream |
|---|---|
| `RenameCommit!Spec` | any; tags may run out, the stage stalls |
| `RenameCommit!PacedSpec` | a writing instruction is decoded only if two tags stay free |
| `HeliosX!SpareSpec` | leaves at least one entry of the ALU station unused |
| `HeliosX!FullSpec` | may fill the station exactly |
| `HeliosX!AnySpec` | any |
| `FrontEnd!FrontSpec` | the words of a program in memory; tags may run out |
| `MemDispatch` (`MemRsNext`) | up to two accesses per edge under consecutive tags, repeated until they are accepted (`NoPairAcrossEnd` below) |
| `MemAccess!WrapSpec` | any operations that do not fill the buffer, commits of issued stores only (`Ordinary`), and no read of the address the RAM is writing on that edge |
| `MemAccess!MemSpec` | the same, and no load while the waiting stores reach across the end of the buffer (`Careful`) |

The RTL has no back-pressure from the station (the wire `stall_IF_2` is
commented out), so `SpareSpec` is an assumption on programs, not a mechanism.
The runs `station_full` and `station_overflow` show that it is needed, and
`ImplementsRenameCommit` shows that it implies the pacing of tags:
`SpareSpec => PacedSpec` when there are at least `2 * NumEntries - 1` tags
(`RingCovers`).  The bound is exact: with one tag fewer TLC finds the step that
is not paced, for three entries and for four.  In the RTL the sizes are 8
entries and 63 tags.

The memory unit has no connected user in this version, so what its user must
observe is stated as preconditions.  `Ordinary` is what a ROB and a dispatch
stage with back-pressure do (the source has a todo for the full buffer).
`Careful` is what it takes for loads to be right, and is not something the
design provides: the run `memory_wrap` drops its first half and finds a wrong
load; without its second half the answer is whatever the RAM gives on a
collision.  `NoPairAcrossEnd` leaves out one case of the memory station: a pair
of requests when the pointer is at the last entry and entry 0 is busy, which is
accepted or not by a bit read outside the vector.

## 4. What the runs check

| Run | Specification, size | Checks | Shows |
|---|---|---|---|
| `rename` | `Spec`, 4 tags, 2 registers | `TypeOK`, `TagRing`, `NoPhantomCommit`, `NoEarlyReuse` | the ring and the ROB flags are right under every stream, stalls included |
| `rename_paced` | `PacedSpec`, 4 tags, 2 registers, 2 values | `RenameTable`, `RrfFollowsOwner`, `OperandSound`, `ImplementsProgramOrder` | renaming is right in every order of results, and refines the in-order window |
| `core` | `SpareSpec`, 3 entries, 5 tags, 2 values | `CoreTypeOK`, `ValuesOK`, `ImplementsSequentialMachine` | the core executes the program; every operand and result on its way is right |
| `core_control` | `MCKeepSpareSpec`, 4 entries, 7 tags, one right value | `CoreInv`, `ExactlyOnce`, `OldestFirst`, `WokenByResult`, `HeadAdvances`, `ImplementsRenameCommit` | the invariant of the proofs holds; the station loses and doubles nothing, ages survive the wrap, a wait ends by its own result, the oldest instruction moves on every edge |
| `core_live` | `MCKeepFairSpec`, 3 entries, 5 tags | `HeadCommits`, `EdgePossible` | no missed wakeup, no deadlock |
| `units` | each unit's own, see below | `UnitsTypeOK`, `RetiresInBounds`, `ImplementsFlatMemory`, `ImplementsMemQueue`, `PcFollowsInstruction`, `InOrderUntilStall`, `AluMatchesIsa`, `BranchMatchesIsa` | store buffer and RAM are a memory, the memory station is a queue, addresses and instructions meet, arithmetic is the manual's but for two exceptions |
| `benches` | hardware sizes: 63 tags, 32 registers, 8 and 4 entries, 32 stores | `HeliosXBenchPasses`, `SwUnitBenchPasses`, `MemBenchPasses`, `StageBenchPasses` | what the repository's benches assert of the RTL holds of the models |
| `fetch_stall` | `FrontSpec`, 2 tags | `InProgramOrder` fails | section 6 |
| `memory_wrap` | `WrapSpec`, 4 entries | `LoadFindsBuffered` fails | section 6 |
| `rename_dry` | `Spec`, 2 tags | `RenameTable` fails | section 6 |
| `station_full` | `FullSpec` | `WokenByResult` fails | section 6 |
| `station_overflow` | `AnySpec` | `ExactlyOnce` fails | section 6 |

**Bounds.** Four tags give every relation of the two pointers, several wraps
(there is no counter to bound: the state space is finite as it stands), a full
and an empty ring, and two writers of one register with a third being renamed.
Register 0 is special and register 1 stands for all others: `Arf` treats
registers alike and separately.  The program of `MCRename` reads the written
register through each port; that of `MCHeliosX` has a dependent instruction and
an independent one with the same destination, which is what makes chains wait
while younger instructions overtake them.  Three (four) entries with one spare
let two (three) instructions be at once between the decoder and the ALU result
register; only with three can two of them wait for different results, so
everything about waiting is checked with four.  5 (7) tags are the least for
which `ImplementsRenameCommit` can hold, so wraps are frequent.

In `core` the two values and a function (nor) that maps any non-zero operand to
0 and zeros to 1 make every result differ from the operand it came from: a
missing, stale or foreign operand is told from the right one.  With four
entries that state space is too large, and `core_control` keeps one right
value: the registers start at 9 (`MCKeepInit`), every instruction yields 9
again from right operands and 0 from anything else, and no tag is 9, so a tag
taken for a value still shows.

In `units` the units share no state, so one run explores each in turn.  The
memory station has 4 entries, as in the RTL, and 5 tags, so pairs meet the end
of the ring in both positions and the tags wrap out of step with the entries;
every access waits for one result, for its address or its data, or for nothing,
so an old one can wait behind ready ones.  The store buffer has 4 entries:
three waiting stores is the most `Ordinary` allows, the pointers pass the end
with none, one or two waiting, and two addresses and two words tell a right
answer from a stale one.  The front end has 5 tags and three instructions in
memory: it stalls, drains and resumes at every distance of the three.  The ALU
and the branch unit get every pair of operands of 4 bits, which has signs,
carries out of the top, and shifts by every amount; nothing in the RTL depends
on the width beyond that.

The benches are deterministic, so `benches` is not an exploration: it ties the
models to the RTL.  A bench passes on the RTL when its assertions hold at its
times, and its replay passes when the same assertions hold of the model's state
at the same times, from the same inputs at the sizes of the hardware.  Data are
the values the benches use; the ALU adds.  `ArfBenchBegin` draws the register
and the tag the bench takes at random.

**Exceptions in the arithmetic.**  `AluMatchesIsa` and `BranchMatchesIsa` are
equivalences: the result is the manual's exactly when the instruction is not an
arithmetic right shift of a negative operand by one or more, or an indirect jump
to an odd sum.  Both departures are recorded where they bite, in the hazards.

**Fairness.** `MCKeepFairSpec` is `MCKeepSpareSpec` with `ClockRuns`, weak
fairness of the clock edge, and nothing else: in a synchronous design every
register is clocked on every edge.
Weak fairness asks for an edge that changes the core.  There is one whenever an
instruction is in flight, as a bubble is always allowed and the head moves on:
`EdgePossible` states it and `core_live` checks it.  An empty core that gets
bubbles stands still, and nothing is claimed of it.

## 5. What is proved

`RenameCommitProofs`, for every `NumTags`, `NumRegs`, `Data` and program that
satisfy the assumptions of `Consts` and `Decoder`, and for every stream
(`Spec`):

* `TypeCorrect`: `Spec => []TypeOK`
* `RingSound`: `Spec => []TagRing`
* `CommitsExecuted`: `Spec => []NoPhantomCommit`
* `TagsNotReused`: `Spec => []NoEarlyReuse`

The inductive invariant is `Inv == TypeOK /\ TagRing /\ NoPhantomCommit`.  The
three need each other: that `freenum` stays within its width on a commit needs
a committed tag to be in use (`CommitsInFlight`), which is `NoPhantomCommit`
read at the head; that in turn is kept because a tag enters the ring only at
its end and leaves only at its head, which is `TagRing`; and `TagRing` is
arithmetic over the types.  The proof first reduces a step to a few facts about
the ring (`RingStep`: who leaves, who enters, where the pointers go), shows
from them how `InFlight` moves (`FlightStep`), and only then treats the flags.
`NoEarlyReuse` follows from `Inv` in each state.

`RenameTableProofs`, for every stream that keeps two tags free (`PacedSpec`):

* `RenameTableCorrect`: `PacedSpec => []RenameTable`
* `RrfCorrect`: `PacedSpec => []RrfFollowsOwner`
* `OperandsCorrect`: `PacedSpec => OperandSound`

The inductive invariant is `PacedInv`: `Inv`, the two properties themselves and

* `TwoFree`: the allocator cannot run dry on this edge or the next, so there is
  no stall and the tag handed out is not in flight (`NoStall`);
* `LatchIsLast`: the DP/SW register holds the youngest tag, so it dispatches
  into the ROB entry of its owner only (`LatchOwns`);
* `EntriesHeld`: behind it every tag in flight has a valid entry with a
  destination, so the head that commits writes the ARF and clears its RRF entry
  (`HeadWrites`).

`TagStep` then says what an edge does to one tag in flight, `WritersStep` to the
writers of one register, and each conjunct follows from them.  The case that
carries the proof of `RenameTable` is a commit that frees a register: the
committing tag is the one recorded, so it is the youngest writer; it is also the
oldest tag in flight; so there is no other.

`ProgramOrderProofs`: `RenamingRefinesProgramOrder`, that is
`PacedSpec => ImplementsProgramOrder`.  `EntersAfterResult` is about the abstract
machine alone (which sequences follow a window), `WindowEntryStep` about one entry of
the window over an edge, `WindowStep` about the whole window, and `ClockRefines`
puts them together: an edge with a commit is a `Retire`, any other a `Proceed`.

`HeliosXTheorems`, for every number of tags, entries and registers, every set of
values, every ALU function and every stream that spares one entry of the station
(`SpareSpec`):

* `CoreInvariant`: `[]CoreInv`; `CoreTypeCorrect`: `[]CoreTypeOK`
* `NothingLostOrDoubled`: `[]ExactlyOnce`
* `StationIssuesOldest`: `[]OldestFirst`
* `WokenByOwnResult`: `WokenByResult`
* `CoreRefinesRenameCommit`: `ImplementsRenameCommit`, hence
  `CoreKeepsProgramOrder`: `ImplementsProgramOrder`
* `ValuesCorrect`: `[]ValuesOK`
* `CoreExecutesProgram`: `ImplementsSequentialMachine`
* `HeadNeverWaits`: `HeadAdvances`
* `HeadCommitsInTheEnd`: `ClockRuns /\ []EdgePossible => HeadCommits`

They assume two things of the constants, which `MCHeliosX` states again as
`CoreAssumption`, so that TLC evaluates them on every run of the core:

* `AluProgram`: no loads, jumps and links, which `HeliosX.v` sends to no unit that
  would finish them (section 7);
* `RingCovers`: `NumTags >= 2 * NumEntries - 1`; `Consts.vh` has 63 and 8, and
  section 3 says what happens with fewer.

The inductive invariant is `PacedInv /\ CoreInv`, later with `ValuesOK`.  Its parts
need each other in a circle, which is why the properties cannot be proved one by
one:

* that the dispatch stage is right (`PacedInv`) needs two free tags on every
  edge.  No wire provides them; `TagsSuffice` derives them from the size of the
  station: who is in flight waits in the station, is on its way there, or has left
  it (`InUseBound`), and no more than `NumEntries - 1` can have left without
  having committed (`OutBound`);
* that bound is the part `Overtaking`.  An instruction waits for operands of
  older ones only (`WaitsForOlder`), so the oldest that waits can be passed by a
  younger one only while the ALU holds an instruction older than all that wait
  (`AluHoldsOldest`), and then it issues next.  Whoever is overtaken again has one
  fewer ahead, so `Overtaken(t)`, which counts both, never grows beyond
  `NumEntries - 2`; `HeadBound` and `OutCount` turn that into a bound on those who
  have left;
* this argument uses that the station issues the oldest ready instruction
  (`IssuesOldest`), which is `SortBits`: tags no less than the commit pointer are
  from before the wrap, and the sort bits say the same from the second edge after
  the wrap on; until then all entries are from before it;
* what is in the station is what was dispatched and has not finished
  (`PlacesOK`), because there always is a free entry (`RoomForAll`), and an idle
  ALU wakes nobody because the entry it shows then was never written
  (`LastUnused`, `LatchLegal`).  That last part fails under `FullSpec`.

`HeliosXProofs` reduces an edge to its parts (`PipelineStep`, `StationStep`,
`AluStep`), says where each instruction goes (`ExecutingStep`, `WaitingStep`,
`InAluStep`) and what happens to a waiting operand (`OperandStep`), and shows that
each part but the last is kept; `HeliosXTheorems` has the counting.

`ValuesOK` follows a value: what an instruction reads of a register is zero, the
architectural value when no older instruction in flight writes it, or the result
of the youngest that does (`Supplies`).  `SuppliesKept` shows that this survives
an edge in each of the four cases that matter: the writer's result is still to
come, arrives now, is in the RRF, or leaves it for the ARF on this edge, which
happens only when that writer was the last older one (`YoungestStep`).  At the head
nobody is older, so the result that commits is that of the instruction on the
architectural registers (`CommitExecutes`), and the instructions in flight, in
order of their tags, are the queue of the sequential machine (`QueueAccepts`).

The last two say that the core does not only do the right thing but does it.  An
operand waits for an older instruction in flight, which the head does not have, so
the head's operands are there; the station issues the oldest ready instruction,
which is the head (`HeadIssues`); what leaves the station is in the latch of the ALU
on the next edge and finished on the one after (`HeadStep`).  `StagesLeft` of the
head therefore falls by one on every edge, which is `HeadAdvances`, a safety
property that bounds the wait by four edges.  Liveness follows by counting it down
(`HeadNears`, `HeadStays`): at each count weak fairness brings the next edge.
Whether that edge is enabled the prover cannot work out, as it has no rule for
`ENABLED`.  It is a hypothesis of the theorem, `EdgePossible`, and TLC checks it;
without it the theorem fails.

`MemoryProofs`, first about the store buffer, for every number of entries, addresses
and words:

* `BufferTypeCorrect`: `WrapSpec => []SbTypeOK`
* `PointersInOrder`: `WrapSpec => []RetiresInBounds`
* `MemoryIsFlat`: `MemSpec => ImplementsFlatMemory`

The inductive invariant joins the types, `RetiresInBounds` and a description of
the bits: an entry is marked as waiting exactly when its distance from the
retire pointer lies within that of the used pointer.  `RetiresInBounds` is what
keeps a completion within the stores that were issued, and it alone needs no
care from loads, so it is proved under `WrapSpec`.  Lemmas say how distances
change when one of the pointers moves, then how the set of waiting stores to an
address changes on a store and on a retirement; from them `Seen(a)`, the value
a program sees, changes on a store to `a` only.  A retirement of the youngest
store to `a` moves its value from the buffer to the RAM's port, and one of an
older store finds a younger one still waiting.  `Careful` enters at one place: as
long as the waiting entries do not reach across the end, the highest index is
the greatest distance, so `Match` is the youngest.  That a youngest one exists
is an argument over the finitely many distances (`WellFoundedInduction`).

Then about the memory station, for every number of entries and tags:

* `StationTypeCorrect`: `MemRsSpec => []MemRsTypeOK`
* `StationIsQueue`: `MemRsSpec => ImplementsMemQueue`

The station has no issue register: the RTL finds the oldest entry from the shape of
the busy bits.  The invariant `Ring` gives them that shape.  With `Age(e)` for the
number of entries written after `e`, an entry is busy exactly when its age is below
the number of busy entries.  `IssuePtrIsOldest` is the reason it is there: whichever
of its arms `IssuePtr` takes (all entries busy, busy at both ends, otherwise), it
finds a busy entry behind a free one, and in such a ring that is the one of the
highest age.  `CameFits` shows from the two bits the allocator looks at that a
request finds only free entries, with `NoPairAcrossEnd` for the pair whose second
bit is outside the vector; `RingMoves` that an edge extends the ring at one end and
shortens it at the other; `StepIsQueueEdge` reads this as a step of the queue.

`UnitProofs`, for every program and address space:

* `PcCorrect`: `FrontSpec => []PcFollowsInstruction`.  The invariant adds what the
  word in flight and the three addresses have to do with each other: the memory
  answers the address `pc_t`, and the instruction register holds a bubble or the word
  at `pc_id`.  That is kept because the kill accompanies every stall; with a kill
  unconnected the register would hold while `pc_id` moves.
* `FetchOrderCorrect`: `FrontSpec => []InOrderUntilStall`.  The invariant `Chain`
  follows the instructions through the registers: the one in `id`, the one in
  `inst_o`, the one the memory answers with and the first one from the address on
  its way are each the next of the program after the one before, whichever of the
  registers are empty.  It uses `ProgramIsOneBlock`, as the history variable
  `expected` does: from the entry point on the words of the program follow each
  other, and the fetch comes back there through zeros.

* `FrontEndSound`: `FrontSpec => [](TypeOK /\ TagRing /\ NoPhantomCommit)`, so what
  `RenameCommitProofs` shows for every stream of decoded instructions holds behind
  the fetch stage, too.  The step to show is that the decoder's output is a control
  word: its pc comes from the delay registers, which hold addresses of instructions
  because every address on its way keeps the alignment of the entry point, and
  those fit a bus of data (`AddressesAreData`; both are 32 bits in `Consts.vh`).
* `UnitsTypeCorrect`: `MCSpec => []UnitsTypeOK`, for the machine of the run `units`:
  the invariants of memory station, store buffer and front end side by side.

and for every width of a word that `WidthAssumption` names:

* `BranchCorrect`: `BranchSpec => []BranchMatchesIsa`
* `AluCorrect`: `AluSpec => []AluMatchesIsa`

Both are proved for every input (`BranchIsRight`, `AluIsRight`), beyond those the
runs start from.  `SignedSum` says that cutting a sum to a word and reading
words as signed numbers differ by multiples of `2^Width`; `MsbCompares` that
comparing sign bits first is comparing signed numbers.

Shifts and bitwise operations are about the bits of a word, `(x \div 2^i) % 2`, and
the provers know no powers.  `PowerTable` gives them the powers of two up to 2^32 as
numbers, `Powers` that they multiply; from there on a shift is a division or a
product (`RightShift`, `LeftShift`) and its bits are the operand's, moved.
The bitwise operations go through sets of positions and back, and what `WordOf`
makes of a set is a fold over it.  Instead of computing the fold the proof shows
that each set of positions has a number with just those bits (`WordExists`), that
bits determine a number (`BitsDetermine`), and that the fold is that number
(`WordOfIs`).  Each of the three is an induction; the library's theorems for that
take an operator, so they are written as the search for a least counterexample
(`LeastNumber`, `SmallestSet`).

Left to TLC: `EdgePossible`, as it is about `ENABLED`, and with it the part of
`HeadCommits` that rests on it; and the benches, which are single runs at fixed sizes.
What the constants are assumed to be: at least one tag and one register, 0 among
the values, a program of well-formed instructions (`Consts`, `Decoder`).

## 6. Where the code departs from its documents

* `rename_dry` (`ReNameUnit.v:302`, `Arf.v:137`): the instruction that stalls
  for lack of a tag is entered in the rename table under the tag of the oldest
  instruction in flight; `dp.md:174` says it is allocated only without a stall.
* `station_full` (`ExUnit.v:108`): an idle ALU broadcasts the tag of an entry
  that was not issued, and the station wakes its consumers; `sw.md:80` says
  they wait for the execution result.  As long as one entry has never been
  written, its tag 0 is what is broadcast, and no one waits for it.
* `station_overflow` (`SwUnit.v:151`): an instruction that finds no free entry
  is lost; `sw.md:12` says the rename unit is told and stops dispatching.
* `fetch_stall` (`IFUnit.v:32`, `HeliosX.v:189`): the pc moves on during a stall
  and the word on its way is killed, so an instruction is skipped; `if.md:78`
  says a stall keeps the address of the current instruction.  `InOrderUntilStall`
  shows that nothing else disturbs the order.
* `memory_wrap` (`StoreBuffer.v:66`): the pointers go through entry 0, which
  loads do not search, and after the wrap the highest index is not the youngest
  store; `StoreBuffer.v:25`, `:65` and `ex.md:28`, `:73` say that entry 0 is not
  used and that a load gets what the buffer holds.

## 7. Not modelled, and what is left

* The dual-issue `COM/ROB.v`: no module instantiates it.  Its pointers are
  masked with the constant 1, so it commits from its first two entries only, and
  its own bench expects it to reach entries 2 and 4; there is no behaviour of the
  core to state about it.
* Loads, jumps and links in the whole core: they take tags, but no connected unit
  ever finishes them, so the programs of the core runs are ALU instructions;
  `rename` covers instructions that never finish, and the memory and branch units
  are modelled on their own.
* The branch and memory latches of `ExUnit.v`, whose ports `HeliosX.v` leaves idle.
* Field extraction and immediates (pure wiring), the multiply/divide control that
  nothing consumes, debug outputs but the ones the bench reads.
* The board wrapper of `soc/`, which has no logic of its own, and the differential
  test, which compares with a simulator outside the repository.
* The remaining benches: `dpunit_tb`, `rrf_tb` and `exunit_tb` drive ports that the
  models, like `HeliosX.v`, leave unconnected, or words wider than TLC's integers;
  `rs_alu_tb` chooses the entries itself; the others drive combinational parts
  that the models take as operators, or assert nothing.

Worth doing next: the fetch stage and the memory units connected to the core, once
the RTL sends instructions to them.
