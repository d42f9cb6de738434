------------------------------ MODULE MCBenches ------------------------------
(***************************************************************************)
(* The repository's own benches, replayed: each behaviour is one bench.    *)
(* The units a bench does not drive stay as the reset leaves them.  The    *)
(* sizes are those of the hardware.                                        *)
(***************************************************************************)
EXTENDS HeliosXBench, SwUnitBench, MemBench, StageBench

MCData == {0, 4, 8, 12, 13, 16, 20, 22, 929, 951, 1859}
MCAluFn(f, a, b) == IF a + b \in MCData THEN a + b ELSE 0
MCAddr == {0} \cup {Base + 4 * k : k \in 0..2}
MCWord == {0, 1, 2, 3, 4, 8, 12}

dispatchOnly == <<allocVars, rrfVars, dpVars>>
otherUnits   == <<alu_latch, insn, fetched, pc_t, pc_id, debug>>
stations     == <<rsVars, memRsVars>>

AtReset ==
  /\ CoreInit /\ FetchInit /\ MemRsInit /\ MemInit
  /\ debug = [pc |-> 0, reg_id |-> 0, wdata |-> 0, wen |-> FALSE]

MCInit ==
  /\ \/ HeliosXBegin
     \/ /\ arf_data = [r \in Regs |-> 0]
        /\ \/ SwUnitBegin \/ MemBenchBegin \/ IfBenchBegin \/ IdBenchBegin
           \/ ArfBenchBegin \/ AllocBenchBegin \/ RobBenchBegin
  /\ AtReset

MCNext ==
  \/ HeliosXStep /\ UNCHANGED <<memRsVars, memVars>>
  \/ SwUnitStep /\ UNCHANGED <<dispatchOnly, arfVars, robVars, ifVars,
                              otherUnits, memVars>>
  \/ MemBenchStep /\ UNCHANGED <<benchCoreVars, memRsVars>>
  \/ IfBenchStep /\ UNCHANGED <<dispatchOnly, arfVars, robVars, otherUnits,
                               stations, memVars>>
  \/ IdBenchStep /\ UNCHANGED <<allocVars, rrfVars, dp, nextrrfcyc_reg, arfVars,
                               robVars, ifVars, otherUnits, stations, memVars>>
  \/ ArfBenchStep /\ UNCHANGED <<dispatchOnly, robVars, ifVars, otherUnits,
                                stations, memVars>>
  \/ AllocBenchStep /\ UNCHANGED <<rrfVars, dpVars, arfVars, robVars, ifVars,
                                  otherUnits, stations, memVars>>
  \/ RobBenchStep /\ UNCHANGED <<dispatchOnly, arfVars, ifVars, otherUnits,
                                stations, memVars>>

MCSpec == MCInit /\ [][MCNext]_<<benchCoreVars, memRsVars, memVars, tbVars>>
=============================================================================
