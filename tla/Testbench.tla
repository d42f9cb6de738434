------------------------------ MODULE Testbench ------------------------------
(***************************************************************************)
(* testbench/verilator/verilator_tb.hpp: the frame of the C++ benches.     *)
(* The clock rises at every tenth time unit; a bench changes inputs right  *)
(* after an edge and looks at outputs until the next one, so a state of    *)
(* the model is the time from one rising edge to the next.                 *)
(***************************************************************************)
EXTENDS Integers, TLC

VARIABLES
  bench,       \* the bench that is run
  sim_time,    \* the time of the latest rising edge
  ports        \* the inputs the bench holds, a record

tbVars == <<bench, sim_time, ports>>

(* A check at time t, in the half period that begins with an edge or in    *)
(* the one behind it.                                                      *)
At(t) == sim_time = t - (t % 10)

(* A bench starts behind the last edge of its reset with the inputs idle   *)
(* and those it changes at that time.                                      *)
Begin(name, start, idle, pokes) ==
  /\ bench = name /\ sim_time = start
  /\ ports = pokes[start] @@ idle

(* One period of a bench.  It pokes the inputs that its input functions    *)
(* name for the time; the others keep their values.                        *)
Tick(name, end_time, pokes) ==
  /\ bench = name /\ sim_time < end_time
  /\ bench' = bench /\ sim_time' = sim_time + 10
  /\ ports' = IF sim_time' \in DOMAIN pokes
              THEN pokes[sim_time'] @@ ports ELSE ports
=============================================================================
