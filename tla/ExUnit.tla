-------------------------------- MODULE ExUnit --------------------------------
(***************************************************************************)
(* rtl/core/EX/ExUnit.v, the ALU port: the result of the selected entry is *)
(* latched on every clock edge together with its tag; only the two write   *)
(* enables say whether an instruction was issued.                          *)
(***************************************************************************)
EXTENDS Decoder

VARIABLE alu_latch    \* [result, rrf_tag, rob_we, rrf_we]

ExInit == alu_latch = [result |-> 0, rrf_tag |-> 0,
                       rob_we |-> FALSE, rrf_we |-> FALSE]

(* One rising clock edge; sel is the selected entry of the station.        *)
ExClock(issue, sel) ==
  alu_latch' = [result  |-> AluResult(sel.ctl, sel.op1, sel.op2),
                rrf_tag |-> sel.tag,
                rob_we  |-> issue,
                rrf_we  |-> issue /\ sel.ctl.wr_reg]

ExTypeOK == alu_latch \in [result: Data, rrf_tag: TagIndex,
                           rob_we: BOOLEAN, rrf_we: BOOLEAN]
=============================================================================
