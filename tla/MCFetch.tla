------------------------------ MODULE MCFetch ------------------------------
(***************************************************************************)
(* The fetch stage in front of the core with a ring of two tags, which     *)
(* runs dry and stalls.                                                    *)
(***************************************************************************)
EXTENDS FrontEnd

MCAluFn(f, a, b) == 0
MCImage == [a \in {0, 4, 8} |->
              [Bubble EXCEPT !.wr_reg = TRUE, !.rs_ent = "ALU",
                             !.rd = 1, !.imm = a]]
=============================================================================
