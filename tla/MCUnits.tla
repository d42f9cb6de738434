------------------------------ MODULE MCUnits ------------------------------
(***************************************************************************)
(* The units around the ALU path, each on its own: a behaviour is one of   *)
(* the memory station, the memory access unit with its memory, the fetch   *)
(* stage in front of the core, the ALU or the branch unit.  The others     *)
(* stand still.                                                            *)
(***************************************************************************)
EXTENDS MemDispatch, MemAccess, FrontEnd, BranchUnit

VARIABLE unit

MCAluFn(f, a, b) == 0
MCImage == [a \in {0, 4, 8} |->
              [Bubble EXCEPT !.wr_reg = TRUE, !.rs_ent = "ALU",
                             !.rd = 1, !.imm = a]]

stationVars == <<memRsVars, next_tag>>
unitVars == <<stationVars, memVars, frontVars, alu_in, branch_in>>

NoAlu == alu_in = [op |-> "ADD", in1 |-> 0, in2 |-> 0]
NoBranch == branch_in = [opcode |-> "JAL", alu_op |-> "ADD", src1 |-> 0,
                         src2 |-> 0, pc |-> 0, imm |-> 0]

MCInit ==
  /\ MemDispatchInit /\ MemInit /\ FrontInit
  /\ \/ unit = "alu" /\ AluInit /\ NoBranch
     \/ unit = "branch" /\ BranchInit /\ NoAlu
     \/ unit \in {"station", "memory", "front"} /\ NoAlu /\ NoBranch
  /\ unit # "front" => ~valid[1]

MCNext ==
  /\ \/ unit = "station" /\ MemRsNext
        /\ UNCHANGED <<memVars, frontVars, alu_in, branch_in>>
     \/ unit = "memory" /\ MemNext
        /\ UNCHANGED <<stationVars, frontVars, alu_in, branch_in>>
     \/ unit = "front" /\ FrontNext
        /\ UNCHANGED <<stationVars, memVars, alu_in, branch_in>>
     \/ unit = "alu" /\ AluNext
        /\ UNCHANGED <<stationVars, memVars, frontVars, branch_in>>
     \/ unit = "branch" /\ BranchNext
        /\ UNCHANGED <<stationVars, memVars, frontVars, alu_in>>
  /\ UNCHANGED unit

MCSpec == MCInit /\ [][MCNext]_<<unitVars, unit>>

(* Every register of the units keeps its width.                       *)
UnitsTypeOK ==
  /\ MemRsTypeOK /\ next_tag \in Tags
  /\ SbTypeOK /\ memory \in [Addr -> Word] /\ read_data \in Word
  /\ TypeOK
=============================================================================
