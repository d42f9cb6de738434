\* A stream that keeps two tags free: operands, rename table, refinement.
CONSTANTS
  NumTags = 4
  NumRegs = 2
  Data = {0, 1}
  Fn = {"ADD"}
  Program <- MCProgram
  AluFn <- MCAlu
SPECIFICATION PacedSpec
INVARIANTS RenameTable RrfFollowsOwner
PROPERTIES OperandSound ImplementsProgramOrder
