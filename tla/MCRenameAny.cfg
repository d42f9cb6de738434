\* Every stream on a ring of two tags: what a stall does to the rename table.
CONSTANTS
  NumTags = 2
  NumRegs = 2
  Data = {0}
  Fn = {"ADD"}
  Program <- MCProgram
  AluFn <- MCAlu
SPECIFICATION Spec
INVARIANTS RenameTable
