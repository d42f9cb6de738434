\* Every instruction stream: the ring runs empty, stalls and takes bubbles.
CONSTANTS
  NumTags = 4
  NumRegs = 2
  Data = {0}
  Fn = {"ADD"}
  Program <- MCProgram
  AluFn <- MCAlu
SPECIFICATION Spec
INVARIANTS TypeOK TagRing NoPhantomCommit NoEarlyReuse
