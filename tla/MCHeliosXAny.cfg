\* Any stream: the station overflows.
CONSTANTS
  NumTags = 5
  NumRegs = 2
  Data = {0, 9}
  NumEntries = 3
  Fn = {"ADD", "AND"}
  Program <- MCKeepProgram
  AluFn <- MCKeep
SPECIFICATION AnySpec
INVARIANTS ExactlyOnce
