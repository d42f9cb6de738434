\* A stream that fills the station exactly.
CONSTANTS
  NumTags = 5
  NumRegs = 2
  Data = {0, 1}
  NumEntries = 3
  Fn = {"ADD", "AND"}
  Program <- MCProgram
  AluFn <- MCNor
SPECIFICATION FullSpec
PROPERTIES WokenByResult
