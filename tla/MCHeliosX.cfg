\* A stream that leaves one entry of the station unused.
CONSTANTS
  NumTags = 5
  NumRegs = 2
  Data = {0, 1}
  NumEntries = 3
  Fn = {"ADD", "AND"}
  Program <- MCProgram
  AluFn <- MCNor
SPECIFICATION SpareSpec
INVARIANTS CoreTypeOK ValuesOK
PROPERTIES ImplementsSequentialMachine
