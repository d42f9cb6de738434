CONSTANTS
  NumTags = 63
  NumRegs = 32
  NumEntries = 8
  NumMem = 4
  NumStores = 32
  Data <- MCData
  Program = {}
  Fn = {"ADD"}
  AluFn <- MCAluFn
  EntryPoint = 0
  AddressSpace = 128
  Image <- img
  Addr <- MCAddr
  Word <- MCWord
SPECIFICATION MCSpec
CHECK_DEADLOCK FALSE
INVARIANTS
  HeliosXBenchPasses
  SwUnitBenchPasses
  MemBenchPasses
  StageBenchPasses
