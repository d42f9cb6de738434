CONSTANTS
  NumTags = 5
  NumRegs = 2
  NumMem = 4
  NumStores = 4
  Data = {0, 1, 4, 8, 12}
  Program = {}
  Fn = {"ADD"}
  AluFn <- MCAluFn
  EntryPoint = 0
  AddressSpace = 16
  Image <- MCImage
  Addr = {0, 1}
  Word = {0, 1}
  Width = 4
SPECIFICATION MCSpec
CHECK_DEADLOCK FALSE
INVARIANTS
  UnitsTypeOK
  RetiresInBounds
  PcFollowsInstruction
  InOrderUntilStall
  AluMatchesIsa
  BranchMatchesIsa
PROPERTIES
  ImplementsMemQueue
  ImplementsFlatMemory
