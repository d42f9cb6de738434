CONSTANTS
  NumTags = 2
  NumRegs = 2
  Data = {0, 4, 8, 12}
  Program = {}
  Fn = {"ADD"}
  AluFn <- MCAluFn
  EntryPoint = 0
  AddressSpace = 16
  Image <- MCImage
SPECIFICATION FrontSpec
INVARIANT InProgramOrder
