\* One right value: three usable entries and a larger ring.
CONSTANTS
  NumTags = 7
  NumRegs = 2
  Data = {0, 9}
  NumEntries = 4
  Fn = {"ADD", "AND"}
  Program <- MCKeepProgram
  AluFn <- MCKeep
SPECIFICATION MCKeepSpareSpec
INVARIANTS CoreInv ExactlyOnce OldestFirst
PROPERTIES WokenByResult ImplementsRenameCommit HeadAdvances
