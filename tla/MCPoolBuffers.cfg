CONSTANTS
  PageSize = 4
  AlignSize = 2
  Junk = "junk"
  Inputs = {in}
  Outputs = {out1, out2}
  Records = {rec}
  Chunks <- MCChunks
  Zeros <- MCZeros
  Sizes <- MCSizes
  StructSize = 2
  HdrLen = 2
  MaxDlen = 1
  MaxContent = 3
  Wrap = 8
  SizeWrap = 16
  MaxMem = 4
SPECIFICATION Spec
CHECK_DEADLOCK FALSE
INVARIANTS
  HeapIsPool
  AreasDisjoint
PROPERTIES
  BrokenByWrapOnly
  ImplementsStrings
