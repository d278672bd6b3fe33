CONSTANTS
  Headers <- FewHeaders
  HdrLen = 3
  BufSize = 5
  Window = 2
  MaxPackets = 3
  Splits = TRUE
  Failing = {"malloc"}
SPECIFICATION FairSpec
CHECK_DEADLOCK FALSE
INVARIANTS
  TypeOK
  BytesInOrder
PROPERTIES
  ShutNoticed
