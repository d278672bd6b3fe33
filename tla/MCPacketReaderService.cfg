CONSTANTS
  Headers <- MCHeaders
  HdrLen = 3
  BufSize = 5
  Window = 1
  MaxPackets = 3
  Splits = FALSE
  Failing = {}
SPECIFICATION FairSpec
CHECK_DEADLOCK FALSE
PROPERTIES
  ImplementsService
  EverySentServed
