CONSTANTS
  Headers <- FewHeaders
  HdrLen = 3
  BufSize = 5
  Window = 1
  MaxPackets = 2
  Splits = TRUE
  Failing = {}
SPECIFICATION Spec
CHECK_DEADLOCK FALSE
INVARIANTS
  PayloadHasDataLength
