CONSTANTS
  Headers <- Requests
  HdrLen = 3
  BufSize = 5
  Window = 2
  MaxPackets = 3
  Splits = FALSE
  Failing = {"malloc"}
  AnswerLen = 2
  SndBuf = 3
SPECIFICATION SessionSpec
CHECK_DEADLOCK FALSE
INVARIANTS
  SessionTypeOK
  AnswersInOrder
