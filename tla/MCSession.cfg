CONSTANTS
  Headers <- MCHeaders
  HdrLen = 3
  BufSize = 5
  Window = 1
  MaxPackets = 3
  Splits = FALSE
  Failing = {}
  AnswerLen = 2
  SndBuf = 2
SPECIFICATION FairSession
CHECK_DEADLOCK FALSE
PROPERTIES
  SessionImplementsService
  AnswersArrive
