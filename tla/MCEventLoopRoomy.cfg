CONSTANTS
  Conns = {L, c1, c2}
  Listener = L
  NoEvent = NoEvent
  Fds <- RoomyFds
  ListenFd <- MCListenFd
  MaxBacklog = 1
  MaxUnread = 1
  Failing <- NoFailures
SPECIFICATION FairSpec
INVARIANTS
  TypeOK
  BackendConsistent
  ServedAreArmed
  NoDescriptorLost
PROPERTIES
  ReportedKeepFd
  HangupHandled
  BlockedGoesQuiet
  AcceptProgress
