CONSTANTS
  Conns = {L, c1}
  Listener = L
  NoEvent = NoEvent
  Fds <- MCFds
  ListenFd <- MCListenFd
  MaxBacklog = 2
  MaxUnread = 1
  Failing <- NoFailures
  StartFailing <- AllFailures
SPECIFICATION StartSpec
CHECK_DEADLOCK FALSE
INVARIANTS
  StartTypeOK
  DeafIsIdle
PROPERTIES
  ImplementsLoop
  EarlyClientAccepted
