CONSTANTS
  Conns = {L, c1, c2}
  Listener = L
  NoEvent = NoEvent
  Fds <- FullFds
  ListenFd <- MCListenFd
  MaxBacklog = 1
  MaxUnread = 2
  Failing <- AllFailures
SPECIFICATION Spec
SYMMETRY SlotSymmetry
INVARIANTS
  PostedAreLive
  FreeIsQuiet
  ServedHavePools
  DescriptorsStayLow
