CONSTANTS
  Conns = {c1, c2}
  NoEvent = NoEvent
  Fds <- MCFds
SPECIFICATION Spec
INVARIANTS
  TypeOK
  IndexConsistent
  SetsMatchIndex
  RegisteredAreOpen
  MaxFdCovers
  ReadyEqualsNready
