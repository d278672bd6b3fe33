CONSTANTS
  N = 5
  Fds <- MCFds
SPECIFICATION Spec
INVARIANTS
  TypeOK
  FreeListIntact
PROPERTIES
  ImplementsPool
