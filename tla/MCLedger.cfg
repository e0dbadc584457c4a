SPECIFICATION Spec
CONSTANTS
  Calls = {o1, o2}
  Fds = {f1, f2, f3}
  Free = Free
  Other = Other
  NoFd = NoFd
  MaxOpens = 2
INVARIANTS
  LedgerExact
  CleanReturn
PROPERTIES
  CleanupEnds
