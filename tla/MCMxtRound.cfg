\* The queue of a descriptor goes round.
SPECIFICATION Spec
CONSTANTS
  MaxFd = 1
  MaxConn = 1
  MaxData = 4
  MaxWrites = 5
  BufCnt = 3
  QueueLen = 1
  Writers <- FirstEnds
  Closers = {}
  NonBlocking <- GuestOnly
  Recursive = TRUE
INVARIANTS
  NewlyAdded
CHECK_DEADLOCK FALSE
