\* Two connections over the same descriptor; the client of the first may close.
SPECIFICATION FairSpec
CONSTANTS
  MaxFd = 1
  MaxConn = 2
  MaxData = 4
  MaxWrites = 5
  BufCnt = 3
  QueueLen = 1
  Writers <- FirstEnds
  Closers <- FirstGuest
  NonBlocking <- GuestOnly
  Recursive = TRUE
INVARIANTS
  TypeOK
  InOrder
  Owned
PROPERTIES
  DataMoves
CHECK_DEADLOCK FALSE
