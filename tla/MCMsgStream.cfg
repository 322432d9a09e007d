\* Every kind of call, a receiver that may stop its sender, either may end.
SPECIFICATION Spec
CONSTANTS
  BufCnt = 2
  BufSize = 2
  MaxBytes = 6
  SendLens = {0, 1, 3, 5}
  SendFlags <- AllSends
  RcvLens = {1, 3}
  RcvFlags <- AllReceives
  Signals = {"STOP", "START", "SHUTDOWN"}
  Resumes = FALSE
CHECK_DEADLOCK FALSE
INVARIANTS
  TypeOK
  BuffersAccounted
  NoByteForgotten
PROPERTY
  StreamSpec
