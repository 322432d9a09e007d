\* One buffer held at a time, put in turn.
SPECIFICATION FairSpec
CONSTANTS
  BufCnt = 2
  CntMod = 4
  MaxMsg = 4
  MaxHeld = 1
  GetFlags <- GetAny
  PutFlags <- PutInTurn
  SigFlags <- EndingError
  IoCmds = {"SET_ERROR"}
  Leads = {}
  Attached <- Both
  Interrupts = TRUE
INVARIANTS
  WaiterCovered
PROPERTIES
  FifoSpec
  WaiterServed
CHECK_DEADLOCK FALSE
