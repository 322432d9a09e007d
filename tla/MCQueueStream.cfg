\* Streaming with any hysteresis.
SPECIFICATION Spec
CONSTANTS
  BufCnt = 3
  CntMod = 16
  MaxMsg = 6
  MaxHeld = 1
  GetFlags <- GetWait
  PutFlags <- PutStream
  SigFlags = {}
  IoCmds = {}
  Leads <- SafeLeads
  Attached <- Both
  Interrupts = FALSE
INVARIANTS
  NoMutualWait
ACTION_CONSTRAINT LeadsFirst
CHECK_DEADLOCK FALSE
