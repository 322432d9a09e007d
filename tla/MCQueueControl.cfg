\* Stop and start, shutdown, close, flush and reset.
SPECIFICATION Spec
CONSTANTS
  BufCnt = 2
  CntMod = 4
  MaxMsg = 3
  MaxHeld = 2
  GetFlags <- GetEither
  PutFlags <- PutUnblocked
  SigFlags <- StopOrEnd
  IoCmds = {"RESET"}
  Leads = {}
  Attached <- Both
  Interrupts = FALSE
INVARIANTS
  StopAdmitsOne
  GotContents
CHECK_DEADLOCK FALSE
