\* Clients that hold several buffers, abort and put them in any order, and
\* an endpoint that connects late.
SPECIFICATION Spec
CONSTANTS
  BufCnt = 2
  CntMod = 4
  MaxMsg = 3
  MaxHeld = 3
  GetFlags <- GetWait
  PutFlags <- PutAbortOrPlain
  SigFlags = {}
  IoCmds = {}
  Leads = {}
  Attached <- ConsumerOnly
  Interrupts = FALSE
INVARIANTS
  TypeOK
  ExclusiveHold
  NoLostMessage
  GotContents
CHECK_DEADLOCK FALSE
