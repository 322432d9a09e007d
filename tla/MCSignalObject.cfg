\* Two threads wait on a device, one polls, a device file is open; a 64-bit build.
SPECIFICATION FairSpec
CONSTANTS
  o1 = o1
  o2 = o2
  w1 = w1
  w2 = w2
  p1 = p1
  f1 = f1
  None = None
  Handle <- TwoAddresses
  Waiter <- TwoWaiters
  Poller <- OnePoller
  File <- OneFile
  LongReads = TRUE
INVARIANTS
  TypeOK
  RefsExact
  NoSignalMissed
PROPERTIES
  SleeperWoken
  DestroyedFreed
