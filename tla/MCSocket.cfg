\* Two threads, two sockets, a client that keeps the rules.
SPECIFICATION FairSpec
CONSTANTS
  t1 = t1
  t2 = t2
  t3 = t3
  d1 = d1
  d2 = d2
  None = None
  Thread <- TwoThreads
  MaxHandle = 2
  Dev <- OneDevice
  Breaks = {}
CHECK_DEADLOCK FALSE
INVARIANTS
  TypeOK
  RefsExact
  NoFreedSocket
  DeviceUsable
  NoDeviceLost
PROPERTY
  ClosedFreed
