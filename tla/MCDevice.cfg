\* A user thread and the card driver on each side, two slots, the second
\* of them until the host's controller is taken down.
SPECIFICATION FairSpec
CONSTANTS
  g1 = g1
  h1 = h1
  gk = gk
  hk = hk
  None = None
  User <- OneEach
  Card <- Cards
  Home <- HomeOf
  MaxSlot = 2
  MaxId <- IdBounds
ACTION_CONSTRAINT TwoSlotsBefore
CHECK_DEADLOCK FALSE
INVARIANTS
  TypeOK
  StrictLink
  NothingFreed
  OriginLast
  NoLateDevice

  
