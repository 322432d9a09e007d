\* A sender on each side: one event means signals and room.
SPECIFICATION FairSpec
CONSTANTS
  A = A
  B = B
  a1 = a1
  a2 = a2
  b1 = b1
  Threads <- OnePerSide
  ThreadsOfA <- OnlyA1
  MaxSig = 3
PROPERTIES
  SignalDelivered
  SenderServed
