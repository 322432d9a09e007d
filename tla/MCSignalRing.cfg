\* Two senders on one side.
SPECIFICATION Spec
CONSTANTS
  A = A
  B = B
  a1 = a1
  a2 = a2
  b1 = b1
  Threads <- TwoOnA
  ThreadsOfA <- TwoOnA
  MaxSig = 3
INVARIANTS
  TypeOK
  RingIntact
  RingAttended
