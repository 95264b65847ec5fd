SPECIFICATION FairSpec
CONSTANTS
  Adders = {a1, a2}
  Closers = {c1, c2}
  maxSize = 2
  MaxPoints = 3
INVARIANTS EveryPointOnce FullIsNoticed CloseLeavesNothing
PROPERTIES CloseReturns BufferDrains
CHECK_DEADLOCK FALSE
