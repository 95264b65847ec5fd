SPECIFICATION FairSpec
CONSTANTS
  Callers = {c1, c2}
  Names = {n1, n2}
  MaxDevs = 4
INVARIANTS ConnsOwned
PROPERTIES LiveIsKept AllOrNothing CallsReturn
CHECK_DEADLOCK FALSE
