SPECIFICATION Spec
CONSTANTS
  Callers = {c1}
  Invalidators = {i1, i2}
  gw = gw
  gwStream = gwStream
  address = address
  Keys <- MCKeys
  Extends <- MCExtends
  TTLs = {0, 1, 3}
  Minute = 1
  Forever = 9
INVARIANT FreshUnlessOrphaned
SYMMETRY Symmetry
CHECK_DEADLOCK FALSE
