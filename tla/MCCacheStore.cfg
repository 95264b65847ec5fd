SPECIFICATION Spec
CONSTANTS
  Callers = {c1, c2}
  gw = gw
  gwStream = gwStream
  address = address
  route = route
  Keys <- MCKeys
  Extends <- MCExtends
INVARIANTS IndexExact FreshUnlessLate
SYMMETRY Symmetry
CHECK_DEADLOCK FALSE
