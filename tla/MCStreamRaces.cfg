SPECIFICATION Spec
CONSTANTS
  Callers = {c1, c2}
  Supervisor = sup
  IDs = {a, b}
  MaxListeners = 2
  MaxAttempts = 2
  MaxConns = 2
  CancelTimesOut = TRUE
SYMMETRY Symmetry
INVARIANTS DetachedOnce OpenIsRead DropKeepsEntry ReattachMissesNone
CHECK_DEADLOCK FALSE
