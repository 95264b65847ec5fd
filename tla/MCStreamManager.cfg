SPECIFICATION FairSpec
CONSTANTS
  Callers = {c1}
  Supervisor = sup
  IDs = {a, b}
  MaxListeners = 2
  MaxAttempts = 2
  MaxConns = 2
  CancelTimesOut = TRUE
INVARIANTS TypeOK FinishedIsGone
PROPERTIES FinishRemovesOwn RefinesRegistry EndedLeavesMap
CHECK_DEADLOCK FALSE
