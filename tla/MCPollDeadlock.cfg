SPECIFICATION FairSpec
CONSTANTS
  Callers = {c1}
  IDs = {a}
  Intervals = {i}
  MaxInFlight = 1
  MaxPolls = 1
  MaxGroups = 1
  MaxRuns = 1
  MaxConns = 1
PROPERTY CallsReturn
CHECK_DEADLOCK FALSE
