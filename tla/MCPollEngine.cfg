SPECIFICATION Spec
CONSTANTS
  Callers = {c1, c2}
  IDs = {a, b}
  Intervals = {i, j}
  MaxInFlight = 1
  MaxPolls = 2
  MaxGroups = 2
  MaxRuns = 2
  MaxConns = 2
SYMMETRY Symmetry
INVARIANTS IndexAgrees OneTicker InFlightExact
PROPERTIES RefinesRegistry LimitCountsTheCounted
CHECK_DEADLOCK FALSE
