SPECIFICATION PromptSpec
CONSTANTS
  Callers = {c1}
  IDs = {a, b}
  Intervals = {i}
  MaxInFlight = 1
  MaxPolls = 2
  MaxGroups = 2
  MaxRuns = 2
  MaxConns = 2
PROPERTIES CallsReturn PollsFollowReconnect
CHECK_DEADLOCK FALSE
