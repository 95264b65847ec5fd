SPECIFICATION FairSpec
CONSTANTS
  Callers = {c1, c2}
  Stream = stream
  Command = command
  MaxConns = 4
  GivesUp = TRUE
INVARIANTS EveryConnOwned AttachedIsCurrent WaitedIsQuiet LossIsSeen
PROPERTY CloseReturns
CHECK_DEADLOCK FALSE
