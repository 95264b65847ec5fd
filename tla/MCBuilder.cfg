SPECIFICATION WordsSpec
CONSTANTS
  PathBuilders = {b1}
  PrintBuilders = {p1}
  StreamBuilders = {s1}
  IDs = {id1}
  Nothing = Nothing
  Words <- MCWords
  Intervals <- MCIntervals
  MaxFlags = 4
  MaxOthers = 1
  MaxArrays = 5
  Quantities <- MCQuantities
  OddTexts <- MCOddTexts
INVARIANTS  CachedReadsTheSame WordsAsAsked
CHECK_DEADLOCK FALSE
