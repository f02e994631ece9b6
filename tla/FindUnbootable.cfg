CONSTANTS
  MaxFact = 1
  MaxStarts = 3
SPECIFICATION StartSpec
CHECK_DEADLOCK FALSE
INVARIANT ValidMeansUsable
