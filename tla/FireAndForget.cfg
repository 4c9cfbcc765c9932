SPECIFICATION FairSpec
CONSTANTS
  MainDelay = 3
  JobDelay = 6
  MaxLate = 7
INVARIANT
  CancelWins
PROPERTY
  ReturnsProcessed
