SPECIFICATION FairSpec
CONSTANTS
  NumWorkers = 4
  Delay <- Staggered
  MaxLate = 5
INVARIANTS
  FailureCountsNothing
  AbortReachesAll
  NoOrphan
PROPERTY
  ReturnsCount
