SPECIFICATION FairSpec
CONSTANTS
  NumWaiters = 12
  Delay = 5
  MaxLate = 6
INVARIANTS
  SetReleasesAll
  ReleasedInOrder
PROPERTY
  ReturnsAll
