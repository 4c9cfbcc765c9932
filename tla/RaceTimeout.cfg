SPECIFICATION FairRaceSpec
CONSTANTS
  races <- WithCloseRaces
  MaxLate = 3
INVARIANTS
  FastEnoughSucceed
  NoLeakedCancel
PROPERTY
  AllDecided
