SPECIFICATION BuildSpec
CONSTANTS
  Worlds <- MCWorlds
  LockHinted <- MCLockHinted
  SyncHinted <- MCSyncHinted
INVARIANTS
  ReadOnlyIsUnwritten
  SplitIsConservative
  SlicesAreCounts
PROPERTY
  LostForGood
