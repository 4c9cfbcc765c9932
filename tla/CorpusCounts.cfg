SPECIFICATION BuildSpec
CONSTANTS
  Worlds <- MCWorlds
  LockHinted <- MCLockHinted
  SyncHinted <- MCSyncHinted
INVARIANT
  CountedOnce
