SPECIFICATION FairSpec
CONSTANTS
  num_tasks = 6
  Delay = 2
  MaxLate = 2
INVARIANTS
  TypeOK
  MutualExclusion
  NoLostUpdate
  NoLostWakeup
PROPERTIES
  FifoGrant
  ReturnsNumTasks
  ImplementsAtomicCounter
