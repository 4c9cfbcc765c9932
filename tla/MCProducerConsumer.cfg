SPECIFICATION FairSpec
CONSTANTS
  NumProducers = 2
  NumConsumers = 2
  ItemsEach = 4
  Target = 4
  maxsize = 3
  Orders <- AnyOrder
  MaxLate = 0
INVARIANTS
  ExactlyOnceInOrder
  NoLostWakeup
PROPERTIES
  AllCollected
  ImplementsChannel
