SPECIFICATION FairWE2Spec
CONSTANTS
  Orders <- AnyOrder
  MaxLate = 0
INVARIANT
  ReadySets
PROPERTIES
  EveryOrderFinishes
  ImplementsInterpreter
