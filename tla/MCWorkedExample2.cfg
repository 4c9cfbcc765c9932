SPECIFICATION Spec
CONSTANT
  Schedules <- SmallSchedules
INVARIANTS
  FeasibleIsEncoded
  InfeasibleIsNotEncoded
  Confluent
