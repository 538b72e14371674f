SPECIFICATION Spec
CONSTANTS
  Adapters = {a1, a2, a3}
  Success = a1
  Defects <- MCDefects
INVARIANTS
  TypeOK
  UpdateReached
  NothingLeft
  NoFalseAlarm
PROPERTY
  HealthyPasses
CHECK_DEADLOCK FALSE
