SPECIFICATION Spec
CONSTANT
  Module = {1, 2, 3, 4}
INVARIANTS
  TypeOK
  CycleIsReal
  ImportsFirst
  NoCycleEscapes
CHECK_DEADLOCK FALSE
