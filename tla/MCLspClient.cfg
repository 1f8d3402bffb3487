SPECIFICATION Spec
CONSTANTS
  MaxId = 3
  MaxRequest = 2
INVARIANTS
  NoPromiseLost
  GivenUpOnce
PROPERTIES
  CallsEnd
  KeepsContract
CHECK_DEADLOCK FALSE
