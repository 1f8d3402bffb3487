SPECIFICATION Spec
CONSTANTS
  MaxTask = 2
  None = None
  SoleFolder = TRUE
  MaxClient = 2
  MaxDocument = 1
  MaxVersion = 1
INVARIANTS
  RestartStartsAnew
CHECK_DEADLOCK FALSE
