SPECIFICATION Spec
CONSTANTS
  MaxTask = 2
  None = None
  SoleFolder = FALSE
  MaxClient = 2
  MaxDocument = 2
  MaxVersion = 2
INVARIANTS
  VersionsAreSent
  NothingRefused
  CurrentIsKept
PROPERTIES
  DisplacedEnds
  TasksEnd
CHECK_DEADLOCK FALSE
