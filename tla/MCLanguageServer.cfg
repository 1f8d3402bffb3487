CONSTANTS
  Uri = {u1, u2}
  Version = {1, 2}
  Text <- MCText
  Id = {i1, i2, i3}
  Feature = {"hover"}
  NeedsDocument = {"hover"}
  Analysis <- MCAnalysis
  NoProblems = NoProblems
  Raised = Raised
  None = None
  MAX_CANCELLED_REQUEST_IDS = 2
  MaxCancels = 1
SPECIFICATION Spec
CHECK_DEADLOCK FALSE
INVARIANTS
  DiagnosticsCurrent
  CancelledOnce
  NewestCancelHeld
SYMMETRY MCSymmetry
PROPERTIES
  VersionsAscend
  ServedInSession
