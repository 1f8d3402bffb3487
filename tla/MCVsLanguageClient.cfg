CONSTANTS
  Restarter = {r1, r2}
  MaxProcess = 2
  None = None
  Load = Load
SPECIFICATION FairSpec
CHECK_DEADLOCK FALSE
INVARIANTS
  ReadyIsTrue
PROPERTIES
  NeverDropped
  RestartsEnd
