CONSTANTS
  Documents <- Texts
  NewNames = {"x", "n", "and"}
  MaxChanges = 2
SPECIFICATION Spec
INVARIANTS
  RenameIsSafe
