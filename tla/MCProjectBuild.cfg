SPECIFICATION Spec
CONSTANTS
  None = None
  MaxLines = 4
  Projects <- MCProjects
  Entries <- MCEntries
INVARIANTS
  ReferencesResolve
  ReferencesGoBack
  BuiltIffValid
