CONSTANTS
  d1 = d1
  d2 = d2
  d3 = d3
  d4 = d4
  p1 = p1
  c1 = c1
  c2 = c2
  r = r
  e = e
  Directive = {d1, d2, d3, d4}
  Principal = {p1}
  Capability = {c1, c2}
  Resource = {r}
  AnyName = AnyName
  NoResource = NoResource
  StateKey = {"x", "f"}
  KeyType <- MCKeyType
  Expr <- MCExpr
  Eval <- MCEval
  Fault = Fault
  Event = {e}
  Effect = {e}
  PathId = {1, 2}
  Action <- MCAction
  Reference <- MCReference
  Resolve <- MCResolve
  Undefined = Undefined
  None = None
  Programs <- MCPrograms
  GrantSets <- MCGrantSets
  Entries <- MCEntries
  MAX_INVOCATION_DEPTH = 3
  MAX_CONDITIONAL_DEPTH = 2
SPECIFICATION FairSpec
CHECK_DEADLOCK FALSE
INVARIANTS
  TypeOK
  EventsNumbered
  OnlyAuthorizedAct
  InvocationsBounded
  FailureDiagnosed
  EachRootOnce
PROPERTIES
  OneCausePerAbort
  AtomicRoots
  Termination
