CONSTANTS
  TypeVariable = {"f.T", "f.N", "g.T", "g.N", "identity.T", "choose.T", "first.T", "first.U", "second.T", "second.U",
    "collection_single.T", "collection_pair.T", "collection_repeat.T", "collection_append.T", "collection_prepend.T",
    "collection_contains.T", "collection_count.T", "collection_get_or.T", "collection_first_or.T", "collection_last_or.T"}
  MaxText = 4
  MaxParsed = 3
  MaxCollection = 3
  NumericVariable = {"f.N", "g.N"}
  MaxConditionalDepth = 1
  MaxFunctionCallDepth = 2
  Suite <- Suites
SPECIFICATION Spec
CHECK_DEADLOCK FALSE
INVARIANT
  AcceptedStarts
