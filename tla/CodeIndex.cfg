SPECIFICATION Spec
CONSTANTS
  Files = {f, g}
  Indexers = {i, j}
  Searches = {s}
  None = None
  Id <- MCId
  MaxElements = 2
  MaxChunks = 2
  MaxVersion = 1
  MaxCalls = 2
SYMMETRY Swaps
INVARIANTS Aligned SearchExact OneVersion
CHECK_DEADLOCK FALSE
