\* Chunks are discarded while their messages wait.
CONSTANTS
  p1 = p1
  p2 = p2
  Paths <- MCPaths2
  Refs <- MCRefs
  CallFaults = FALSE
  MaxUpserts = 2
  MaxRestarts = 0
SPECIFICATION ReindexingSpec
PROPERTIES
  NeverSpins
CHECK_DEADLOCK FALSE
