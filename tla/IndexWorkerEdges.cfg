\* One full index, then a push.
CONSTANTS
  p1 = p1
  p2 = p2
  p3 = p3
  Paths <- MCPaths3
  Refs <- MCRefs
  DeleteBatch = 1
  Faults = FALSE
  Legacy = FALSE
  MaxEvents = 2
  MaxCrashes = 0
SPECIFICATION Spec
INVARIANTS
  EdgesRebuilt
CHECK_DEADLOCK FALSE
