\* The first index dies half way and is delivered again.
CONSTANTS
  p1 = p1
  p2 = p2
  p3 = p3
  Paths <- MCPaths
  Refs <- MCRefs
  DeleteBatch = 1
  Faults = FALSE
  Legacy = FALSE
  MaxEvents = 1
  MaxCrashes = 1
SPECIFICATION Spec
INVARIANTS
  IncrementalHasBaseline
CHECK_DEADLOCK FALSE
