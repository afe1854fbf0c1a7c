\* Faults and crashes, from an empty database.
CONSTANTS
  p1 = p1
  p2 = p2
  p3 = p3
  Paths <- MCPaths
  Refs <- MCRefs
  DeleteBatch = 1
  Faults = TRUE
  Legacy = FALSE
  MaxEvents = 3
  MaxCrashes = 1
SPECIFICATION Spec
SYMMETRY Symmetry
INVARIANTS
  Freshness
  GraphFollowsFiles
  NoPathConflict
  OneGeneration
  EdgesComplete
CHECK_DEADLOCK FALSE
