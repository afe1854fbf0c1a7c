\* An index request arrives while a chunk is being embedded; nothing fails.
CONSTANTS
  p1 = p1
  p2 = p2
  Paths <- MCPaths1
  Refs <- MCRefs
  DeleteBatch = 1
  Faults = FALSE
  Legacy = FALSE
  MaxEvents = 2
  MaxCrashes = 0
  CallFaults = FALSE
  MaxUpserts = 2
  MaxRestarts = 0
SPECIFICATION SynthySpec
INVARIANTS
  NoOrphanVector
CHECK_DEADLOCK FALSE
