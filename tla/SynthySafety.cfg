\* Two files, two events, panics in the middle of an event.
CONSTANTS
  p1 = p1
  p2 = p2
  Paths <- MCPaths2
  Refs <- MCRefs
  DeleteBatch = 1
  Faults = FALSE
  Legacy = FALSE
  MaxEvents = 2
  MaxCrashes = 1
  CallFaults = FALSE
  MaxUpserts = 4
  MaxRestarts = 0
SPECIFICATION SynthySpec
SYMMETRY Symmetry
INVARIANTS
  NoForgottenChunk
PROPERTIES
  OthersSpared
CHECK_DEADLOCK FALSE
