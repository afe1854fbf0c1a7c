\* One file, two events, failing calls, panics and a crash.
CONSTANTS
  p1 = p1
  p2 = p2
  Paths <- MCPaths1
  Refs <- MCRefs
  DeleteBatch = 1
  Faults = TRUE
  Legacy = FALSE
  MaxEvents = 2
  MaxCrashes = 1
  CallFaults = TRUE
  MaxUpserts = 3
  MaxRestarts = 1
SPECIFICATION SynthySpec
INVARIANTS
  SynthyTypeOK
  NoForgottenChunk
  NoDanglingEmbedding
CHECK_DEADLOCK FALSE
