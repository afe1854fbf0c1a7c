\* Two chunks, failing calls and a crash, under fairness.
CONSTANTS
  p1 = p1
  p2 = p2
  Paths <- MCPaths2
  Refs <- MCRefs
  CallFaults = TRUE
  MaxUpserts = 3
  MaxRestarts = 1
SPECIFICATION FairSpec
INVARIANTS
  TypeOK
  LeaksBounded
PROPERTIES
  EveryChunkServed
CHECK_DEADLOCK FALSE
