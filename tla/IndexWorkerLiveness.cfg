\* A legacy or an empty database, no faults but a crash: every event settles,
\* the index converges, no vector is orphaned.
CONSTANTS
  p1 = p1
  p2 = p2
  p3 = p3
  Paths <- MCPaths
  Refs <- MCRefs
  DeleteBatch = 1
  Faults = FALSE
  Legacy = TRUE
  MaxEvents = 2
  MaxCrashes = 1
SPECIFICATION FairSpec
INVARIANTS
  TypeOK
  VectorsOwned
PROPERTIES
  EventsSettle
  Converges
  KeepsContract
CHECK_DEADLOCK FALSE
