\* Queries beside two chunks that are written, published, embedded, summarized
\* and discarded call by call, with failing calls; the process dies of panics,
\* as often as they come.
CONSTANTS
  p1 = p1
  p2 = p2
  Paths <- MCPaths2
  Refs <- MCRefs
  CallFaults = TRUE
  MaxUpserts = 4
  MaxRestarts = 0
  TopKs <- MCTopKs
  DefaultTopK = 7
SPECIFICATION RetrievalSpec
SYMMETRY Symmetry
INVARIANTS
  RetrievalTypeOK
  NoLostWork
  NoSilentDangling
  EmbeddingIsOwn
PROPERTIES
  ColumnsKept
  MatchedIsAnswered
CHECK_DEADLOCK FALSE
