-------------------------- MODULE IndexWorkerProofs --------------------------
(***************************************************************************)
(* Theorems about IndexWorker, for every set of paths, every reference      *)
(* relation and every bound.                                                *)
(***************************************************************************)
EXTENDS IndexWorker, TLAPS

USE DEF Versions

(* The operators of Storage keep the tables' types.                        *)

\* A run of deletions, with its cascade, leaves well-typed tables.
LEMMA DeleteFilesType ==
  ASSUME StorageTypeOK, NEW S \in SUBSET Paths, DeleteFiles(S)
  PROVE  /\ file' \in [Paths -> Versions]
         /\ symbol' \subseteq Paths
         /\ callEdge' \in [Paths \X Paths -> Nat]
         /\ importEdge' \in [Paths \X Paths -> Nat]
         /\ DOMAIN chunk' \subseteq ChunkIds
         /\ chunk' \in [DOMAIN chunk' -> ChunkRow]
<1>1. DOMAIN chunk' = {c \in DOMAIN chunk : c[1] \notin S}
  BY DEF DeleteFiles, Restrict
<1>2. chunk' \in [DOMAIN chunk' -> ChunkRow]
  BY <1>1 DEF DeleteFiles, Restrict, StorageTypeOK
<1>3. QED
  BY <1>1, <1>2 DEF DeleteFiles, StorageTypeOK

\* New chunk rows are well typed.
LEMMA InsertChunksType ==
  ASSUME StorageTypeOK, NEW S \in SUBSET ChunkIds, InsertChunks(S)
  PROVE  /\ DOMAIN chunk' \subseteq ChunkIds
         /\ chunk' \in [DOMAIN chunk' -> ChunkRow]
<1>1. NewChunkRow \in ChunkRow
  BY DEF NewChunkRow, ChunkRow
<1>2. QED
  BY <1>1 DEF InsertChunks, StorageTypeOK

\* The ids read from chunk rows are ids of vectors.
LEMMA EmbeddingIdsType ==
  ASSUME StorageTypeOK, NEW S
  PROVE  EmbeddingIdsOf(S) \subseteq VectorIds
BY DEF EmbeddingIdsOf, StorageTypeOK, ChunkRow, VectorIds

\* Deleting vectors leaves a well-typed index.
LEMMA DeleteVectorsType ==
  ASSUME StorageTypeOK, NEW B, DeleteVectors(B)
  PROVE  /\ DOMAIN vector' \subseteq VectorIds
         /\ vector' \in [DOMAIN vector' -> ChunkIds]
BY DEF DeleteVectors, Restrict, StorageTypeOK

\* A message added to a queue of messages.
LEMMA AppendType ==
  ASSUME NEW S, NEW q \in Seq(S), NEW c \in S
  PROVE  Append(q, c) \in Seq(S)
OBVIOUS

\* The worker's files to insert are paths.
LEMMA FreshType == Fresh \subseteq Paths
BY DEF Fresh

\* A legacy database's chunks and vectors are well typed.
LEMMA LegacyType ==
  ASSUME LegacyStorage
  PROVE  /\ DOMAIN chunk \subseteq ChunkIds
         /\ chunk \in [DOMAIN chunk -> ChunkRow]
         /\ DOMAIN vector \subseteq VectorIds
         /\ vector \in [DOMAIN vector -> ChunkIds]
<1>1. PICK id \in [Paths -> 1..Cardinality(Paths)] :
        /\ chunk = [c \in {LegacyChunk(p) : p \in Paths} |->
                      [embedding |-> id[c[1]], summary |-> TRUE]]
        /\ vector = [v \in Range(id) |->
                       LegacyChunk(CHOOSE p \in Paths : id[p] = v)]
  BY DEF LegacyStorage, Bijection, Injection
<1>2. \A p \in Paths : id[p] \in Nat \ {0}
  OBVIOUS
<1>3. \A p \in Paths : LegacyChunk(p) \in ChunkIds /\ LegacyChunk(p)[1] = p
  BY DEF LegacyChunk, ChunkIds
<1>4. \A v \in Range(id) : v \in VectorIds /\ \E p \in Paths : id[p] = v
  BY <1>2 DEF Range, VectorIds
<1>5. DOMAIN chunk \subseteq ChunkIds /\ DOMAIN vector \subseteq VectorIds
  BY <1>1, <1>3, <1>4
<1>6. chunk \in [DOMAIN chunk -> ChunkRow]
  BY <1>1, <1>2, <1>3 DEF ChunkRow
<1>7. \A v \in Range(id) : (CHOOSE p \in Paths : id[p] = v) \in Paths
  BY <1>4
<1>8. vector \in [DOMAIN vector -> ChunkIds]
  BY <1>1, <1>3, <1>7
<1>9. QED
  BY <1>5, <1>6, <1>8

-----------------------------------------------------------------------------
\* Both databases the worker may start from are well typed.
LEMMA InitType == Init => TypeOK
<1> SUFFICES ASSUME Init PROVE TypeOK
  OBVIOUS
<1>1. IndexTypeOK
  <2>1. events = <<>> /\ events \in Seq(Events) /\ Len(events) = 0
    BY DEF Init, IndexInit
  <2>2. settled \in 0..Len(events) /\ dead \subseteq 1..settled
    BY <2>1 DEF Init, IndexInit
  <2>3. baseline \in BOOLEAN
    BY DEF Init
  <2>4. QED
    BY <2>1, <2>2, <2>3 DEF Init, IndexInit, IndexTypeOK, Working, Steps
<1>2. StorageTypeOK
  <2>1. embeddingQueue = <<>> /\ summaryQueue = <<>>
    BY DEF Init, EmptyStorage, LegacyStorage
  <2>3. CASE EmptyStorage
    <3>1. /\ DOMAIN chunk \subseteq ChunkIds
          /\ chunk \in [DOMAIN chunk -> ChunkRow]
          /\ DOMAIN vector \subseteq VectorIds
          /\ vector \in [DOMAIN vector -> ChunkIds]
      BY <2>3 DEF EmptyStorage, NoRows
    <3>2. callEdge \in [Paths \X Paths -> Nat] /\ importEdge \in [Paths \X Paths -> Nat]
      BY <2>3 DEF EmptyStorage, NoEdges
    <3>3. repository \in BOOLEAN /\ absPaths \in BOOLEAN
      BY <2>3 DEF EmptyStorage
    <3>4. file \in [Paths -> Versions] /\ symbol \subseteq Paths
      BY <2>3 DEF EmptyStorage
    <3>5. embeddingQueue \in Seq(ChunkIds) /\ summaryQueue \in Seq(ChunkIds)
      BY <2>1
    <3>6. QED
      BY <3>1, <3>2, <3>3, <3>4, <3>5 DEF StorageTypeOK
  <2>4. CASE LegacyStorage
    <3>1. repository \in BOOLEAN /\ absPaths \in BOOLEAN
      BY <2>4 DEF LegacyStorage
    <3>2. file \in [Paths -> Versions] /\ symbol \subseteq Paths
      BY <2>4 DEF LegacyStorage
    <3>3. /\ callEdge \in [Paths \X Paths -> Nat]
          /\ importEdge \in [Paths \X Paths -> Nat]
      BY <2>4 DEF LegacyStorage
    <3>4. embeddingQueue \in Seq(ChunkIds) /\ summaryQueue \in Seq(ChunkIds)
      BY <2>1
    <3>5. QED
      BY <2>4, <3>1, <3>2, <3>3, <3>4, LegacyType DEF StorageTypeOK
  <2>5. QED
    BY <2>3, <2>4 DEF Init
<1>3. QED
  BY <1>1, <1>2 DEF TypeOK

\* Events stay events when one more is published.
LEMMA PublishType ==
  ASSUME IndexTypeOK, NEW e \in Events, events' = Append(events, e)
  PROVE  /\ events' \in Seq(Events)
         /\ Len(events') = Len(events) + 1
         /\ settled \in 0..Len(events')
         /\ \A i \in DOMAIN events : events'[i] = events[i]
         /\ events'[Len(events) + 1] = e
         /\ DOMAIN events \subseteq DOMAIN events'
BY DEF IndexTypeOK

\* Statements that leave the tables alone leave them well typed.
LEMMA SameStorageType ==
  ASSUME StorageTypeOK, UNCHANGED storageVars
  PROVE  StorageTypeOK'
BY DEF storageVars, StorageTypeOK

\* Between two events the locals have their types.
LEMMA RestType ==
  ASSUME Rest
  PROVE  /\ pc' = "idle" /\ clone' \in [Paths -> Versions] /\ full' \in BOOLEAN
         /\ todo' \subseteq Paths /\ scope' \subseteq Paths
         /\ doomed' \subseteq VectorIds
BY DEF Rest

\* Moving the cursor over the event just handled.
LEMMA SettleType ==
  ASSUME IndexTypeOK, settled < Len(events), settled' = settled + 1,
         events' = events, dead' \in {dead, dead \cup {settled + 1}}
  PROVE  settled' \in 0..Len(events') /\ dead' \subseteq 1..settled'
<1>1. settled \in Nat /\ Len(events) \in Nat
  BY DEF IndexTypeOK
<1>2. dead \subseteq 1..settled'
  BY <1>1 DEF IndexTypeOK
<1>3. QED
  BY <1>1, <1>2

\* Every step keeps the types.
LEMMA NextType == TypeOK /\ [Next]_vars => TypeOK'
<1> SUFFICES ASSUME TypeOK, [Next]_vars PROVE TypeOK'
  OBVIOUS
<1> USE DEF TypeOK
<1>1. ASSUME NEW C \in SUBSET Paths, NEW R \in SUBSET Paths, Push(C, R)
      PROVE  TypeOK'
  <2>1. PushEvent(C, R) \in Events
    BY DEF Events
  <2>2. StorageTypeOK'
    BY <1>1, SameStorageType DEF Push
  <2>3. head' \in [Paths -> Versions]
    BY <1>1 DEF Push, IndexTypeOK
  <2>4. events' \in Seq(Events) /\ Len(events') = Len(events) + 1
        /\ settled \in 0..Len(events')
    BY <1>1, <2>1, PublishType DEF Push
  <2>5. QED
    BY <1>1, <2>2, <2>3, <2>4 DEF Push, IndexTypeOK, workVars, Working
<1>2. CASE RequestFullIndex
  <2>1. FullIndexEvent \in Events
    BY DEF Events
  <2>2. StorageTypeOK'
    BY <1>2, SameStorageType DEF RequestFullIndex
  <2>3. events' \in Seq(Events) /\ Len(events') = Len(events) + 1
        /\ settled \in 0..Len(events')
    BY <1>2, <2>1, PublishType DEF RequestFullIndex
  <2>4. QED
    BY <1>2, <2>2, <2>3 DEF RequestFullIndex, IndexTypeOK, workVars, Working
<1>3. CASE Clone
  <2>1. StorageTypeOK'
    BY <1>3, SameStorageType DEF Clone
  <2>2. QED
    BY <1>3, <2>1 DEF Clone, IndexTypeOK, queueVars, Working, Steps
<1>4. CASE Reject
  <2>1. StorageTypeOK'
    BY <1>4, SameStorageType DEF Reject
  <2>2. settled' \in 0..Len(events') /\ dead' \subseteq 1..settled'
    BY <1>4, SettleType DEF Reject, queueVars
  <2>3. QED
    BY <1>4, <2>1, <2>2 DEF Reject, IndexTypeOK, queueVars, workVars, Working
<1>5. CASE Ack
  <2>1. StorageTypeOK'
    BY <1>5, SameStorageType DEF Ack
  <2>2. settled' \in 0..Len(events') /\ dead' \subseteq 1..settled'
    BY <1>5, SettleType DEF Ack, queueVars, IndexTypeOK, Working
  <2>3. QED
    BY <1>5, <2>1, <2>2, RestType
    DEF Ack, IndexTypeOK, queueVars, Working, Steps
<1>6. CASE Fail
  <2>1. StorageTypeOK'
    BY <1>6, SameStorageType DEF Fail
  <2>2. settled' \in 0..Len(events') /\ dead' \subseteq 1..settled'
    BY <1>6, SettleType DEF Fail, queueVars, IndexTypeOK, Working
  <2>3. QED
    BY <1>6, <2>1, <2>2, RestType
    DEF Fail, IndexTypeOK, queueVars, Working, Steps
<1>7. CASE Crash
  <2>1. StorageTypeOK'
    BY <1>7, SameStorageType DEF Crash
  <2>2. QED
    BY <1>7, <2>1, RestType
    DEF Crash, CrashIndexing, IndexTypeOK, queueVars, Working, Steps
<1>8. CASE UpsertRepository
  <2>1. StorageTypeOK'
    BY <1>8 DEF UpsertRepository, UpsertRepositoryRow, StorageTypeOK
  <2>2. QED
    BY <1>8, <2>1
    DEF UpsertRepository, UpsertRepositoryRow, IndexTypeOK, queueVars,
        Working, Steps
<1>9. CASE ListFiles
  <2>1. StorageTypeOK'
    BY <1>9, SameStorageType DEF ListFiles
  <2>2. Indexed \subseteq Paths
    BY DEF Indexed
  <2>3. QED
    BY <1>9, <2>1, <2>2
    DEF ListFiles, IndexTypeOK, queueVars, Working, Steps
<1>10. CASE ReadEmbeddingIds
  <2>1. StorageTypeOK'
    BY <1>10, SameStorageType DEF ReadEmbeddingIds
  <2>2. scope' \subseteq Paths
    BY <1>10 DEF ReadEmbeddingIds, IndexTypeOK
  <2>3. doomed' \subseteq VectorIds
    BY <1>10, EmbeddingIdsType DEF ReadEmbeddingIds
  <2>4. QED
    BY <1>10, <2>1, <2>2, <2>3
    DEF ReadEmbeddingIds, IndexTypeOK, queueVars, Working, Steps
<1>11. CASE DeleteVectorBatch
  <2>1. StorageTypeOK'
    BY <1>11, DeleteVectorsType DEF DeleteVectorBatch, StorageTypeOK, graphVars
  <2>2. QED
    BY <1>11, <2>1 DEF DeleteVectorBatch, IndexTypeOK, queueVars, Working
<1>12. CASE DeleteFileRows
  <2>1. scope \in SUBSET Paths
    BY DEF IndexTypeOK
  <2>2. StorageTypeOK'
    <3>1. absPaths' \in BOOLEAN
      BY <1>12 DEF DeleteFileRows
    <3>2. QED
      BY <1>12, <2>1, <3>1, DeleteFilesType DEF DeleteFileRows, StorageTypeOK
  <2>3. baseline' \in BOOLEAN
    BY <1>12 DEF DeleteFileRows
  <2>4. QED
    BY <1>12, <2>2, <2>3
    DEF DeleteFileRows, IndexTypeOK, queueVars, Working, Steps
<1>13. CASE LoadPackages
  <2>1. StorageTypeOK'
    BY <1>13, SameStorageType DEF LoadPackages
  <2>2. QED
    BY <1>13, <2>1, FreshType
    DEF LoadPackages, IndexTypeOK, queueVars, Working, Steps
<1>14. CASE InsertFile
  <2>1. file' \in [Paths -> Versions]
    BY <1>14 DEF InsertFile, InsertFileRow, StorageTypeOK, IndexTypeOK
  <2>2. StorageTypeOK'
    BY <1>14, <2>1 DEF InsertFile, InsertFileRow, StorageTypeOK
  <2>3. QED
    BY <1>14, <2>2
    DEF InsertFile, InsertFileRow, IndexTypeOK, queueVars, Working
<1>15. CASE ExtractSymbols
  <2>1. StorageTypeOK'
    BY <1>15, FreshType DEF ExtractSymbols, InsertSymbols, StorageTypeOK
  <2>2. QED
    BY <1>15, <2>1
    DEF ExtractSymbols, InsertSymbols, IndexTypeOK, queueVars, workVars,
        Working, Steps
<1>16. CASE BuildCallEdges
  <2>1. callEdge' \in [Paths \X Paths -> Nat]
    BY <1>16 DEF BuildCallEdges, InsertCallEdges, WithEdges, StorageTypeOK
  <2>2. StorageTypeOK'
    BY <1>16, <2>1 DEF BuildCallEdges, InsertCallEdges, WithEdges, StorageTypeOK
  <2>3. QED
    BY <1>16, <2>2
    DEF BuildCallEdges, InsertCallEdges, WithEdges, IndexTypeOK, queueVars,
        workVars, Working, Steps
<1>17. CASE BuildImportEdges
  <2>1. importEdge' \in [Paths \X Paths -> Nat]
    BY <1>17 DEF BuildImportEdges, InsertImportEdges, WithEdges, StorageTypeOK
  <2>2. StorageTypeOK'
    BY <1>17, <2>1
    DEF BuildImportEdges, InsertImportEdges, WithEdges, StorageTypeOK
  <2>3. QED
    BY <1>17, <2>2, FreshType
    DEF BuildImportEdges, InsertImportEdges, WithEdges, IndexTypeOK,
        queueVars, Working, Steps
<1>18. CASE InsertChunk
  <2>1. PICK p \in todo : /\ InsertChunks({<<p, Attempt>>})
                          /\ scope' = {p}
                          /\ todo' = todo \ {p}
    BY <1>18 DEF InsertChunk
  <2>2. <<p, Attempt>> \in ChunkIds
    BY DEF IndexTypeOK, Attempt, ChunkIds
  <2>3. StorageTypeOK'
    BY <1>18, <2>1, <2>2, InsertChunksType
    DEF InsertChunk, StorageTypeOK, graphVars
  <2>4. QED
    BY <1>18, <2>1, <2>3 DEF InsertChunk, IndexTypeOK, queueVars, Working, Steps
<1>19. CASE PublishChunk
  <2>1. PICK p \in scope : PublishEmbedding(<<p, Attempt>>)
    BY <1>19 DEF PublishChunk
  <2>2. <<p, Attempt>> \in ChunkIds
    BY DEF IndexTypeOK, Attempt, ChunkIds
  <2>3. embeddingQueue' \in Seq(ChunkIds) /\ summaryQueue' \in Seq(ChunkIds)
    BY <2>1, <2>2, AppendType DEF PublishEmbedding, StorageTypeOK
  <2>4. StorageTypeOK'
    BY <1>19, <2>3 DEF PublishChunk, StorageTypeOK, graphVars
  <2>5. QED
    BY <1>19, <2>4 DEF PublishChunk, IndexTypeOK, queueVars, Working, Steps
<1>20. CASE UNCHANGED vars
  <2>1. StorageTypeOK'
    BY <1>20, SameStorageType DEF vars
  <2>2. QED
    BY <1>20, <2>1 DEF vars, indexVars, IndexTypeOK, Working
<1>21. QED
  BY <1>1, <1>2, <1>3, <1>4, <1>5, <1>6, <1>7, <1>8, <1>9, <1>10, <1>11,
     <1>12, <1>13, <1>14, <1>15, <1>16, <1>17, <1>18, <1>19, <1>20
  DEF Next, Requests, Worker, Pipeline

\* The tables and the worker's state always have their types.
THEOREM TypeCorrect == Spec => []TypeOK
BY InitType, NextType, PTL DEF Spec

-----------------------------------------------------------------------------
\* A database without vectors, or one whose vectors were all written for the
\* chunks it holds.
LEMMA InitVectors == Init => VectorsInv
<1> SUFFICES ASSUME Init PROVE VectorsInv
  OBVIOUS
<1>1. VectorsOwned
  <2>1. CASE EmptyStorage
    BY <2>1 DEF EmptyStorage, NoRows, VectorsOwned
  <2>2. CASE LegacyStorage
    <3>1. PICK id \in [Paths -> 1..Cardinality(Paths)] :
            /\ chunk = [c \in {LegacyChunk(p) : p \in Paths} |->
                          [embedding |-> id[c[1]], summary |-> TRUE]]
            /\ DOMAIN vector = Range(id)
      BY <2>2 DEF LegacyStorage, Bijection, Injection
    <3>2. ASSUME NEW v \in Range(id)
          PROVE  \E c \in DOMAIN chunk : chunk[c].embedding = v
      <4>1. PICK p \in Paths : id[p] = v
        BY DEF Range
      <4>2. LegacyChunk(p) \in DOMAIN chunk /\ LegacyChunk(p)[1] = p
        BY <3>1 DEF LegacyChunk
      <4>3. QED
        BY <3>1, <4>1, <4>2
    <3>3. QED
      BY <3>1, <3>2 DEF VectorsOwned
  <2>3. QED
    BY <2>1, <2>2 DEF Init
<1>2. QED
  BY <1>1 DEF VectorsInv, Init, IndexInit

\* A step that leaves the chunks and the vectors alone, and does not start to
\* delete any.
LEMMA VectorsKept ==
  ASSUME VectorsInv, UNCHANGED <<chunk, vector>>,
         pc' = "vectors" => UNCHANGED <<pc, scope, doomed>>
  PROVE  VectorsInv'
BY DEF VectorsInv, VectorsOwned

\* Every step of the worker, the environment and a crash keeps the vectors
\* owned.
LEMMA NextVectors == TypeOK /\ VectorsInv /\ [Next]_vars => VectorsInv'
<1> SUFFICES ASSUME TypeOK, VectorsInv, [Next]_vars PROVE VectorsInv'
  OBVIOUS
<1> USE DEF storageVars, graphVars, queueVars, workVars
<1>1. CASE Requests
  BY <1>1, VectorsKept DEF Requests, RequestFullIndex, Push
<1>2. CASE Clone \/ Ack \/ Fail \/ Reject \/ Crash
  BY <1>2, VectorsKept DEF Clone, Ack, Fail, Reject, Crash, CrashIndexing, Rest
<1>3. CASE UpsertRepository \/ ListFiles \/ LoadPackages
  BY <1>3, VectorsKept DEF UpsertRepository, ListFiles, LoadPackages
<1>4. CASE ReadEmbeddingIds
  <2>1. UNCHANGED <<chunk, vector>> /\ doomed' = EmbeddingIdsOf(scope')
    BY <1>4 DEF ReadEmbeddingIds
  <2>2. 0 \notin DOMAIN vector
    BY DEF TypeOK, StorageTypeOK, VectorIds
  <2>3. QED
    BY <2>1, <2>2 DEF VectorsInv, VectorsOwned, EmbeddingIdsOf
<1>5. CASE DeleteVectorBatch
  <2>1. PICK B \in Batches : DeleteVectors(B) /\ doomed' = doomed \ B
    BY <1>5 DEF DeleteVectorBatch
  <2>2. UNCHANGED <<chunk, pc, scope>> /\ pc = "vectors"
    BY <1>5 DEF DeleteVectorBatch
  <2>3. DOMAIN vector' = DOMAIN vector \ B
    BY <2>1 DEF DeleteVectors, Restrict
  <2>4. QED
    BY <2>1, <2>2, <2>3 DEF VectorsInv, VectorsOwned
<1>6. CASE DeleteFileRows
  <2>1. DeleteFiles(scope) /\ vector' = vector /\ doomed = {} /\ pc = "vectors"
    BY <1>6 DEF DeleteFileRows
  <2>2. /\ DOMAIN chunk' = {c \in DOMAIN chunk : c[1] \notin scope}
        /\ \A c \in DOMAIN chunk' : chunk'[c] = chunk[c]
    BY <2>1 DEF DeleteFiles, Restrict
  <2>3. VectorsOwned'
    BY <2>1, <2>2 DEF VectorsInv, VectorsOwned
  <2>4. pc' # "vectors"
    BY <1>6 DEF DeleteFileRows
  <2>5. QED
    BY <2>3, <2>4 DEF VectorsInv
<1>7. CASE InsertFile \/ ExtractSymbols \/ BuildCallEdges \/ BuildImportEdges
  BY <1>7, VectorsKept
  DEF InsertFile, ExtractSymbols, BuildCallEdges, BuildImportEdges
<1>8. CASE InsertChunk
  <2>1. PICK p \in todo : InsertChunks({<<p, Attempt>>})
    BY <1>8 DEF InsertChunk
  <2>2. /\ DOMAIN chunk \subseteq DOMAIN chunk'
        /\ \A c \in DOMAIN chunk : chunk'[c] = chunk[c]
    BY <2>1 DEF InsertChunks
  <2>3. vector' = vector /\ pc' # "vectors"
    BY <1>8 DEF InsertChunk
  <2>4. QED
    BY <2>2, <2>3 DEF VectorsInv, VectorsOwned
<1>9. CASE PublishChunk
  BY <1>9, VectorsKept DEF PublishChunk
<1>10. CASE UNCHANGED vars
  BY <1>10, VectorsKept DEF vars, indexVars
<1>11. QED
  BY <1>1, <1>2, <1>3, <1>4, <1>5, <1>6, <1>7, <1>8, <1>9, <1>10
  DEF Next, Worker, Pipeline

\* Whatever fails and whenever the process dies, the indexer leaves no vector
\* behind that no chunk row leads to: deleteVectorsForChunks comes first.
THEOREM VectorsOwnedHolds == Spec => []VectorsOwned
<1>1. VectorsInv => VectorsOwned
  BY DEF VectorsInv
<1>2. QED
  BY <1>1, InitVectors, NextVectors, TypeCorrect, PTL DEF Spec
=============================================================================
