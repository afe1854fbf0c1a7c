----------------------------- MODULE SynthyProofs -----------------------------
(***************************************************************************)
(* Theorems about the whole process: three loops over the same tables, for  *)
(* any number of files, events, vectors, failures and crashes.              *)
(***************************************************************************)
EXTENDS Synthy, GraphProofs, ConsumerProofs

-----------------------------------------------------------------------------
(* The invariant.                                                          *)

\* No id stands in two rows, the next one is new, and a vector a row names was
\* made from that row.
VectorsTraced ==
  /\ DOMAIN vector \subseteq 1..upserts
  /\ doomed \subseteq 1..upserts
  /\ \A c \in DOMAIN chunk : chunk[c].embedding <= upserts
  /\ \A c, d \in DOMAIN chunk :
       chunk[c].embedding = chunk[d].embedding /\ chunk[c].embedding # 0
         => c = d
  /\ \A c \in DOMAIN chunk :
       chunk[c].embedding \in DOMAIN vector => vector[chunk[c].embedding] = c

\* What the worker is about to delete belongs to the files it is discarding.
DoomedInScope ==
  pc = "vectors" =>
    /\ \A c \in DOMAIN chunk : chunk[c].embedding \in doomed => c[1] \in scope
    /\ \A v \in doomed \cap DOMAIN vector : vector[v][1] \in scope

\* The vector in the embedding consumer's hands is that of its message, and the
\* worker does not know of it.
VectorInHand ==
  /\ embeddingPc = "update" =>
       /\ vectorId \in DOMAIN vector
       /\ vector[vectorId] = EmbeddingMessage
       /\ pc = "vectors" => vectorId \notin doomed
       /\ \A d \in DOMAIN chunk : chunk[d].embedding # vectorId
  /\ embeddingPc = "rollback" =>
       /\ vectorId # 0
       /\ \A d \in DOMAIN chunk :
            chunk[d].embedding = vectorId => d = EmbeddingMessage

VectorInv == VectorsTraced /\ DoomedInScope /\ VectorInHand

\* The id of a chunk that was written before, or by this run for a file it is
\* done with: none that is still to be inserted.
Drawn(c) ==
  \/ c[2] < Attempt
  \/ /\ c[2] = Attempt
     /\ pc \in {"chunk", "publish", "ack"}
     /\ c[1] \notin todo
     /\ pc = "publish" => c[1] \notin scope

Queued(c) == InQueue(c, embeddingQueue) \/ InQueue(c, summaryQueue)

\* The chunk between its INSERT and its message has no message yet.
Publishing ==
  /\ \A c : Queued(c) => Drawn(c)
  /\ pc = "publish" => \E p \in Paths : scope = {p}
  /\ \A c \in DOMAIN chunk : Unpublished(c) => chunk[c].embedding = 0

\* The chunk has its vector, or its message is not yet settled for good.
EmbeddingKept(c) ==
  \/ chunk[c].embedding \in DOMAIN vector
  \/ c \in embeddingError
  \/ InQueue(c, embeddingQueue) /\ ~ (embeddingPc = "ack" /\ c = EmbeddingMessage)

SummaryKept(c) ==
  \/ chunk[c].summary
  \/ c \in summaryError
  \/ InQueue(c, summaryQueue) /\ ~ (summaryPc = "ack" /\ c = SummaryMessage)

Kept(c) == EmbeddingKept(c) /\ SummaryKept(c)

\* What no consumer will finish, an event will index again...
KeptOrOwed ==
  Requested => \A c \in DOMAIN chunk :
                 Kept(c) \/ Unpublished(c) \/ Covered(c[1])

Rebuilding == {"load", "files"} \cup Inserted

\* ...and that event is not the one whose run is past its deletions.
KeptByRun ==
  pc \in Rebuilding =>
    \A c \in DOMAIN chunk : Handled(c[1]) => Kept(c) \/ Unpublished(c)

ServiceInv == Publishing /\ KeptOrOwed /\ KeptByRun

SynthyInv ==
  /\ TypeOK
  /\ ConsumersTypeOK
  /\ FreshnessInv
  /\ GraphInv
  /\ VectorInv
  /\ ServiceInv

-----------------------------------------------------------------------------
(* The index worker's invariants, in the process.                          *)

\* The steps of the process that are steps of IndexWorker.
LEMMA IndexSteps ==
  IndexStep \/ RequestStep \/ Panic \/ ProcessCrash \/ ProcessRestart
    => [Next]_vars
<1>1. IndexStep \/ RequestStep => Next
  BY DEF IndexStep, RequestStep, Next
<1>2. ASSUME ConsumersDie, IndexingDies PROVE [Next]_vars
  <2>1. UNCHANGED storageVars
    BY <1>2 DEF ConsumersDie
  <2>2. CASE Working
    BY <1>2, <2>1, <2>2 DEF IndexingDies, Crash, Next
  <2>3. CASE ~ Working
    BY <1>2, <2>1, <2>3 DEF IndexingDies, vars
  <2>4. QED
    BY <2>2, <2>3
<1>3. Panic \/ ProcessCrash => [Next]_vars
  BY <1>2 DEF Panic, ProcessCrash, ConsumerPanic, ConsumersCrash
<1>4. ProcessRestart => UNCHANGED vars
  BY DEF ProcessRestart, Restart, vars
<1>5. QED
  BY <1>1, <1>3, <1>4

\* What the consumers leave alone.
LEMMA ConsumersLeave ==
  ASSUME EmbeddingConsumer \/ SummaryConsumer
  PROVE  UNCHANGED graphVars /\ DOMAIN chunk' = DOMAIN chunk
<1>1. CASE EmbeddingConsumer
  BY <1>1 DEF EmbeddingConsumer, GetChunkToEmbed, UpsertEmbeddings,
              UpsertReportsError, UpdateEmbeddingId, UpdateReportsError,
              RollBackVector, AckEmbedding, NackEmbedding, SetEmbedding,
              storageVars, graphVars
<1>2. CASE SummaryConsumer
  BY <1>2 DEF SummaryConsumer, GetChunkToSummarize, UpdateSummary, AckSummary,
              NackSummary, SetSummary, storageVars, graphVars
<1>3. QED
  BY <1>1, <1>2

\* The queues only grow at the indexer's end, so a consumer at work has its
\* message.
LEMMA IndexKeepsConsumers ==
  ASSUME TypeOK, ConsumersTypeOK, IndexStep \/ RequestStep
  PROVE  ConsumersTypeOK'
<1>1. UNCHANGED consumerVars
  BY DEF IndexStep, RequestStep
<1>2. /\ embeddingQueue # <<>> => embeddingQueue' # <<>>
      /\ summaryQueue # <<>> => summaryQueue' # <<>>
  <2>1. CASE PublishChunk
    <3>1. PICK p \in scope : PublishEmbedding(<<p, Attempt>>)
      BY <2>1 DEF PublishChunk
    <3>2. <<p, Attempt>> \in ChunkIds
      BY DEF TypeOK, IndexTypeOK, Attempt, ChunkIds
    <3>3. QED
      BY <3>1, <3>2, InAppended DEF PublishEmbedding, TypeOK, StorageTypeOK
  <2>2. CASE ~ PublishChunk
    BY <2>2 DEF IndexStep, RequestStep, Requests, RequestFullIndex, Push,
                Worker, Reject, Clone, Ack, Fail, Pipeline, UpsertRepository,
                ListFiles, ReadEmbeddingIds, DeleteVectorBatch, DeleteFileRows,
                LoadPackages, InsertFile, ExtractSymbols, BuildCallEdges,
                BuildImportEdges, InsertChunk, storageVars
  <2>3. QED
    BY <2>1, <2>2
<1>3. QED
  BY <1>1, <1>2 DEF ConsumersTypeOK, consumerVars

\* Types and the index worker's invariants survive every step of the process.
LEMMA IndexInvariantsKept ==
  ASSUME TypeOK, ConsumersTypeOK, FreshnessInv, GraphInv,
         [SynthyNext]_synthyVars
  PROVE  TypeOK' /\ ConsumersTypeOK' /\ FreshnessInv' /\ GraphInv'
<1>1. [Next]_vars => TypeOK' /\ FreshnessInv' /\ GraphInv'
  BY NextType, FreshnessNext, GraphNext
<1>2. CASE EmbeddingStep \/ SummaryStep
  <2>1. /\ EmbeddingConsumer \/ SummaryConsumer
        /\ UNCHANGED indexVars
    BY <1>2 DEF EmbeddingStep, SummaryStep
  <2>2. UNCHANGED graphVars /\ DOMAIN chunk' = DOMAIN chunk
    BY <2>1, ConsumersLeave
  <2>3. StorageTypeOK' /\ ConsumersTypeOK'
    BY <2>1, ConsumerSteps DEF TypeOK
  <2>4. IndexTypeOK'
    BY <2>1 DEF TypeOK, IndexTypeOK, indexVars, Working
  <2>5. UNCHANGED <<repository, file, absPaths>>
    BY <2>2 DEF graphVars
  <2>6. QED
    BY <2>1, <2>2, <2>3, <2>4, <2>5, FreshnessKept, GraphKept DEF TypeOK
<1>3. CASE IndexStep \/ RequestStep
  BY <1>1, <1>3, IndexSteps, IndexKeepsConsumers
<1>4. CASE Panic \/ ProcessCrash \/ ProcessRestart
  <2>1. ConsumersTypeOK'
    BY <1>4, ProcessSteps
    DEF Panic, ProcessCrash, ProcessRestart, TypeOK
  <2>2. QED
    BY <1>1, <1>4, <2>1, IndexSteps
<1>5. CASE UNCHANGED synthyVars
  <2>1. UNCHANGED vars /\ UNCHANGED consumerVars
    BY <1>5 DEF synthyVars, vars
  <2>2. ConsumersTypeOK'
    BY <2>1 DEF ConsumersTypeOK, consumerVars, vars, storageVars
  <2>3. QED
    BY <1>1, <2>1, <2>2
<1>6. QED
  BY <1>2, <1>3, <1>4, <1>5 DEF SynthyNext
-----------------------------------------------------------------------------
(* Vectors and the rows that name them.                                    *)

\* The columns are numbers.
LEMMA EmbeddingType ==
  ASSUME TypeOK
  PROVE  \A c \in DOMAIN chunk : chunk[c].embedding \in Nat
BY DEF TypeOK, StorageTypeOK, ChunkRow

\* A step that writes no vector and no embedding_id: it may delete some, and
\* insert rows without one.
LEMMA VectorsOnlyGo ==
  ASSUME TypeOK, ConsumersTypeOK, VectorInv, upserts' = upserts,
         doomed' \subseteq doomed,
         pc' = "vectors" => pc = "vectors" /\ scope' = scope,
         \A c \in DOMAIN chunk' :
           \/ chunk'[c].embedding = 0
           \/ c \in DOMAIN chunk /\ chunk'[c].embedding = chunk[c].embedding,
         DOMAIN vector' \subseteq DOMAIN vector,
         \A v \in DOMAIN vector' : vector'[v] = vector[v],
         \/ embeddingPc' \in {"idle", "embed", "nack"}
         \/ /\ UNCHANGED <<embeddingPc, vectorId>>
            /\ embeddingPc # "idle" => EmbeddingMessage' = EmbeddingMessage
            /\ embeddingPc = "update" => vectorId \in DOMAIN vector'
  PROVE  VectorInv'
<1>1. /\ 0 \notin DOMAIN vector /\ 0 \notin doomed /\ upserts \in Nat
      /\ \A c \in DOMAIN chunk : chunk[c].embedding \in Nat
  <2>1. upserts \in Nat
    BY ConsumersAssumption DEF ConsumersTypeOK
  <2>2. QED
    BY <2>1, EmbeddingType DEF VectorInv, VectorsTraced
<1>2. VectorsTraced'
  <2>1. DOMAIN vector' \subseteq 1..(upserts') /\ doomed' \subseteq 1..(upserts')
    BY DEF VectorInv, VectorsTraced
  <2>2. \A c \in DOMAIN chunk' : chunk'[c].embedding <= upserts'
    BY <1>1 DEF VectorInv, VectorsTraced
  <2>3. \A c, d \in DOMAIN chunk' :
          chunk'[c].embedding = chunk'[d].embedding /\ chunk'[c].embedding # 0
            => c = d
    BY DEF VectorInv, VectorsTraced
  <2>4. \A c \in DOMAIN chunk' :
          chunk'[c].embedding \in DOMAIN vector'
            => vector'[chunk'[c].embedding] = c
    BY <1>1 DEF VectorInv, VectorsTraced
  <2>5. QED
    BY <2>1, <2>2, <2>3, <2>4 DEF VectorsTraced
<1>3. DoomedInScope'
  <2> SUFFICES ASSUME pc' = "vectors" PROVE DoomedInScope'
    BY DEF DoomedInScope
  <2>1. \A c \in DOMAIN chunk' : chunk'[c].embedding \in doomed' => c[1] \in scope'
    BY <1>1 DEF VectorInv, DoomedInScope
  <2>2. \A v \in doomed' \cap DOMAIN vector' : vector'[v][1] \in scope'
    BY DEF VectorInv, DoomedInScope
  <2>3. QED
    BY <2>1, <2>2 DEF DoomedInScope
<1>4. VectorInHand'
  <2>1. CASE embeddingPc' \in {"idle", "embed", "nack"}
    BY <2>1 DEF VectorInHand
  <2>2. CASE /\ UNCHANGED <<embeddingPc, vectorId>>
             /\ embeddingPc # "idle" => EmbeddingMessage' = EmbeddingMessage
             /\ embeddingPc = "update" => vectorId \in DOMAIN vector'
    BY <1>1, <2>2 DEF VectorInv, VectorInHand
  <2>3. QED
    BY <2>1, <2>2
<1>5. QED
  BY <1>2, <1>3, <1>4 DEF VectorInv

\* The worker reads the ids it will delete: those of the rows of scope.
LEMMA VectorsRead ==
  ASSUME TypeOK, ConsumersTypeOK, VectorInv, ReadEmbeddingIds,
         UNCHANGED consumerVars
  PROVE  VectorInv'
<1>1. /\ UNCHANGED <<chunk, vector, embeddingQueue, embeddingPc, vectorId, upserts>>
      /\ doomed' = EmbeddingIdsOf(scope')
      /\ EmbeddingMessage' = EmbeddingMessage
  BY DEF ReadEmbeddingIds, storageVars, consumerVars, EmbeddingMessage
<1>2. /\ \A v \in doomed' : v \in Nat \ {0}
      /\ \A v \in doomed' :
           \E c \in DOMAIN chunk : chunk[c].embedding = v /\ c[1] \in scope'
  BY <1>1, EmbeddingType DEF EmbeddingIdsOf
<1>3. upserts \in Nat
  BY ConsumersAssumption DEF ConsumersTypeOK
<1>4. VectorsTraced'
  <2>1. doomed' \subseteq 1..upserts
    BY <1>2, <1>3 DEF VectorInv, VectorsTraced
  <2>2. QED
    BY <1>1, <2>1 DEF VectorInv, VectorsTraced
<1>5. DoomedInScope'
  <2>1. \A c \in DOMAIN chunk : chunk[c].embedding \in doomed' => c[1] \in scope'
    BY <1>2 DEF VectorInv, VectorsTraced
  <2>2. \A v \in doomed' \cap DOMAIN vector : vector[v][1] \in scope'
    BY <1>2 DEF VectorInv, VectorsTraced
  <2>3. QED
    BY <1>1, <2>1, <2>2 DEF DoomedInScope
<1>6. VectorInHand'
  <2>1. embeddingPc = "update" => vectorId \notin doomed'
    BY <1>2 DEF VectorInv, VectorInHand
  <2>2. QED
    BY <1>1, <2>1 DEF VectorInv, VectorInHand
<1>7. QED
  BY <1>4, <1>5, <1>6 DEF VectorInv

\* A new vector: no row names it, and no deletion that has begun.
LEMMA VectorsUpsert ==
  ASSUME TypeOK, ConsumersTypeOK, VectorInv, UNCHANGED indexVars,
         UpsertEmbeddings \/ UpsertReportsError
  PROVE  VectorInv'
<1> DEFINE new == upserts + 1
<1>1. /\ upserts' = new
      /\ DOMAIN vector' = DOMAIN vector \cup {new}
      /\ \A v \in DOMAIN vector' :
           vector'[v] = IF v = new THEN EmbeddingMessage ELSE vector[v]
      /\ \/ embeddingPc' = "update" /\ vectorId' = new
         \/ embeddingPc' = "nack"
      /\ UNCHANGED <<chunk, embeddingQueue, doomed, scope, pc>>
      /\ EmbeddingMessage' = EmbeddingMessage
  BY DEF UpsertEmbeddings, UpsertReportsError, UpsertVector, indexVars,
         EmbeddingMessage
<1>2. upserts \in Nat
  BY ConsumersAssumption DEF ConsumersTypeOK
<1>3. /\ new \notin DOMAIN vector /\ new \notin doomed
      /\ \A c \in DOMAIN chunk : chunk[c].embedding < new
  BY <1>2, EmbeddingType DEF VectorInv, VectorsTraced
<1>4. VectorsTraced'
  <2>1. DOMAIN vector' \subseteq 1..(upserts') /\ doomed' \subseteq 1..(upserts')
    BY <1>1, <1>2 DEF VectorInv, VectorsTraced
  <2>2. \A c \in DOMAIN chunk :
          chunk[c].embedding # new /\ chunk[c].embedding <= new
    BY <1>2, <1>3, EmbeddingType
  <2> HIDE DEF new
  <2>3. QED
    BY <1>1, <2>1, <2>2 DEF VectorInv, VectorsTraced
<1>5. DoomedInScope'
  BY <1>1, <1>3 DEF VectorInv, DoomedInScope
<1>6. VectorInHand'
  <2>1. \A c \in DOMAIN chunk : chunk[c].embedding # new
    BY <1>2, <1>3, EmbeddingType
  <2> HIDE DEF new
  <2>2. QED
    BY <1>1, <1>3, <2>1 DEF VectorInHand
<1>7. QED
  BY <1>4, <1>5, <1>6 DEF VectorInv

\* The row of the message is told the new vector's id, or the answer is lost.
LEMMA VectorsUpdate ==
  ASSUME TypeOK, ConsumersTypeOK, VectorInv, UNCHANGED indexVars,
         UpdateEmbeddingId \/ UpdateReportsError
  PROVE  VectorInv'
<1>1. /\ embeddingPc = "update" /\ embeddingPc' \in {"ack", "rollback"}
      /\ SetEmbedding(EmbeddingMessage, vectorId) \/ UNCHANGED chunk
      /\ UNCHANGED <<vector, embeddingQueue, vectorId, upserts, doomed, scope, pc>>
      /\ EmbeddingMessage' = EmbeddingMessage
  BY DEF UpdateEmbeddingId, UpdateReportsError, indexVars, EmbeddingMessage
<1>2. /\ vectorId \in DOMAIN vector /\ vectorId \in 1..upserts
      /\ vector[vectorId] = EmbeddingMessage
      /\ pc = "vectors" => vectorId \notin doomed
      /\ \A d \in DOMAIN chunk : chunk[d].embedding # vectorId
      /\ upserts \in Nat
  BY <1>1, ConsumersAssumption
  DEF VectorInv, VectorInHand, VectorsTraced, ConsumersTypeOK
<1>3. /\ DOMAIN chunk' = DOMAIN chunk
      /\ \A d \in DOMAIN chunk :
           \/ chunk'[d].embedding = chunk[d].embedding
           \/ d = EmbeddingMessage /\ chunk'[d].embedding = vectorId
  <2>1. CASE SetEmbedding(EmbeddingMessage, vectorId)
    BY <1>2, <2>1, EmbeddingColumn DEF TypeOK, StorageTypeOK
  <2>2. CASE UNCHANGED chunk
    BY <2>2
  <2>3. QED
    BY <1>1, <2>1, <2>2
<1>4. VectorsTraced'
  BY <1>1, <1>2, <1>3 DEF VectorInv, VectorsTraced
<1>5. DoomedInScope'
  BY <1>1, <1>2, <1>3 DEF VectorInv, DoomedInScope
<1>6. VectorInHand'
  <2>1. vectorId # 0
    BY <1>2
  <2>2. QED
    BY <1>1, <1>2, <1>3, <2>1 DEF VectorInHand
<1>7. QED
  BY <1>4, <1>5, <1>6 DEF VectorInv

\* The worker, in a running process or on its way to a new one.
LEMMA VectorsIndex ==
  ASSUME TypeOK, ConsumersTypeOK, VectorInv, IndexStep \/ RequestStep
  PROVE  VectorInv'
<1>1. UNCHANGED consumerVars
  BY DEF IndexStep, RequestStep
<1>2. CASE ReadEmbeddingIds
  BY <1>1, <1>2, VectorsRead
<1>3. UNCHANGED <<upserts, embeddingPc, vectorId>>
  BY <1>1 DEF consumerVars
<1>4. CASE DeleteVectorBatch
  <2>1. PICK B \in Batches : DeleteVectors(B) /\ doomed' = doomed \ B
    BY <1>4 DEF DeleteVectorBatch
  <2>2. /\ DOMAIN vector' \subseteq DOMAIN vector
        /\ DOMAIN vector \ doomed \subseteq DOMAIN vector'
        /\ \A v \in DOMAIN vector' : vector'[v] = vector[v]
    BY <2>1 DEF DeleteVectors, Restrict, Batches
  <2>3. /\ UNCHANGED <<chunk, scope, pc, embeddingQueue>> /\ pc = "vectors"
        /\ EmbeddingMessage' = EmbeddingMessage
    BY <1>4 DEF DeleteVectorBatch, EmbeddingMessage
  <2>4. embeddingPc = "update" => vectorId \in DOMAIN vector'
    BY <2>2, <2>3 DEF VectorInv, VectorInHand
  <2>5. QED
    BY <1>3, <2>1, <2>2, <2>3, <2>4, VectorsOnlyGo
<1>5. CASE DeleteFileRows
  <2>1. /\ UNCHANGED <<vector, embeddingQueue, doomed>>
        /\ pc' \in {"load", "discard"}
        /\ \A c \in DOMAIN chunk' : c \in DOMAIN chunk /\ chunk'[c] = chunk[c]
        /\ EmbeddingMessage' = EmbeddingMessage
    BY <1>5 DEF DeleteFileRows, DeleteFiles, Restrict, EmbeddingMessage
  <2>2. embeddingPc = "update" => vectorId \in DOMAIN vector'
    BY <2>1 DEF VectorInv, VectorInHand
  <2>3. QED
    BY <1>3, <2>1, <2>2, VectorsOnlyGo
<1>6. CASE InsertChunk
  <2>1. /\ UNCHANGED <<vector, embeddingQueue, doomed>> /\ pc' = "publish"
        /\ \A c \in DOMAIN chunk' :
             chunk'[c] = IF c \in DOMAIN chunk THEN chunk[c] ELSE NewChunkRow
        /\ EmbeddingMessage' = EmbeddingMessage
    BY <1>6 DEF InsertChunk, InsertChunks, EmbeddingMessage
  <2>2. embeddingPc = "update" => vectorId \in DOMAIN vector'
    BY <2>1 DEF VectorInv, VectorInHand
  <2>3. QED
    BY <1>3, <2>1, <2>2, VectorsOnlyGo DEF NewChunkRow
<1>7. ASSUME UNCHANGED <<chunk, vector>>, doomed' \subseteq doomed,
             pc' # "vectors" \/ UNCHANGED <<pc, scope>>,
             embeddingPc # "idle" => EmbeddingMessage' = EmbeddingMessage
      PROVE  VectorInv'
  <2>1. embeddingPc = "update" => vectorId \in DOMAIN vector'
    BY <1>7 DEF VectorInv, VectorInHand
  <2>2. QED
    BY <1>3, <1>7, <2>1, VectorsOnlyGo
<1>8. CASE PublishChunk
  <2>1. PICK p \in scope : PublishEmbedding(<<p, Attempt>>)
    BY <1>8 DEF PublishChunk
  <2>2. <<p, Attempt>> \in ChunkIds
    BY DEF TypeOK, IndexTypeOK, Attempt, ChunkIds
  <2>3. embeddingPc # "idle" => EmbeddingMessage' = EmbeddingMessage
    BY <2>1, <2>2, InAppended DEF PublishEmbedding, TypeOK, StorageTypeOK,
                                  ConsumersTypeOK, EmbeddingMessage
  <2>4. QED
    BY <1>7, <1>8, <2>3 DEF PublishChunk
<1>9. CASE Clone \/ Reject \/ Ack \/ Fail \/ Requests
  BY <1>7, <1>9 DEF Clone, Reject, Ack, Fail, Rest, Requests, RequestFullIndex,
                    Push, storageVars, workVars, EmbeddingMessage
<1>10. CASE \/ UpsertRepository \/ ListFiles \/ LoadPackages \/ InsertFile
            \/ ExtractSymbols \/ BuildCallEdges \/ BuildImportEdges
  BY <1>7, <1>10 DEF UpsertRepository, ListFiles, LoadPackages, InsertFile,
                     ExtractSymbols, BuildCallEdges, BuildImportEdges,
                     storageVars, workVars, EmbeddingMessage
<1>11. QED
  BY <1>2, <1>4, <1>5, <1>6, <1>8, <1>9, <1>10
  DEF IndexStep, RequestStep, Worker, Pipeline

\* The consumers.
LEMMA VectorsConsumers ==
  ASSUME TypeOK, ConsumersTypeOK, VectorInv, EmbeddingStep \/ SummaryStep
  PROVE  VectorInv'
<1>1. UNCHANGED <<pc, scope, doomed>> /\ UNCHANGED indexVars
  BY DEF EmbeddingStep, SummaryStep, indexVars
<1>2. CASE UpsertEmbeddings \/ UpsertReportsError
  BY <1>1, <1>2, VectorsUpsert
<1>3. CASE UpdateEmbeddingId \/ UpdateReportsError
  BY <1>1, <1>3, VectorsUpdate
<1>4. CASE RollBackVector
  <2>1. /\ UNCHANGED <<chunk, upserts>> /\ embeddingPc' = "nack"
        /\ DOMAIN vector' \subseteq DOMAIN vector
        /\ \A v \in DOMAIN vector' : vector'[v] = vector[v]
    BY <1>4 DEF RollBackVector, DeleteVectors, Restrict
  <2>2. QED
    BY <1>1, <2>1, VectorsOnlyGo
<1>5. CASE GetChunkToEmbed \/ AckEmbedding \/ NackEmbedding
  <2>1. UNCHANGED <<chunk, vector, upserts>> /\ embeddingPc' \in {"idle", "embed"}
    BY <1>5 DEF GetChunkToEmbed, AckEmbedding, NackEmbedding, storageVars
  <2>2. QED
    BY <1>1, <2>1, VectorsOnlyGo
<1>6. CASE SummaryConsumer
  <2>1. /\ UNCHANGED <<vector, embeddingQueue, upserts, embeddingPc, vectorId>>
        /\ UNCHANGED chunk \/ SetSummary(SummaryMessage)
        /\ EmbeddingMessage' = EmbeddingMessage
    BY <1>6 DEF SummaryConsumer, GetChunkToSummarize, UpdateSummary, AckSummary,
                NackSummary, storageVars, embeddingVars, EmbeddingMessage
  <2>2. \A c \in DOMAIN chunk' :
          c \in DOMAIN chunk /\ chunk'[c].embedding = chunk[c].embedding
    BY <2>1, SummaryColumn DEF TypeOK, StorageTypeOK
  <2>3. embeddingPc = "update" => vectorId \in DOMAIN vector'
    BY <2>1 DEF VectorInv, VectorInHand
  <2>4. QED
    BY <1>1, <2>1, <2>2, <2>3, VectorsOnlyGo
<1>7. QED
  BY <1>2, <1>3, <1>4, <1>5, <1>6
  DEF EmbeddingStep, EmbeddingConsumer, SummaryStep

\* The end of the process, and its restart.
LEMMA VectorsProcess ==
  ASSUME TypeOK, ConsumersTypeOK, VectorInv, Panic \/ ProcessCrash \/ ProcessRestart
  PROVE  VectorInv'
<1>1. CASE ConsumersDie /\ IndexingDies
  <2>1. /\ UNCHANGED <<chunk, vector, upserts>> /\ embeddingPc' = "idle"
    BY <1>1 DEF ConsumersDie, storageVars
  <2>2. /\ doomed' \subseteq doomed
        /\ pc' = "vectors" => pc = "vectors" /\ scope' = scope
    BY <1>1 DEF IndexingDies, CrashIndexing, Rest, indexVars
  <2>3. QED
    BY <2>1, <2>2, VectorsOnlyGo
<1>2. CASE ProcessRestart
  <2>1. /\ UNCHANGED <<chunk, vector, embeddingQueue, upserts, embeddingPc,
                       vectorId, pc, scope, doomed>>
        /\ EmbeddingMessage' = EmbeddingMessage
    BY <1>2 DEF ProcessRestart, Restart, storageVars, embeddingVars, indexVars,
                EmbeddingMessage
  <2>2. embeddingPc = "update" => vectorId \in DOMAIN vector'
    BY <2>1 DEF VectorInv, VectorInHand
  <2>3. QED
    BY <2>1, <2>2, VectorsOnlyGo
<1>3. QED
  BY <1>1, <1>2 DEF Panic, ProcessCrash, ConsumerPanic, ConsumersCrash
-----------------------------------------------------------------------------
(* Chunks and their messages.                                              *)

\* Messages are ids of chunks, and an attempt is a number.
LEMMA QueuedIds ==
  ASSUME TypeOK
  PROVE  Attempt \in Nat /\ \A c : Queued(c) => c \in ChunkIds
<1>1. Attempt \in Nat
  BY DEF TypeOK, IndexTypeOK, Attempt
<1>2. ASSUME NEW c, Queued(c) PROVE c \in ChunkIds
  BY <1>2 DEF Queued, InQueue, TypeOK, StorageTypeOK
<1>3. QED
  BY <1>1, <1>2

\* The chunk without a message is of the file in hand, and of this run.
LEMMA UnpublishedIsNew ==
  ASSUME TypeOK, Publishing, NEW c, Unpublished(c)
  PROVE  /\ ~ Queued(c)
         /\ scope = {c[1]} /\ c[1] \in Paths /\ c = <<c[1], Attempt>>
<1>1. PICK p \in Paths : scope = {p}
  BY DEF Publishing, Unpublished
<1>2. c = <<p, Attempt>>
  BY <1>1 DEF Unpublished
<1>3. ~ Drawn(c)
  BY <1>1, <1>2, QueuedIds DEF Drawn, Unpublished
<1>4. QED
  BY <1>1, <1>2, <1>3 DEF Publishing

\* A step of a consumer, or of the process: what was kept is kept.
LEMMA ServiceStays ==
  ASSUME TypeOK, ServiceInv, UNCHANGED indexVars, DOMAIN chunk' = DOMAIN chunk,
         \A c : Queued(c)' => Queued(c),
         \A c \in DOMAIN chunk :
           Unpublished(c) => chunk'[c].embedding = chunk[c].embedding,
         \A c \in DOMAIN chunk : Kept(c) => Kept(c)'
  PROVE  ServiceInv'
<1>1. UNCHANGED <<events, settled, dead, crashes, pc, clone, full, todo, scope>>
  BY DEF indexVars
<1>2. /\ Requested' <=> Requested
      /\ \A p : Covered(p)' <=> Covered(p)
      /\ \A p : Handled(p)' <=> Handled(p)
  BY <1>1, RunKeepsEvents, RunKeepsPlan
<1>3. /\ \A c : Drawn(c)' <=> Drawn(c)
      /\ \A c : Unpublished(c)' <=> Unpublished(c)
  BY <1>1 DEF Drawn, Unpublished, Attempt
<1>4. Publishing'
  BY <1>1, <1>3 DEF ServiceInv, Publishing
<1>5. KeptOrOwed'
  BY <1>2, <1>3 DEF ServiceInv, KeptOrOwed
<1>6. KeptByRun'
  BY <1>1, <1>2, <1>3 DEF ServiceInv, KeptByRun
<1>7. QED
  BY <1>4, <1>5, <1>6 DEF ServiceInv

\* A step of the embedding consumer that settles nothing: the vector is made,
\* the row updated, the vector rolled back.
LEMMA ServiceEmbeds ==
  ASSUME TypeOK, ConsumersTypeOK, VectorInv, ServiceInv, UNCHANGED indexVars,
         \/ GetChunkToEmbed \/ UpsertEmbeddings \/ UpsertReportsError
         \/ UpdateEmbeddingId \/ UpdateReportsError \/ RollBackVector
  PROVE  ServiceInv'
<1>1. /\ UNCHANGED <<embeddingQueue, summaryQueue, embeddingError, summaryError,
                     summaryPc>>
      /\ embeddingQueue # <<>>
  BY DEF GetChunkToEmbed, UpsertEmbeddings, UpsertReportsError,
         UpdateEmbeddingId, UpdateReportsError, RollBackVector, storageVars,
         ConsumersTypeOK
<1>2. /\ \A c : Queued(c)' <=> Queued(c)
      /\ InQueue(EmbeddingMessage, embeddingQueue)
      /\ EmbeddingMessage' = EmbeddingMessage
      /\ SummaryMessage' = SummaryMessage
  BY <1>1, InTail
  DEF Queued, InQueue, EmbeddingMessage, SummaryMessage, TypeOK, StorageTypeOK
<1>3. CASE GetChunkToEmbed \/ UpsertEmbeddings \/ UpsertReportsError
  <2>1. /\ UNCHANGED chunk /\ DOMAIN vector \subseteq DOMAIN vector'
        /\ embeddingPc' # "ack"
    BY <1>3 DEF GetChunkToEmbed, UpsertEmbeddings, UpsertReportsError,
                UpsertVector, storageVars
  <2>2. \A c \in DOMAIN chunk : Kept(c) => Kept(c)'
    BY <1>1, <1>2, <2>1 DEF Kept, EmbeddingKept, SummaryKept, InQueue
  <2>3. QED
    BY <1>2, <2>1, <2>2, ServiceStays
<1>4. CASE UpdateEmbeddingId \/ UpdateReportsError
  <2>1. /\ embeddingPc = "update" /\ UNCHANGED vector
        /\ SetEmbedding(EmbeddingMessage, vectorId) \/ UNCHANGED chunk
        /\ SetEmbedding(EmbeddingMessage, vectorId) \/ embeddingPc' # "ack"
    BY <1>4 DEF UpdateEmbeddingId, UpdateReportsError
  <2>2. vectorId \in DOMAIN vector /\ vectorId \in Nat
    BY <2>1 DEF VectorInv, VectorInHand, ConsumersTypeOK
  <2>3. /\ DOMAIN chunk' = DOMAIN chunk
        /\ \A d \in DOMAIN chunk :
             /\ chunk'[d].summary = chunk[d].summary
             /\ \/ chunk'[d].embedding = chunk[d].embedding
                \/ d = EmbeddingMessage /\ chunk'[d].embedding = vectorId
        /\ embeddingPc' = "ack" /\ EmbeddingMessage \in DOMAIN chunk =>
             chunk'[EmbeddingMessage].embedding = vectorId
    <3>1. CASE SetEmbedding(EmbeddingMessage, vectorId)
      BY <2>2, <3>1, EmbeddingColumn DEF TypeOK, StorageTypeOK
    <3>2. CASE UNCHANGED chunk /\ embeddingPc' # "ack"
      BY <3>2
    <3>3. QED
      BY <2>1, <3>1, <3>2
  <2>4. \A c \in DOMAIN chunk :
          Unpublished(c) => chunk'[c].embedding = chunk[c].embedding
    BY <1>2, <2>3, UnpublishedIsNew DEF ServiceInv, Queued
  <2>5. \A c \in DOMAIN chunk : Kept(c) => Kept(c)'
    BY <1>1, <1>2, <2>1, <2>2, <2>3
    DEF Kept, EmbeddingKept, SummaryKept, InQueue
  <2>6. QED
    BY <1>2, <2>3, <2>4, <2>5, ServiceStays
<1>5. CASE RollBackVector
  <2>1. /\ UNCHANGED chunk /\ embeddingPc = "rollback" /\ embeddingPc' = "nack"
        /\ DOMAIN vector \ {vectorId} \subseteq DOMAIN vector'
    BY <1>5 DEF RollBackVector, DeleteVectors, Restrict
  <2>2. \A c \in DOMAIN chunk :
          chunk[c].embedding = vectorId => c = EmbeddingMessage
    BY <2>1 DEF VectorInv, VectorInHand
  <2>3. \A c \in DOMAIN chunk : Kept(c) => Kept(c)'
    BY <1>1, <1>2, <2>1, <2>2 DEF Kept, EmbeddingKept, SummaryKept, InQueue
  <2>4. QED
    BY <1>2, <2>1, <2>3, ServiceStays
<1>6. QED
  BY <1>3, <1>4, <1>5

\* The embedding consumer settles its message: it is embedded, or parked.
LEMMA ServiceSettles ==
  ASSUME TypeOK, ConsumersTypeOK, ServiceInv, UNCHANGED indexVars,
         AckEmbedding \/ NackEmbedding
  PROVE  ServiceInv'
<1>1. /\ UNCHANGED <<chunk, vector, summaryQueue, summaryError, summaryPc>>
      /\ embeddingQueue # <<>> /\ embeddingQueue' = Tail(embeddingQueue)
      /\ embeddingPc' = "idle"
      /\ \/ embeddingPc = "ack" /\ embeddingError' = embeddingError
         \/ embeddingError' = embeddingError \cup {EmbeddingMessage}
  BY DEF AckEmbedding, NackEmbedding, EmbeddingCallFailed, ConsumersTypeOK
<1>2. \A c : InQueue(c, embeddingQueue) =>
               c = EmbeddingMessage \/ InQueue(c, embeddingQueue')
  BY <1>1, InTail DEF EmbeddingMessage, TypeOK, StorageTypeOK
<1>3. \A c : InQueue(c, embeddingQueue') => InQueue(c, embeddingQueue)
  BY <1>1, InTail DEF TypeOK, StorageTypeOK
<1>4. \A c \in DOMAIN chunk : Kept(c) => Kept(c)'
  <2>1. \A c \in DOMAIN chunk : EmbeddingKept(c) => EmbeddingKept(c)'
    BY <1>1, <1>2 DEF EmbeddingKept, InQueue
  <2>2. \A c \in DOMAIN chunk : SummaryKept(c) => SummaryKept(c)'
    BY <1>1 DEF SummaryKept, SummaryMessage, InQueue
  <2>3. QED
    BY <2>1, <2>2 DEF Kept
<1>5. \A c : Queued(c)' => Queued(c)
  BY <1>1, <1>3 DEF Queued, InQueue
<1>6. QED
  BY <1>1, <1>4, <1>5, ServiceStays

\* The summary consumer.
LEMMA ServiceSummarizes ==
  ASSUME TypeOK, ConsumersTypeOK, ServiceInv, UNCHANGED indexVars,
         SummaryConsumer
  PROVE  ServiceInv'
<1>1. /\ UNCHANGED <<vector, embeddingQueue, embeddingPc, embeddingError>>
      /\ EmbeddingMessage' = EmbeddingMessage
      /\ summaryQueue # <<>>
      /\ UNCHANGED chunk \/ SetSummary(SummaryMessage)
      /\ \/ /\ UNCHANGED <<summaryQueue, summaryError>>
            /\ summaryPc' = "ack" => SetSummary(SummaryMessage)
         \/ /\ summaryQueue' = Tail(summaryQueue) /\ summaryPc' = "idle"
            /\ \/ summaryPc = "ack" /\ UNCHANGED <<chunk, summaryError>>
               \/ summaryError' = summaryError \cup {SummaryMessage}
  <2>1. CASE GetChunkToSummarize
    BY <2>1 DEF GetChunkToSummarize, storageVars, embeddingVars, EmbeddingMessage
  <2>2. CASE UpdateSummary
    BY <2>2 DEF UpdateSummary, ConsumersTypeOK, embeddingVars, EmbeddingMessage
  <2>3. CASE AckSummary
    BY <2>3 DEF AckSummary, ConsumersTypeOK, embeddingVars, EmbeddingMessage
  <2>4. CASE NackSummary
    BY <2>4 DEF NackSummary, ConsumersTypeOK, embeddingVars, EmbeddingMessage
  <2>5. QED
    BY <2>1, <2>2, <2>3, <2>4 DEF SummaryConsumer
<1>2. /\ DOMAIN chunk' = DOMAIN chunk
      /\ \A c \in DOMAIN chunk :
           /\ chunk'[c].embedding = chunk[c].embedding
           /\ chunk[c].summary => chunk'[c].summary
      /\ SetSummary(SummaryMessage) =>
           \A c \in DOMAIN chunk : c = SummaryMessage => chunk'[c].summary
  BY <1>1, SummaryColumn DEF TypeOK, StorageTypeOK
<1>3. \A c : InQueue(c, Tail(summaryQueue)) => InQueue(c, summaryQueue)
  BY <1>1, InTail DEF TypeOK, StorageTypeOK
<1>4. \A c : InQueue(c, summaryQueue) =>
               c = SummaryMessage \/ InQueue(c, Tail(summaryQueue))
  BY <1>1, InTail DEF SummaryMessage, TypeOK, StorageTypeOK
<1>5. \A c : Queued(c)' => Queued(c)
  BY <1>1, <1>3 DEF Queued, InQueue
<1>6. \A c \in DOMAIN chunk : EmbeddingKept(c) => EmbeddingKept(c)'
  BY <1>1, <1>2 DEF EmbeddingKept, InQueue
<1>7. ASSUME NEW c \in DOMAIN chunk, SummaryKept(c) PROVE SummaryKept(c)'
  <2>1. CASE /\ UNCHANGED <<summaryQueue, summaryError>>
             /\ summaryPc' = "ack" => SetSummary(SummaryMessage)
    <3>1. SummaryMessage' = SummaryMessage
      BY <2>1 DEF SummaryMessage
    <3>2. CASE summaryPc' = "ack" /\ c = SummaryMessage
      BY <1>2, <2>1, <3>2 DEF SummaryKept
    <3>3. CASE ~ (summaryPc' = "ack" /\ c = SummaryMessage)
      BY <1>2, <1>7, <2>1, <3>1, <3>3 DEF SummaryKept, InQueue
    <3>4. QED
      BY <3>2, <3>3
  <2>2. CASE /\ summaryQueue' = Tail(summaryQueue) /\ summaryPc' = "idle"
             /\ \/ summaryPc = "ack" /\ UNCHANGED <<chunk, summaryError>>
                \/ summaryError' = summaryError \cup {SummaryMessage}
    BY <1>2, <1>4, <1>7, <2>2 DEF SummaryKept, InQueue
  <2>3. QED
    BY <1>1, <2>1, <2>2
<1>8. QED
  BY <1>2, <1>5, <1>6, <1>7, ServiceStays DEF Kept
-----------------------------------------------------------------------------
(* The index worker, and the chunks of the other two loops.                *)

\* A run that has just reached its "load" step has deleted every chunk of the
\* files it rebuilds.
LEMMA LoadedIsEmpty ==
  ASSUME FreshnessInv', GraphInv', pc' = "load"
  PROVE  KeptByRun'
<1>1. \A c \in DOMAIN chunk' : c[1] \in Paths /\ file'[c[1]] # 0
  BY DEF GraphInv, ChunksOwned, Indexed
<1>2. \A p \in Paths : Handled(p)' => file'[p] = 0
  BY DEF FreshnessInv, RowsOfRun
<1>3. QED
  BY <1>1, <1>2 DEF KeptByRun

\* A step of a run that inserts no chunk and deletes none.
LEMMA ServicePlan ==
  ASSUME TypeOK, ServiceInv, KeptByRun',
         UNCHANGED <<chunk, vector, embeddingQueue, summaryQueue, events,
                     settled, dead, crashes>>,
         UNCHANGED consumerVars,
         pc \notin {"chunk", "publish", "ack"}, pc' # "publish"
  PROVE  ServiceInv'
<1>1. /\ Requested' <=> Requested
      /\ \A p : Covered(p)' <=> Covered(p)
  BY RunKeepsEvents
<1>2. /\ \A c : Drawn(c) => Drawn(c)'
      /\ \A c : ~ Unpublished(c) /\ ~ Unpublished(c)'
  BY DEF Drawn, Unpublished, Attempt
<1>3. /\ \A c : Queued(c)' <=> Queued(c)
      /\ \A c : Kept(c)' <=> Kept(c)
  BY DEF Queued, Kept, EmbeddingKept, SummaryKept, InQueue, EmbeddingMessage,
         SummaryMessage, consumerVars
<1>4. Publishing'
  BY <1>2, <1>3 DEF ServiceInv, Publishing
<1>5. KeptOrOwed'
  BY <1>1, <1>2, <1>3 DEF ServiceInv, KeptOrOwed
<1>6. QED
  BY <1>4, <1>5 DEF ServiceInv

\* The steps of a run before its chunks.
LEMMA ServiceRuns ==
  ASSUME TypeOK, FreshnessInv, ServiceInv, TypeOK', FreshnessInv', GraphInv',
         UNCHANGED consumerVars,
         \/ UpsertRepository \/ ListFiles \/ ReadEmbeddingIds \/ LoadPackages
         \/ InsertFile \/ ExtractSymbols \/ BuildCallEdges \/ BuildImportEdges
  PROVE  ServiceInv'
<1>1. UNCHANGED <<chunk, vector, embeddingQueue, summaryQueue, events, settled,
                  dead, crashes>>
  BY DEF UpsertRepository, ListFiles, ReadEmbeddingIds, LoadPackages,
         InsertFile, ExtractSymbols, BuildCallEdges, BuildImportEdges,
         storageVars, queueVars
<1>2. /\ pc \notin {"chunk", "publish", "ack"} /\ pc' # "publish"
      /\ pc' \in Rebuilding =>
           \/ pc' = "load"
           \/ pc \in Rebuilding /\ UNCHANGED <<clone, full>>
           \/ ListFiles /\ pc' = "ack"
  BY DEF UpsertRepository, ListFiles, ReadEmbeddingIds, LoadPackages,
         InsertFile, ExtractSymbols, BuildCallEdges, BuildImportEdges,
         Rebuilding, Inserted, workVars
<1>3. KeptByRun'
  <2>1. CASE pc' \notin Rebuilding
    BY <2>1 DEF KeptByRun
  <2>2. CASE pc' = "load"
    BY <2>2, LoadedIsEmpty
  <2>3. CASE pc \in Rebuilding /\ UNCHANGED <<clone, full>>
    <3>1. \A p : Handled(p)' <=> Handled(p)
      BY <1>1, <2>3, RunKeepsPlan
    <3>2. \A c : Kept(c)' <=> Kept(c)
      BY <1>1 DEF Kept, EmbeddingKept, SummaryKept, InQueue, EmbeddingMessage,
                  SummaryMessage, consumerVars
    <3>3. \A c : ~ Unpublished(c)
      BY <1>2 DEF Unpublished
    <3>4. QED
      BY <1>1, <2>3, <3>1, <3>2, <3>3 DEF ServiceInv, KeptByRun
  <2>4. CASE ListFiles /\ pc' = "ack"
    <3>1. ~ full' /\ Named = {} /\ Event' = Event
      BY <1>1, <2>4 DEF ListFiles, Event
    <3>2. Event.type # "FULL_INDEX"
      BY <2>4 DEF ListFiles, FreshnessInv, FullRuns
    <3>3. \A p : ~ Handled(p)'
      BY <3>1, <3>2 DEF Handled, Mentions, Named
    <3>4. QED
      BY <3>3 DEF KeptByRun
  <2>5. QED
    BY <1>2, <2>1, <2>2, <2>3, <2>4
<1>4. QED
  BY <1>1, <1>2, <1>3, ServicePlan

\* The vectors and the rows of the files the run rebuilds go.
LEMMA ServiceDeletes ==
  ASSUME TypeOK, FreshnessInv, VectorInv, ServiceInv, TypeOK', FreshnessInv',
         GraphInv', UNCHANGED consumerVars,
         DeleteVectorBatch \/ DeleteFileRows
  PROVE  ServiceInv'
<1>1. /\ UNCHANGED <<embeddingQueue, summaryQueue, events, settled, dead, crashes>>
      /\ pc = "vectors" /\ pc' \in {"vectors", "load", "discard"}
  BY DEF DeleteVectorBatch, DeleteFileRows, queueVars
<1>2. /\ Requested' <=> Requested
      /\ \A p : Covered(p)' <=> Covered(p)
  BY <1>1, RunKeepsEvents
<1>3. /\ \A c : Drawn(c) => Drawn(c)'
      /\ \A c : ~ Unpublished(c) /\ ~ Unpublished(c)'
      /\ \A c : Queued(c)' <=> Queued(c)
  BY <1>1 DEF Drawn, Unpublished, Attempt, Queued, InQueue
<1>4. Publishing'
  BY <1>1, <1>3 DEF ServiceInv, Publishing
<1>5. KeptByRun'
  <2>1. CASE pc' = "load"
    BY <2>1, LoadedIsEmpty
  <2>2. CASE pc' \in {"vectors", "discard"}
    BY <2>2 DEF KeptByRun, Rebuilding, Inserted
  <2>3. QED
    BY <1>1, <2>1, <2>2
<1>6. KeptOrOwed'
  <2> SUFFICES ASSUME Requested, NEW c \in DOMAIN chunk'
               PROVE  Kept(c)' \/ Covered(c[1])
    BY <1>2 DEF KeptOrOwed
  <2>1. CASE DeleteVectorBatch
    <3>1. /\ UNCHANGED chunk
          /\ \A v \in DOMAIN vector : v \in DOMAIN vector' \/ v \in doomed
      BY <2>1 DEF DeleteVectorBatch, Batches, DeleteVectors, Restrict
    <3>2. CASE chunk[c].embedding \in doomed
      <4>1. c[1] \in scope
        BY <1>1, <3>1, <3>2 DEF VectorInv, DoomedInScope
      <4>2. c[1] \in Paths /\ Handled(c[1])
        BY <1>1, <4>1 DEF FreshnessInv, RowsOfRun, Discarding, TypeOK, IndexTypeOK
      <4>3. QED
        BY <1>1, <4>2, HandledIsCovered DEF Working
    <3>3. CASE chunk[c].embedding \notin doomed
      <4>1. Kept(c) => Kept(c)'
        BY <1>1, <3>1, <3>3
        DEF Kept, EmbeddingKept, SummaryKept, InQueue, EmbeddingMessage,
            SummaryMessage, consumerVars
      <4>2. QED
        BY <1>3, <3>1, <4>1 DEF ServiceInv, KeptOrOwed
    <3>4. QED
      BY <3>2, <3>3
  <2>2. CASE DeleteFileRows
    <3>1. UNCHANGED vector /\ c \in DOMAIN chunk /\ chunk'[c] = chunk[c]
      BY <2>2 DEF DeleteFileRows, DeleteFiles, Restrict
    <3>2. Kept(c) => Kept(c)'
      BY <1>1, <3>1
      DEF Kept, EmbeddingKept, SummaryKept, InQueue, EmbeddingMessage,
          SummaryMessage, consumerVars
    <3>3. QED
      BY <1>3, <3>1, <3>2 DEF ServiceInv, KeptOrOwed
  <2>3. QED
    BY <2>1, <2>2
<1>7. QED
  BY <1>4, <1>5, <1>6 DEF ServiceInv

\* A new row is empty, and still without its message.
LEMMA ServiceInserts ==
  ASSUME TypeOK, GraphInv, ServiceInv, UNCHANGED consumerVars, InsertChunk
  PROVE  ServiceInv'
<1>1. PICK p \in todo : /\ InsertChunks({<<p, Attempt>>})
                        /\ scope' = {p}
                        /\ todo' = todo \ {p}
  BY DEF InsertChunk
<1> DEFINE new == <<p, Attempt>>
<1>2. /\ UNCHANGED <<vector, embeddingQueue, summaryQueue, events, settled, dead,
                     crashes, clone, full>>
      /\ pc = "chunk" /\ pc' = "publish" /\ p \in Paths
  BY DEF InsertChunk, queueVars, TypeOK, IndexTypeOK
<1>3. /\ Requested' <=> Requested
      /\ \A q : Covered(q)' <=> Covered(q)
      /\ \A q : Handled(q)' <=> Handled(q)
  BY <1>2, RunKeepsEvents, RunKeepsPlan
<1>4. /\ Attempt' = Attempt
      /\ \A c : Drawn(c) => Drawn(c)'
      /\ \A c : ~ Unpublished(c)
      /\ \A c : Unpublished(c)' <=> c = new
      /\ \A c : Queued(c)' <=> Queued(c)
  <2>1. Attempt' = Attempt
    BY <1>2 DEF Attempt
  <2>2. \A c : Drawn(c) => Drawn(c)'
    BY <1>1, <1>2, <2>1 DEF Drawn
  <2>3. (CHOOSE q \in scope' : TRUE) = p
    BY <1>1
  <2>4. \A c : ~ Unpublished(c) /\ (Unpublished(c)' <=> c = new)
    BY <1>2, <2>1, <2>3 DEF Unpublished
  <2>5. \A c : Queued(c)' <=> Queued(c)
    BY <1>2 DEF Queued, InQueue
  <2>6. QED
    BY <2>1, <2>2, <2>4, <2>5
<1>5. /\ \A c \in DOMAIN chunk' : c = new \/ c \in DOMAIN chunk
      /\ \A c \in DOMAIN chunk : chunk'[c] = chunk[c]
      /\ chunk'[new].embedding = 0
  <2>1. new \notin DOMAIN chunk
    <3>1. ~ HasChunk(p)
      BY <1>2 DEF GraphInv, ChunksOfRun
    <3>2. QED
      BY <3>1 DEF HasChunk
  <2>2. QED
    BY <1>1, <2>1 DEF InsertChunks, NewChunkRow
<1>6. \A c \in DOMAIN chunk : Kept(c) => Kept(c)'
  BY <1>2, <1>5
  DEF Kept, EmbeddingKept, SummaryKept, InQueue, EmbeddingMessage,
      SummaryMessage, consumerVars
<1> HIDE DEF new
<1>7. Publishing'
  BY <1>1, <1>2, <1>4, <1>5 DEF ServiceInv, Publishing
<1>8. KeptOrOwed'
  BY <1>3, <1>4, <1>5, <1>6 DEF ServiceInv, KeptOrOwed
<1>9. KeptByRun'
  BY <1>2, <1>3, <1>4, <1>5, <1>6
  DEF ServiceInv, KeptByRun, Rebuilding, Inserted
<1>10. QED
  BY <1>7, <1>8, <1>9 DEF ServiceInv

\* Its message reaches both queues at once.
LEMMA ServicePublishes ==
  ASSUME TypeOK, ConsumersTypeOK, GraphInv, ServiceInv, UNCHANGED consumerVars,
         PublishChunk
  PROVE  ServiceInv'
<1>1. PICK p \in scope : PublishEmbedding(<<p, Attempt>>)
  BY DEF PublishChunk
<1> DEFINE new == <<p, Attempt>>
<1>2. /\ UNCHANGED <<chunk, vector, events, settled, dead, crashes, clone, full,
                     todo>>
      /\ pc = "publish" /\ pc' \in {"chunk", "ack"} /\ p \in Paths
      /\ embeddingQueue' = Append(embeddingQueue, new)
      /\ summaryQueue' = Append(summaryQueue, new)
  BY <1>1 DEF PublishChunk, PublishEmbedding, queueVars, TypeOK, IndexTypeOK
<1>3. /\ Requested' <=> Requested
      /\ \A q : Covered(q)' <=> Covered(q)
      /\ \A q : Handled(q)' <=> Handled(q)
  BY <1>2, RunKeepsEvents, RunKeepsPlan
<1>4. /\ new \in ChunkIds /\ Attempt \in Nat
      /\ embeddingQueue \in Seq(ChunkIds) /\ summaryQueue \in Seq(ChunkIds)
  BY <1>2, QueuedIds DEF ChunkIds, TypeOK, StorageTypeOK
<1>5. /\ \A c : Unpublished(c) => c = new
      /\ \A c : ~ Unpublished(c)'
      /\ ~ Queued(new)
  <2>1. Unpublished(new)
    <3>1. scope = {p}
      BY <1>1, <1>2 DEF ServiceInv, Publishing
    <3>2. QED
      BY <1>2, <3>1 DEF Unpublished
  <2>2. QED
    BY <1>2, <2>1, UnpublishedIsNew DEF ServiceInv, Unpublished
<1> HIDE DEF new
<1>6. /\ \A c : InQueue(c, embeddingQueue) => InQueue(c, embeddingQueue')
      /\ \A c : InQueue(c, embeddingQueue') => c = new \/ InQueue(c, embeddingQueue)
      /\ InQueue(new, embeddingQueue')
      /\ embeddingQueue # <<>> => Head(embeddingQueue') = Head(embeddingQueue)
  BY <1>2, <1>4, InAppended
<1>7. /\ \A c : InQueue(c, summaryQueue) => InQueue(c, summaryQueue')
      /\ \A c : InQueue(c, summaryQueue') => c = new \/ InQueue(c, summaryQueue)
      /\ InQueue(new, summaryQueue')
      /\ summaryQueue # <<>> => Head(summaryQueue') = Head(summaryQueue)
  BY <1>2, <1>4, InAppended
<1>8. /\ embeddingPc = "ack" => /\ EmbeddingMessage' = EmbeddingMessage
                                /\ InQueue(EmbeddingMessage, embeddingQueue)
      /\ summaryPc = "ack" => /\ SummaryMessage' = SummaryMessage
                              /\ InQueue(SummaryMessage, summaryQueue)
  BY <1>4, <1>6, <1>7, InTail
  DEF ConsumersTypeOK, EmbeddingMessage, SummaryMessage
<1>9. \A c \in DOMAIN chunk : Kept(c) \/ c = new => Kept(c)'
  <2>1. \A c \in DOMAIN chunk :
          EmbeddingKept(c) \/ c = new => EmbeddingKept(c)'
    BY <1>2, <1>5, <1>6, <1>8 DEF EmbeddingKept, Queued, consumerVars
  <2>2. \A c \in DOMAIN chunk : SummaryKept(c) \/ c = new => SummaryKept(c)'
    BY <1>2, <1>5, <1>7, <1>8 DEF SummaryKept, Queued, consumerVars
  <2>3. QED
    BY <2>1, <2>2 DEF Kept
<1>10. Publishing'
  <2>1. \A c : c = new => Drawn(c)'
    <3>1. p \notin todo
      BY <1>1, <1>2 DEF GraphInv, ChunksOfRun
    <3>2. new = <<p, Attempt>> /\ Attempt' = Attempt
      BY <1>2 DEF new, Attempt
    <3>3. QED
      BY <1>2, <3>1, <3>2 DEF Drawn
  <2>2. \A c : Drawn(c) => Drawn(c)'
    BY <1>2 DEF Drawn, Attempt
  <2>3. \A c : Queued(c)' => c = new \/ Queued(c)
    BY <1>6, <1>7 DEF Queued
  <2>4. QED
    BY <1>2, <1>5, <2>1, <2>2, <2>3 DEF ServiceInv, Publishing
<1>11. KeptOrOwed'
  BY <1>2, <1>3, <1>5, <1>9 DEF ServiceInv, KeptOrOwed
<1>12. KeptByRun'
  BY <1>2, <1>3, <1>5, <1>9 DEF ServiceInv, KeptByRun, Rebuilding, Inserted
<1>13. QED
  BY <1>10, <1>11, <1>12 DEF ServiceInv
-----------------------------------------------------------------------------
(* Between two events.                                                     *)

\* A step that begins or ends an event, or the process: it moves no chunk and
\* no message, and what it owed is still owed.
LEMMA ServiceRests ==
  ASSUME TypeOK, ServiceInv,
         UNCHANGED <<chunk, vector, embeddingQueue, summaryQueue,
                     embeddingError, summaryError>>,
         \/ embeddingPc' = embeddingPc /\ summaryPc' = summaryPc
         \/ embeddingPc' = "idle" /\ summaryPc' = "idle",
         Attempt' \in Nat,
         Attempt' > Attempt \/ (pc = "idle" /\ Attempt' = Attempt),
         pc' \in {"idle", "upsert"},
         Requested' => Requested \/ \A p \in Paths : Covered(p)',
         Requested => \A c \in DOMAIN chunk :
           Kept(c) \/ Unpublished(c) \/ Covered(c[1])
             => Kept(c) \/ Covered(c[1])'
  PROVE  ServiceInv'
<1>1. Attempt \in Nat /\ \A c : Queued(c) => c \in ChunkIds
  BY QueuedIds
<1>2. \A c : Queued(c)' => Drawn(c)'
  <2> SUFFICES ASSUME NEW c, Queued(c) PROVE Drawn(c)'
    BY DEF Queued, InQueue
  <2>1. c[2] \in Nat /\ Drawn(c)
    BY <1>1 DEF ChunkIds, ServiceInv, Publishing
  <2>2. c[2] < Attempt'
    BY <1>1, <2>1 DEF Drawn
  <2>3. QED
    BY <2>2 DEF Drawn
<1>3. \A c : ~ Unpublished(c)'
  BY DEF Unpublished
<1>4. Publishing'
  BY <1>2, <1>3 DEF Publishing
<1>5. \A c \in DOMAIN chunk : Kept(c) => Kept(c)'
  BY DEF Kept, EmbeddingKept, SummaryKept, InQueue, EmbeddingMessage,
         SummaryMessage
<1>6. KeptOrOwed'
  <2> SUFFICES ASSUME Requested', NEW c \in DOMAIN chunk
               PROVE  Kept(c)' \/ Covered(c[1])'
    BY DEF KeptOrOwed
  <2>1. CASE \A p \in Paths : Covered(p)'
    <3>1. c[1] \in Paths
      BY DEF TypeOK, StorageTypeOK, ChunkIds
    <3>2. QED
      BY <2>1, <3>1
  <2>2. CASE Requested
    BY <1>5, <2>2 DEF ServiceInv, KeptOrOwed
  <2>3. QED
    BY <2>1, <2>2
<1>7. KeptByRun'
  BY DEF KeptByRun, Rebuilding, Inserted
<1>8. QED
  BY <1>4, <1>6, <1>7 DEF ServiceInv

\* The chunk a run leaves without its message is owed to the event of the run.
LEMMA UnpublishedIsCovered ==
  ASSUME TypeOK, FreshnessInv, GraphInv, ServiceInv, Requested, NEW c,
         Unpublished(c)
  PROVE  Covered(c[1])
<1>1. pc = "publish" /\ c[1] \in scope /\ c[1] \in Paths
  BY UnpublishedIsNew DEF ServiceInv, Unpublished
<1>2. c[1] \in Fresh
  BY <1>1 DEF GraphInv, ChunksOfRun
<1>3. QED
  BY <1>1, <1>2, FreshIsHandled, HandledIsCovered DEF Working

\* The worker settles an event, with or without success, or takes the next one.
LEMMA ServiceEvents ==
  ASSUME TypeOK, ConsumersTypeOK, FreshnessInv, GraphInv, ServiceInv,
         UNCHANGED consumerVars, Clone \/ Reject \/ Ack \/ Fail
  PROVE  ServiceInv'
<1>1. /\ UNCHANGED <<chunk, vector, embeddingQueue, summaryQueue,
                     embeddingError, summaryError, embeddingPc, summaryPc,
                     events, crashes>>
      /\ pc' \in {"idle", "upsert"} /\ settled < Len(events)
  BY DEF Clone, Reject, Ack, Fail, Rest, storageVars, queueVars, consumerVars,
         TypeOK, IndexTypeOK, Working
<1>2. /\ settled \in Nat /\ crashes \in Nat
      /\ IndexTypeOK
  BY DEF TypeOK, IndexTypeOK
<1>3. Requested' <=> Requested
  BY <1>1 DEF Requested
<1>4. \A c \in DOMAIN chunk : c[1] \in Paths
  BY DEF TypeOK, StorageTypeOK, ChunkIds
<1>5. Attempt' \in Nat /\ (settled' = settled + 1 => Attempt' > Attempt)
  <2>1. settled' = settled \/ settled' = settled + 1
    BY DEF Clone, Reject, Ack, Fail
  <2>2. Attempt' = settled' + crashes + 1
    BY <1>1 DEF Attempt
  <2>3. CASE settled' = settled
    BY <1>2, <2>2, <2>3 DEF Attempt
  <2>4. CASE settled' = settled + 1
    BY <1>2, <2>2, <2>4 DEF Attempt
  <2>5. QED
    BY <2>1, <2>3, <2>4
<1>6. ASSUME Requested => \A c \in DOMAIN chunk :
               Unpublished(c) \/ Covered(c[1]) => Kept(c) \/ Covered(c[1])',
             Attempt' > Attempt \/ (pc = "idle" /\ Attempt' = Attempt)
      PROVE  ServiceInv'
  <2>1. Requested => \A c \in DOMAIN chunk :
          Kept(c) \/ Unpublished(c) \/ Covered(c[1]) => Kept(c) \/ Covered(c[1])'
    BY <1>6
  <2>2. UNCHANGED <<chunk, vector, embeddingQueue, summaryQueue, embeddingError,
                    summaryError>>
    BY <1>1
  <2>3. /\ embeddingPc' = embeddingPc /\ summaryPc' = summaryPc
        /\ pc' \in {"idle", "upsert"}
    BY <1>1
  <2>4. QED
    BY <1>3, <1>5, <1>6, <2>1, <2>2, <2>3, ServiceRests
<1>7. CASE Clone
  <2>1. UNCHANGED <<settled, dead>> /\ pc = "idle"
    BY <1>7 DEF Clone
  <2>2. \A p : Covered(p)' <=> Covered(p)
    BY <1>1, <2>1, RunKeepsEvents
  <2>3. \A c : ~ Unpublished(c)
    BY <2>1 DEF Unpublished
  <2>4. Attempt' = Attempt
    BY <1>1, <2>1 DEF Attempt
  <2>5. QED
    BY <1>6, <2>1, <2>2, <2>3, <2>4
<1>8. CASE Reject \/ Fail
  <2>1. settled' = settled + 1 /\ dead' = dead \cup {settled + 1}
    BY <1>8 DEF Reject, Fail
  <2>2. \A p : Covered(p) => Covered(p)'
    BY <1>1, <1>2, <2>1, DeadLetterCovers
  <2>3. Requested => \A c : Unpublished(c) => Covered(c[1])
    BY UnpublishedIsCovered
  <2>4. QED
    BY <1>5, <1>6, <2>1, <2>2, <2>3
<1>9. CASE Ack
  <2>1. settled' = settled + 1 /\ pc = "ack" /\ pc \in Rebuilding
    BY <1>9 DEF Ack, Rebuilding, Inserted
  <2>2. \A c : ~ Unpublished(c)
    BY <2>1 DEF Unpublished
  <2>3. ASSUME NEW c \in DOMAIN chunk, Covered(c[1]), ~ Kept(c)
        PROVE  Covered(c[1])'
    <3>1. ~ Handled(c[1])
      BY <2>1, <2>2, <2>3 DEF ServiceInv, KeptByRun
    <3>2. QED
      BY <1>4, <1>9, <2>3, <3>1, AckKeepsOthers
  <2>4. QED
    BY <1>5, <1>6, <2>1, <2>2, <2>3
<1>10. QED
  BY <1>7, <1>8, <1>9

\* A request changes no row and no message: it only adds to what is owed.
LEMMA ServiceRequests ==
  ASSUME TypeOK, ServiceInv, UNCHANGED consumerVars, Requests
  PROVE  ServiceInv'
<1>1. PICK e \in Events :
        /\ events' = Append(events, e)
        /\ e.type = "FULL_INDEX" => e = FullIndexEvent
  <2>1. CASE RequestFullIndex
    BY <2>1 DEF RequestFullIndex, Events
  <2>2. CASE \E C, R \in SUBSET Paths : Push(C, R)
    <3>1. PICK C \in SUBSET Paths, R \in SUBSET Paths : Push(C, R)
      BY <2>2
    <3>2. PushEvent(C, R) \in Events /\ PushEvent(C, R).type # "FULL_INDEX"
      BY DEF Events, PushEvent
    <3>3. QED
      BY <3>1, <3>2 DEF Push
  <2>3. QED
    BY <2>1, <2>2 DEF Requests
<1>2. /\ UNCHANGED storageVars
      /\ UNCHANGED <<settled, dead, crashes, pc, clone, full, todo, scope>>
      /\ IndexTypeOK
  BY DEF Requests, RequestFullIndex, Push, workVars, TypeOK
<1>3. /\ \A p : Covered(p) => Covered(p)'
      /\ \A p : Mentions(e, p) => Covered(p)'
      /\ Requested' => Requested \/ e.type = "FULL_INDEX"
  BY <1>1, <1>2, PublishCovers, PublishRequests
<1>4. \A c : /\ Drawn(c)' <=> Drawn(c)
             /\ Unpublished(c)' <=> Unpublished(c)
             /\ Queued(c)' <=> Queued(c)
             /\ Kept(c)' <=> Kept(c)
  BY <1>2
  DEF Drawn, Unpublished, Attempt, Queued, InQueue, Kept, EmbeddingKept,
      SummaryKept, EmbeddingMessage, SummaryMessage, storageVars, consumerVars
<1>5. \A c \in DOMAIN chunk : c[1] \in Paths
  BY DEF TypeOK, StorageTypeOK, ChunkIds
<1>6. Publishing'
  BY <1>2, <1>4 DEF ServiceInv, Publishing, storageVars
<1>7. KeptOrOwed'
  <2> SUFFICES ASSUME Requested', NEW c \in DOMAIN chunk
               PROVE  Kept(c) \/ Unpublished(c) \/ Covered(c[1])'
    BY <1>2, <1>4 DEF KeptOrOwed, storageVars
  <2>1. CASE Requested
    BY <1>3, <2>1 DEF ServiceInv, KeptOrOwed
  <2>2. CASE e.type = "FULL_INDEX"
    BY <1>3, <2>2 DEF Mentions
  <2>3. QED
    BY <1>3, <2>1, <2>2
<1>8. KeptByRun'
  <2> SUFFICES ASSUME pc \in Rebuilding,
                      NEW c \in DOMAIN chunk, Handled(c[1])'
               PROVE  Kept(c) \/ Unpublished(c)
    BY <1>2, <1>4 DEF KeptByRun, storageVars
  <2>1. Event' = Event
    <3>1. settled + 1 \in 1..Len(events) /\ events \in Seq(Events)
      BY <1>2 DEF IndexTypeOK, Working, Rebuilding, Inserted
    <3>2. QED
      BY <1>1, <1>2, <3>1 DEF Event
  <2>2. Handled(c[1])
    BY <1>2, <2>1 DEF Handled
  <2>3. QED
    BY <2>2 DEF ServiceInv, KeptByRun
<1>9. QED
  BY <1>6, <1>7, <1>8 DEF ServiceInv

\* The process dies in the middle of everything, and is started again: the
\* messages and the event are delivered again.
LEMMA ServiceProcess ==
  ASSUME TypeOK, ConsumersTypeOK, FreshnessInv, GraphInv, ServiceInv,
         Panic \/ ProcessCrash \/ ProcessRestart
  PROVE  ServiceInv'
<1>1. CASE ConsumersDie /\ IndexingDies
  <2>1. /\ UNCHANGED <<chunk, vector, embeddingQueue, summaryQueue,
                       embeddingError, summaryError>>
        /\ embeddingPc' = "idle" /\ summaryPc' = "idle"
    BY <1>1 DEF ConsumersDie, storageVars
  <2>2. CASE Working
    <3>1. /\ UNCHANGED <<events, settled, dead>> /\ crashes' = crashes + 1
          /\ pc' = "idle"
      BY <1>1, <2>2 DEF IndexingDies, CrashIndexing, Rest, queueVars
    <3>2. /\ Requested' <=> Requested
          /\ \A p : Covered(p)' <=> Covered(p)
      BY <3>1, RunKeepsEvents
    <3>3. Attempt' \in Nat /\ Attempt' > Attempt
      BY <3>1 DEF Attempt, TypeOK, IndexTypeOK
    <3>4. Requested => \A c : Unpublished(c) => Covered(c[1])
      BY UnpublishedIsCovered
    <3>5. QED
      BY <2>1, <3>1, <3>2, <3>3, <3>4, ServiceRests
  <2>3. CASE ~ Working
    <3>1. UNCHANGED indexVars /\ pc' = "idle" /\ pc = "idle"
      BY <1>1, <2>3 DEF IndexingDies, indexVars, Working
    <3>2. \A c \in DOMAIN chunk : Kept(c) => Kept(c)'
      BY <2>1 DEF Kept, EmbeddingKept, SummaryKept, InQueue
    <3>3. \A c : Queued(c)' => Queued(c)
      BY <2>1 DEF Queued, InQueue
    <3>4. QED
      BY <2>1, <3>1, <3>2, <3>3, ServiceStays
  <2>4. QED
    BY <2>2, <2>3
<1>2. CASE ProcessRestart
  <2>1. /\ UNCHANGED <<chunk, vector, embeddingQueue, summaryQueue,
                       embeddingError, summaryError, embeddingPc, summaryPc>>
        /\ UNCHANGED indexVars
    BY <1>2 DEF ProcessRestart, Restart, storageVars, embeddingVars
  <2>2. \A c : /\ Kept(c)' <=> Kept(c)
               /\ Queued(c)' <=> Queued(c)
    BY <2>1 DEF Kept, EmbeddingKept, SummaryKept, Queued, InQueue,
                EmbeddingMessage, SummaryMessage
  <2>3. QED
    BY <2>1, <2>2, ServiceStays
<1>3. QED
  BY <1>1, <1>2 DEF Panic, ProcessCrash, ConsumerPanic, ConsumersCrash
-----------------------------------------------------------------------------
(* The process.                                                            *)

\* The process starts on a database that has never seen the repository.
LEMMA SynthyInvInit == SynthyInit => SynthyInv
<1> SUFFICES ASSUME SynthyInit PROVE SynthyInv
  OBVIOUS
<1>1. Init /\ ConsumersInit
  BY DEF SynthyInit
<1>2. TypeOK /\ FreshnessInv /\ GraphInv
  BY <1>1, InitType, FreshnessInit, GraphInit
<1>3. ConsumersTypeOK
  BY <1>1, ConsumersAssumption DEF ConsumersInit, ConsumersTypeOK
<1>4. /\ DOMAIN chunk = {} /\ DOMAIN vector = {} /\ doomed = {}
      /\ embeddingQueue = <<>> /\ summaryQueue = <<>>
      /\ pc = "idle" /\ embeddingPc = "idle"
  BY <1>1, NotLegacyAssumption
  DEF Init, IndexInit, EmptyStorage, NoRows, ConsumersInit
<1>5. VectorInv
  BY <1>4 DEF VectorInv, VectorsTraced, DoomedInScope, VectorInHand
<1>6. ServiceInv
  <2>1. \A c : ~ Queued(c)
    BY <1>4 DEF Queued, InQueue
  <2>2. QED
    BY <1>4, <2>1
    DEF ServiceInv, Publishing, Unpublished, KeptOrOwed, KeptByRun, Rebuilding,
        Inserted
<1>7. QED
  BY <1>2, <1>3, <1>5, <1>6 DEF SynthyInv

\* Every step of the process keeps the invariant.
LEMMA SynthyInvNext == SynthyInv /\ [SynthyNext]_synthyVars => SynthyInv'
<1> SUFFICES ASSUME SynthyInv, [SynthyNext]_synthyVars PROVE SynthyInv'
  OBVIOUS
<1>1. /\ TypeOK /\ ConsumersTypeOK /\ FreshnessInv /\ GraphInv
      /\ VectorInv /\ ServiceInv
  BY DEF SynthyInv
<1>2. TypeOK' /\ ConsumersTypeOK' /\ FreshnessInv' /\ GraphInv'
  BY <1>1, IndexInvariantsKept
<1>3. VectorInv' /\ ServiceInv'
  <2>1. CASE IndexStep \/ RequestStep
    <3>1. UNCHANGED consumerVars
      BY <2>1 DEF IndexStep, RequestStep
    <3>2. VectorInv'
      BY <1>1, <2>1, VectorsIndex
    <3>3. CASE Clone \/ Reject \/ Ack \/ Fail
      BY <1>1, <3>1, <3>2, <3>3, ServiceEvents
    <3>4. CASE Requests
      BY <1>1, <3>1, <3>2, <3>4, ServiceRequests
    <3>5. CASE \/ UpsertRepository \/ ListFiles \/ ReadEmbeddingIds
               \/ LoadPackages \/ InsertFile \/ ExtractSymbols
               \/ BuildCallEdges \/ BuildImportEdges
      BY <1>1, <1>2, <3>1, <3>2, <3>5, ServiceRuns
    <3>6. CASE DeleteVectorBatch \/ DeleteFileRows
      BY <1>1, <1>2, <3>1, <3>2, <3>6, ServiceDeletes
    <3>7. CASE InsertChunk
      BY <1>1, <3>1, <3>2, <3>7, ServiceInserts
    <3>8. CASE PublishChunk
      BY <1>1, <3>1, <3>2, <3>8, ServicePublishes
    <3>9. QED
      BY <2>1, <3>3, <3>4, <3>5, <3>6, <3>7, <3>8
      DEF IndexStep, RequestStep, Worker, Pipeline
  <2>2. CASE EmbeddingStep \/ SummaryStep
    <3>1. VectorInv'
      BY <1>1, <2>2, VectorsConsumers
    <3>2. CASE SummaryStep
      BY <1>1, <3>1, <3>2, ServiceSummarizes DEF SummaryStep
    <3>3. CASE EmbeddingStep
      BY <1>1, <3>1, <3>3, ServiceEmbeds, ServiceSettles
      DEF EmbeddingStep, EmbeddingConsumer
    <3>4. QED
      BY <2>2, <3>2, <3>3
  <2>3. CASE Panic \/ ProcessCrash \/ ProcessRestart
    BY <1>1, <2>3, VectorsProcess, ServiceProcess
  <2>4. CASE UNCHANGED synthyVars
    <3>1. /\ UNCHANGED indexVars
          /\ UNCHANGED <<chunk, vector, embeddingQueue, summaryQueue>>
          /\ UNCHANGED <<embeddingPc, vectorId, summaryPc, embeddingError,
                         summaryError, upserts>>
      BY <2>4 DEF synthyVars, storageVars, consumerVars
    <3>2. UNCHANGED <<pc, scope, doomed>> /\ EmbeddingMessage' = EmbeddingMessage
      BY <3>1 DEF indexVars, EmbeddingMessage
    <3>3. VectorInv'
      BY <1>1, <3>1, <3>2
      DEF VectorInv, VectorsTraced, DoomedInScope, VectorInHand
    <3>4. \A c : /\ Kept(c)' <=> Kept(c)
                 /\ Queued(c)' <=> Queued(c)
      BY <3>1 DEF Kept, EmbeddingKept, SummaryKept, Queued, InQueue,
                  EmbeddingMessage, SummaryMessage
    <3>5. ServiceInv'
      BY <1>1, <3>1, <3>4, ServiceStays
    <3>6. QED
      BY <3>3, <3>5
  <2>5. QED
    BY <2>1, <2>2, <2>3, <2>4 DEF SynthyNext
<1>4. QED
  BY <1>2, <1>3 DEF SynthyInv

\* The three loops together keep the tables, vectors, queues and events in step.
THEOREM SynthyInvariant == SynthySpec => []SynthyInv
<1>1. SynthyInit => SynthyInv
  BY SynthyInvInit
<1>2. SynthyInv /\ [SynthyNext]_synthyVars => SynthyInv'
  BY SynthyInvNext
<1>3. QED
  BY <1>1, <1>2, PTL DEF SynthySpec

\* The tables, the queues and the locals of the three loops have their types.
THEOREM SynthyTypeOKHolds == SynthySpec => []SynthyTypeOK
<1>1. SynthyInv => SynthyTypeOK
  BY DEF SynthyInv, SynthyTypeOK
<1>2. QED
  BY <1>1, SynthyInvariant, PTL

\* chunkAndPublish, handle and the Start loops of the two consumers, dying at
\* any point: no chunk of a requested repository is left without an embedding or
\* a summary and without a message or an event that will bring it.
THEOREM NoForgottenChunkHolds == SynthySpec => []NoForgottenChunk
<1>1. ASSUME SynthyInv PROVE NoForgottenChunk
  <2> SUFFICES ASSUME Requested, NEW c \in DOMAIN chunk
               PROVE  /\ chunk[c].embedding = 0 =>
                           \/ InQueue(c, embeddingQueue) \/ c \in embeddingError
                           \/ Unpublished(c) \/ Covered(c[1])
                      /\ ~ chunk[c].summary =>
                           \/ InQueue(c, summaryQueue) \/ c \in summaryError
                           \/ Unpublished(c) \/ Covered(c[1])
    BY DEF NoForgottenChunk
  <2>1. Kept(c) \/ Unpublished(c) \/ Covered(c[1])
    BY <1>1 DEF SynthyInv, ServiceInv, KeptOrOwed
  <2>2. 0 \notin DOMAIN vector
    BY <1>1 DEF SynthyInv, TypeOK, StorageTypeOK, VectorIds
  <2>3. QED
    BY <2>1, <2>2 DEF Kept, EmbeddingKept, SummaryKept
<1>2. QED
  BY <1>1, SynthyInvariant, PTL

\* deleteVectorsForChunks before DeleteFileByID, against an embedding consumer
\* that rolls its own vectors back: an embedding_id leads to a vector, or its
\* chunk is owed to an event or to a message.
THEOREM NoDanglingEmbeddingHolds == SynthySpec => []NoDanglingEmbedding
<1>1. ASSUME SynthyInv PROVE NoDanglingEmbedding
  <2> SUFFICES ASSUME Requested, NEW c \in DOMAIN chunk,
                      chunk[c].embedding \notin DOMAIN vector \cup {0}
               PROVE  \/ Covered(c[1])
                      \/ c \in embeddingError \/ InQueue(c, embeddingQueue)
    BY DEF NoDanglingEmbedding
  <2>1. Kept(c) \/ Unpublished(c) \/ Covered(c[1])
    BY <1>1 DEF SynthyInv, ServiceInv, KeptOrOwed
  <2>2. ~ Unpublished(c)
    BY <1>1 DEF SynthyInv, ServiceInv, Publishing
  <2>3. QED
    BY <2>1, <2>2 DEF Kept, EmbeddingKept
<1>2. QED
  BY <1>1, SynthyInvariant, PTL

\* Who deletes a chunk, and who a vector.
LEMMA Deletions ==
  ASSUME SynthyNext
  PROVE  /\ DOMAIN chunk \subseteq DOMAIN chunk' \/ DeleteFileRows
         /\ \/ DOMAIN vector \subseteq DOMAIN vector'
            \/ DeleteVectorBatch \/ RollBackVector
<1>1. CASE IndexStep \/ RequestStep
  BY <1>1
  DEF IndexStep, RequestStep, Requests, RequestFullIndex, Push, Worker, Reject,
      Clone, Ack, Fail, Pipeline, UpsertRepository, ListFiles, ReadEmbeddingIds,
      LoadPackages, InsertFile, ExtractSymbols, BuildCallEdges,
      BuildImportEdges, InsertChunk, InsertChunks, PublishChunk, storageVars,
      DeleteVectorBatch, DeleteFileRows
<1>2. CASE EmbeddingStep \/ SummaryStep
  <2>1. DOMAIN chunk' = DOMAIN chunk
    BY <1>2, ConsumersLeave DEF EmbeddingStep, SummaryStep
  <2>2. CASE EmbeddingStep
    BY <2>1, <2>2
    DEF EmbeddingStep, EmbeddingConsumer, GetChunkToEmbed, UpsertEmbeddings,
        UpsertReportsError, UpdateEmbeddingId, UpdateReportsError, AckEmbedding,
        NackEmbedding, UpsertVector, storageVars
  <2>3. CASE SummaryStep
    BY <2>1, <2>3
    DEF SummaryStep, SummaryConsumer, GetChunkToSummarize, UpdateSummary,
        AckSummary, NackSummary, storageVars
  <2>4. QED
    BY <1>2, <2>2, <2>3
<1>3. CASE Panic \/ ProcessCrash \/ ProcessRestart
  BY <1>3
  DEF Panic, ProcessCrash, ProcessRestart, ConsumerPanic, ConsumersCrash,
      ConsumersDie, Restart, storageVars
<1>4. QED
  BY <1>1, <1>2, <1>3 DEF SynthyNext

\* processIncremental discards the files its event names and nothing else, next
\* to two consumers that only ever take back a vector of their own.
THEOREM OthersSparedHolds == SynthySpec => OthersSpared
<1> DEFINE Spared ==
      Working /\ ~ full =>
        /\ \A c \in DOMAIN chunk \ DOMAIN chunk' : Mentions(Event, c[1])
        /\ \A v \in DOMAIN vector \ DOMAIN vector' :
             \/ Mentions(Event, vector[v][1])
             \/ embeddingPc = "rollback" /\ v = vectorId
<1>1. ASSUME SynthyInv, [SynthyNext]_synthyVars PROVE [Spared]_synthyVars
  <2> SUFFICES ASSUME SynthyNext, Working, ~ full
               PROVE  /\ \A c \in DOMAIN chunk \ DOMAIN chunk' :
                           Mentions(Event, c[1])
                      /\ \A v \in DOMAIN vector \ DOMAIN vector' :
                           \/ Mentions(Event, vector[v][1])
                           \/ embeddingPc = "rollback" /\ v = vectorId
    BY <1>1
  <2>1. pc = "vectors" => \A p \in scope : Mentions(Event, p)
    BY <1>1 DEF SynthyInv, FreshnessInv, RowsOfRun, Discarding, Handled
  <2>2. ASSUME NEW c \in DOMAIN chunk \ DOMAIN chunk'
        PROVE  Mentions(Event, c[1])
    <3>1. DeleteFileRows
      BY <2>2, Deletions
    <3>2. pc = "vectors" /\ c[1] \in scope
      BY <2>2, <3>1 DEF DeleteFileRows, DeleteFiles, Restrict
    <3>3. QED
      BY <2>1, <3>2
  <2>3. ASSUME NEW v \in DOMAIN vector \ DOMAIN vector'
        PROVE  \/ Mentions(Event, vector[v][1])
               \/ embeddingPc = "rollback" /\ v = vectorId
    <3>1. CASE DeleteVectorBatch
      <4>1. pc = "vectors" /\ v \in doomed
        BY <2>3, <3>1 DEF DeleteVectorBatch, Batches, DeleteVectors, Restrict
      <4>2. vector[v][1] \in scope
        BY <1>1, <2>3, <4>1 DEF SynthyInv, VectorInv, DoomedInScope
      <4>3. QED
        BY <2>1, <4>1, <4>2
    <3>2. CASE RollBackVector
      BY <2>3, <3>2 DEF RollBackVector, DeleteVectors, Restrict
    <3>3. QED
      BY <2>3, <3>1, <3>2, Deletions
  <2>4. QED
    BY <2>2, <2>3
<1>2. QED
  BY <1>1, SynthyInvariant, PTL DEF SynthySpec, OthersSpared

-----------------------------------------------------------------------------
(* What the index worker promises on its own it keeps beside the consumers. *)

\* Two loops that write columns of the rows it discards, and panics that end a
\* run between any two of its calls, cost the index nothing: stale and half
\* indexed files are owed to an event, no run meets a row of its own, no file is
\* there twice, and an idle, loss-free index has its edges.
THEOREM SynthyKeepsIndex ==
  SynthySpec => [](/\ Freshness /\ GraphFollowsFiles
                   /\ NoPathConflict /\ OneGeneration /\ EdgesComplete)
<1>1. SynthyInv => /\ Freshness /\ GraphFollowsFiles
                   /\ NoPathConflict /\ OneGeneration /\ EdgesComplete
  BY InsertsAreNew, EdgesOfIdle DEF SynthyInv, FreshnessInv, GraphInv
<1>2. QED
  BY <1>1, SynthyInvariant, PTL

\* The whole process implements IndexContract: neither consumer, and no panic
\* in the middle of a run, changes what the index shows of a file that no
\* outstanding event names, or settles a debt.
THEOREM SynthyKeepsContract == SynthySpec => KeepsContract
<1>1. SynthyInit => Contract!Init
  BY ContractInit DEF SynthyInit
<1>2. ASSUME SynthyInv, SynthyInv', [SynthyNext]_synthyVars
      PROVE  [Contract!Next]_(Contract!vars)
  <2>1. TypeOK /\ FreshnessInv /\ FreshnessInv'
    BY <1>2 DEF SynthyInv
  <2>2. CASE [Next]_vars
    BY <2>1, <2>2, ContractNext
  <2>3. CASE EmbeddingStep \/ SummaryStep
    <3>1. UNCHANGED <<events, settled, dead>>
      BY <2>3 DEF EmbeddingStep, SummaryStep, indexVars, queueVars
    <3>2. QED
      BY <2>1, <3>1, ContractRework DEF Contract!Next
  <2>4. CASE UNCHANGED synthyVars
    BY <2>2, <2>4 DEF synthyVars, vars
  <2>5. QED
    BY <1>2, <2>2, <2>3, <2>4, IndexSteps DEF SynthyNext
<1>3. QED
  BY <1>1, <1>2, SynthyInvariant, PTL DEF SynthySpec, KeepsContract, Contract!Spec
=============================================================================
