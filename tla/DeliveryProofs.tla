---------------------------- MODULE DeliveryProofs ----------------------------
(***************************************************************************)
(* Theorems about ChunkDelivery and the queries beside it, for any number   *)
(* of files, vectors, failing calls and crashes: no published chunk loses   *)
(* its message, no chunk a column, none its vector but to a discard whose   *)
(* event is still to be done, a crash leaks one vector at most, and a query *)
(* answers with the code that was matched.                                  *)
(***************************************************************************)
EXTENDS Retrieval, ConsumerProofs, FiniteSetTheorems

-----------------------------------------------------------------------------
(* The invariant.                                                          *)

PublishedChunks == {ChunkOf(p) : p \in published}
BegunChunks == {ChunkOf(p) : p \in target \cup interrupted}

DeliveryTypes ==
  /\ published \cup target \cup interrupted \subseteq Paths
  /\ upserts \in Nat
  /\ DOMAIN chunk \subseteq PublishedChunks \cup BegunChunks
  /\ chunk \in [DOMAIN chunk -> ChunkRow]
  /\ DOMAIN vector \subseteq 1..upserts
  /\ embeddingQueue \in Seq(PublishedChunks)
  /\ summaryQueue \in Seq(PublishedChunks)
  /\ embeddingPc \in {"idle", "embed", "update", "rollback", "nack", "ack"}
  /\ embeddingPc # "idle" => embeddingQueue # <<>>
  /\ summaryPc \in {"idle", "summarize", "ack"}
  /\ summaryPc # "idle" => summaryQueue # <<>>

\* No id stands in two rows, and the next id is new.
OneVectorEach ==
  /\ \A c \in DOMAIN chunk : chunk[c].embedding <= upserts
  /\ \A c, d \in DOMAIN chunk :
       chunk[c].embedding = chunk[d].embedding /\ chunk[c].embedding # 0 => c = d

\* What the embedding consumer has done for the message in its hands.
EmbeddingProgress ==
  /\ embeddingPc = "update" =>
       /\ vectorId \in DOMAIN vector
       /\ vector[vectorId] = EmbeddingMessage
       /\ \A d \in DOMAIN chunk : chunk[d].embedding # vectorId
  /\ embeddingPc = "rollback" =>
       /\ vectorId # 0
       /\ \A d \in DOMAIN chunk :
            chunk[d].embedding = vectorId => d = EmbeddingMessage
  /\ embeddingPc = "ack" /\ EmbeddingMessage \in DOMAIN chunk =>
       /\ chunk[EmbeddingMessage].embedding # 0
       /\ \/ chunk[EmbeddingMessage].embedding \in DOMAIN vector
          \/ InRun(EmbeddingMessage)

\* What the summary consumer has done for its own.
SummaryProgress ==
  summaryPc = "ack" /\ SummaryMessage \in DOMAIN chunk =>
    chunk[SummaryMessage].summary

\* What the indexer has done: a chunk about to be published was never published
\* before, and a vector about to be deleted is of a row about to be deleted.
IndexerProgress ==
  /\ indexPc \in {"idle", "publish", "discard"}
  /\ indexPc = "idle" => target = {}
  /\ indexPc = "publish" => \E p \in Paths \ published : target = {p}
  /\ indexPc # "discard" => doomed = {}
  /\ doomed \subseteq 1..upserts
  /\ \A d \in DOMAIN chunk : chunk[d].embedding \in doomed => d[1] \in target
  /\ embeddingPc = "update" => vectorId \notin doomed

DeliveryInv ==
  /\ DeliveryTypes
  /\ OneVectorEach
  /\ IndexerProgress
  /\ EmbeddingProgress
  /\ SummaryProgress
  /\ EmbeddingIsOwn
  /\ NoLostWork
  /\ NoSilentDangling

\* At the start there are no chunks.
LEMMA DeliveryStarts == Init => DeliveryInv
<1>1. SUFFICES ASSUME Init PROVE DeliveryInv
  OBVIOUS
<1>2. /\ DOMAIN chunk = {} /\ DOMAIN vector = {}
      /\ embeddingQueue = <<>> /\ summaryQueue = <<>>
      /\ embeddingPc = "idle" /\ summaryPc = "idle"
      /\ published = {} /\ upserts = 0
      /\ indexPc = "idle" /\ target = {} /\ doomed = {} /\ interrupted = {}
  BY <1>1 DEF Init, EmptyStorage, ConsumersInit, NoRows
<1>3. chunk \in [DOMAIN chunk -> ChunkRow]
  BY <1>1 DEF Init, EmptyStorage, NoRows
<1>4. embeddingQueue \in Seq(PublishedChunks) /\ summaryQueue \in Seq(PublishedChunks)
  BY <1>2
<1>5. QED
  BY <1>2, <1>3, <1>4
  DEF DeliveryInv, DeliveryTypes, OneVectorEach, IndexerProgress,
      EmbeddingProgress, SummaryProgress, EmbeddingIsOwn, NoLostWork,
      NoSilentDangling

-----------------------------------------------------------------------------
(* The indexer.                                                            *)

\* A chunk is written.
LEMMA DeliveryInsert ==
  ASSUME DeliveryInv, NEW p \in Paths, InsertChunk(p)
  PROVE  DeliveryInv'
<1> DEFINE c == ChunkOf(p)
<1>1. /\ indexPc = "idle" /\ indexPc' = "publish" /\ target' = {p}
      /\ p \notin published \cup interrupted
      /\ UNCHANGED <<vector, embeddingQueue, summaryQueue, embeddingPc, vectorId,
                      summaryPc, embeddingError, summaryError, upserts,
                      published, doomed, interrupted>>
  BY DEF InsertChunk, consumerVars
<1>2. target = {} /\ doomed = {}
  BY <1>1 DEF DeliveryInv, IndexerProgress
<1>3. /\ PublishedChunks' = PublishedChunks
      /\ BegunChunks' = BegunChunks \cup {c}
      /\ c \notin PublishedChunks \cup BegunChunks
      /\ c[1] = p
  BY <1>1, <1>2 DEF PublishedChunks, BegunChunks, ChunkOf
<1>4. /\ DOMAIN chunk' = DOMAIN chunk \cup {c}
      /\ c \notin DOMAIN chunk
      /\ chunk'[c] = NewChunkRow
      /\ \A d \in DOMAIN chunk : chunk'[d] = chunk[d]
      /\ chunk' \in [DOMAIN chunk' -> ChunkRow]
  <2>1. chunk' = [d \in DOMAIN chunk \cup {c} |->
                    IF d \in DOMAIN chunk THEN chunk[d] ELSE NewChunkRow]
    BY DEF InsertChunk, InsertChunks
  <2>2. c \notin DOMAIN chunk /\ chunk \in [DOMAIN chunk -> ChunkRow]
    BY <1>3 DEF DeliveryInv, DeliveryTypes
  <2>3. NewChunkRow \in ChunkRow
    BY DEF NewChunkRow, ChunkRow
  <2>4. QED
    BY <2>1, <2>2, <2>3
<1>5. NewChunkRow.embedding = 0 /\ NewChunkRow.summary = FALSE
  BY DEF NewChunkRow
<1> HIDE DEF c
<1>6. /\ embeddingPc # "idle" => EmbeddingMessage \in PublishedChunks
      /\ summaryPc # "idle" => SummaryMessage \in PublishedChunks
      /\ EmbeddingMessage' = EmbeddingMessage
      /\ SummaryMessage' = SummaryMessage
  BY <1>1, InTail DEF DeliveryInv, DeliveryTypes, EmbeddingMessage,
                      SummaryMessage
<1>7. DeliveryTypes'
  BY <1>1, <1>3, <1>4 DEF DeliveryInv, DeliveryTypes
<1>8. 0 \notin DOMAIN vector /\ upserts \in Nat
  BY DEF DeliveryInv, DeliveryTypes
<1>9. OneVectorEach'
  BY <1>1, <1>4, <1>5, <1>8 DEF DeliveryInv, OneVectorEach
<1>10. IndexerProgress'
  BY <1>1, <1>2 DEF DeliveryInv, IndexerProgress
<1>11. EmbeddingProgress'
  <2>1. embeddingPc = "update" =>
          /\ vectorId \in DOMAIN vector /\ vector[vectorId] = EmbeddingMessage
          /\ \A d \in DOMAIN chunk' : chunk'[d].embedding # vectorId
    BY <1>4, <1>5, <1>8 DEF DeliveryInv, EmbeddingProgress
  <2>2. embeddingPc = "rollback" =>
          /\ vectorId # 0
          /\ \A d \in DOMAIN chunk' :
               chunk'[d].embedding = vectorId => d = EmbeddingMessage
    BY <1>4, <1>5 DEF DeliveryInv, EmbeddingProgress
  <2>3. InRun(EmbeddingMessage) => InRun(EmbeddingMessage)'
    BY <1>1, <1>2, <1>6 DEF InRun
  <2>4. ASSUME embeddingPc = "ack", EmbeddingMessage \in DOMAIN chunk'
        PROVE  /\ chunk'[EmbeddingMessage].embedding # 0
               /\ \/ chunk'[EmbeddingMessage].embedding \in DOMAIN vector
                  \/ InRun(EmbeddingMessage)'
    <3>1. EmbeddingMessage \in DOMAIN chunk
      BY <1>3, <1>4, <1>6, <2>4
    <3>2. QED
      BY <1>4, <2>3, <2>4, <3>1 DEF DeliveryInv, EmbeddingProgress
  <2>5. QED
    BY <1>1, <1>6, <2>1, <2>2, <2>4 DEF EmbeddingProgress
<1>12. SummaryProgress'
  BY <1>1, <1>3, <1>4, <1>6 DEF DeliveryInv, SummaryProgress
<1>13. \A d : InRun(d) => InRun(d)'
  BY <1>1, <1>2 DEF InRun
<1>14. EmbeddingIsOwn' /\ NoSilentDangling'
  BY <1>1, <1>4, <1>5, <1>8, <1>13
  DEF DeliveryInv, EmbeddingIsOwn, NoSilentDangling
<1>15. NoLostWork'
  <2>1. c[1] \notin published /\ InRun(c)'
    BY <1>1, <1>3 DEF InRun
  <2>2. QED
    BY <1>1, <1>4, <1>13, <2>1 DEF DeliveryInv, NoLostWork
<1>16. QED
  BY <1>7, <1>9, <1>10, <1>11, <1>12, <1>14, <1>15 DEF DeliveryInv

\* Its message is published.
LEMMA DeliveryPublish ==
  ASSUME DeliveryInv, PublishChunk
  PROVE  DeliveryInv'
<1>1. PICK p \in Paths : target = {p} /\ p \notin published
  BY DEF PublishChunk, DeliveryInv, IndexerProgress
<1> DEFINE c == ChunkOf(p)
<1>2. /\ published' = published \cup {p}
      /\ indexPc' = "idle" /\ target' = {} /\ doomed' = {}
      /\ embeddingQueue' = Append(embeddingQueue, c)
      /\ summaryQueue' = Append(summaryQueue, c)
      /\ UNCHANGED <<chunk, vector, embeddingPc, vectorId, summaryPc,
                      embeddingError, summaryError, upserts, interrupted>>
  BY <1>1 DEF PublishChunk, PublishEmbedding, IndexerIdle, consumerVars
<1>3. /\ PublishedChunks' = PublishedChunks \cup {c}
      /\ BegunChunks \subseteq BegunChunks' \cup {c}
  BY <1>1, <1>2 DEF PublishedChunks, BegunChunks
<1>4. \A d \in DOMAIN chunk : InRun(d) => InRun(d)' \/ d = c
  BY <1>1, <1>2 DEF InRun, ChunkOf, DeliveryInv, DeliveryTypes,
                    PublishedChunks, BegunChunks
<1>5. \A d \in DOMAIN chunk : d[1] = p => d = c
  BY DEF ChunkOf, DeliveryInv, DeliveryTypes, PublishedChunks, BegunChunks
<1> HIDE DEF c
<1>6. /\ embeddingQueue \in Seq(PublishedChunks')
      /\ summaryQueue \in Seq(PublishedChunks')
      /\ c \in PublishedChunks'
  BY <1>3 DEF DeliveryInv, DeliveryTypes
<1>7. /\ embeddingQueue' \in Seq(PublishedChunks') /\ embeddingQueue' # <<>>
      /\ InQueue(c, embeddingQueue')
      /\ \A d : InQueue(d, embeddingQueue) => InQueue(d, embeddingQueue')
      /\ embeddingQueue # <<>> => Head(embeddingQueue') = Head(embeddingQueue)
  BY <1>2, <1>6, InAppended
<1>8. /\ summaryQueue' \in Seq(PublishedChunks') /\ summaryQueue' # <<>>
      /\ InQueue(c, summaryQueue')
      /\ \A d : InQueue(d, summaryQueue) => InQueue(d, summaryQueue')
      /\ summaryQueue # <<>> => Head(summaryQueue') = Head(summaryQueue)
  BY <1>2, <1>6, InAppended
<1>9. embeddingPc # "idle" =>
        EmbeddingMessage' = EmbeddingMessage /\ EmbeddingMessage \in PublishedChunks
  BY <1>7, InTail DEF DeliveryInv, DeliveryTypes, EmbeddingMessage
<1>10. summaryPc # "idle" => SummaryMessage' = SummaryMessage
  BY <1>8 DEF DeliveryInv, DeliveryTypes, SummaryMessage
<1>11. c \notin PublishedChunks
  BY <1>1 DEF c, PublishedChunks, ChunkOf
<1>12. DeliveryTypes'
  BY <1>2, <1>3, <1>7, <1>8 DEF DeliveryInv, DeliveryTypes
<1>13. OneVectorEach' /\ EmbeddingIsOwn'
  BY <1>2 DEF DeliveryInv, OneVectorEach, EmbeddingIsOwn
<1>14. IndexerProgress'
  BY <1>2 DEF DeliveryInv, IndexerProgress
<1>15. EmbeddingProgress'
  <2>1. embeddingPc = "ack" /\ EmbeddingMessage \in DOMAIN chunk =>
          (InRun(EmbeddingMessage) => InRun(EmbeddingMessage)')
    <3> HAVE embeddingPc = "ack" /\ EmbeddingMessage \in DOMAIN chunk
    <3>1. EmbeddingMessage # c /\ EmbeddingMessage' = EmbeddingMessage
      BY <1>9, <1>11
    <3>2. EmbeddingMessage[1] # p
      BY <1>5, <3>1
    <3>3. QED
      BY <1>1, <1>2, <3>1, <3>2 DEF InRun
  <2>2. QED
    BY <1>2, <1>9, <2>1 DEF DeliveryInv, EmbeddingProgress
<1>16. SummaryProgress'
  BY <1>2, <1>10 DEF DeliveryInv, SummaryProgress
<1>17. NoSilentDangling'
  BY <1>2, <1>4, <1>7 DEF DeliveryInv, NoSilentDangling
<1>18. NoLostWork'
  <2>1. \A d \in DOMAIN chunk :
          d[1] \notin published /\ InRun(d) =>
            d = c \/ (d[1] \notin published' /\ InRun(d)')
    BY <1>2, <1>4, <1>5
  <2>2. QED
    BY <1>2, <1>7, <1>8, <2>1 DEF DeliveryInv, NoLostWork
<1>19. QED
  BY <1>12, <1>13, <1>14, <1>15, <1>16, <1>17, <1>18 DEF DeliveryInv

\* The ids are read: whatever they are, they are of the rows to be deleted.
LEMMA DeliveryReadIds ==
  ASSUME DeliveryInv, NEW S \in SUBSET Paths, ReadEmbeddingIds(S)
  PROVE  DeliveryInv'
<1>1. /\ indexPc = "idle" /\ indexPc' = "discard" /\ target' = S
      /\ doomed' = EmbeddingIdsOf(S)
      /\ \A p \in S : ChunkOf(p) \in DOMAIN chunk
      /\ UNCHANGED <<chunk, vector, embeddingQueue, summaryQueue, embeddingPc,
                      vectorId, summaryPc, embeddingError, summaryError, upserts,
                      published, interrupted>>
  BY DEF ReadEmbeddingIds, storageVars, consumerVars
<1>2. target = {}
  BY <1>1 DEF DeliveryInv, IndexerProgress
<1>3. PublishedChunks' = PublishedChunks /\ BegunChunks \subseteq BegunChunks'
  BY <1>1, <1>2 DEF PublishedChunks, BegunChunks
<1>4. EmbeddingMessage' = EmbeddingMessage /\ SummaryMessage' = SummaryMessage
  BY <1>1 DEF EmbeddingMessage, SummaryMessage
<1>5. DeliveryTypes'
  BY <1>1, <1>3 DEF DeliveryInv, DeliveryTypes
<1>6. OneVectorEach' /\ EmbeddingIsOwn'
  BY <1>1 DEF DeliveryInv, OneVectorEach, EmbeddingIsOwn
<1>7. doomed' \subseteq 1..upserts
  <2>1. \A d \in DOMAIN chunk : chunk[d].embedding \in Nat
    BY DEF DeliveryInv, DeliveryTypes, ChunkRow
  <2>2. QED
    BY <1>1, <2>1
    DEF EmbeddingIdsOf, DeliveryInv, DeliveryTypes, OneVectorEach
<1>8. \A d \in DOMAIN chunk : chunk[d].embedding \in doomed' => d[1] \in S
  BY <1>1 DEF EmbeddingIdsOf, DeliveryInv, OneVectorEach
<1>9. embeddingPc = "update" => vectorId \notin doomed'
  BY <1>1 DEF EmbeddingIdsOf, DeliveryInv, EmbeddingProgress
<1>10. IndexerProgress'
  BY <1>1, <1>7, <1>8, <1>9 DEF IndexerProgress
<1>11. \A d : InRun(d) => InRun(d)'
  BY <1>1, <1>2 DEF InRun
<1>12. EmbeddingProgress'
  <2>1. InRun(EmbeddingMessage) => InRun(EmbeddingMessage)'
    BY <1>1, <1>2, <1>4 DEF InRun
  <2>2. QED
    BY <1>1, <1>4, <2>1 DEF DeliveryInv, EmbeddingProgress
<1>13. SummaryProgress'
  BY <1>1, <1>4 DEF DeliveryInv, SummaryProgress
<1>14. NoLostWork' /\ NoSilentDangling'
  BY <1>1, <1>11 DEF DeliveryInv, NoLostWork, NoSilentDangling
<1>15. QED
  BY <1>5, <1>6, <1>10, <1>12, <1>13, <1>14 DEF DeliveryInv

\* A batch of vectors is deleted: from here on their rows name nothing.
LEMMA DeliveryDeleteBatch ==
  ASSUME DeliveryInv, DeleteVectorBatch
  PROVE  DeliveryInv'
<1>1. PICK batch \in SUBSET doomed :
        DeleteVectors(batch) /\ doomed' = doomed \ batch
  BY DEF DeleteVectorBatch
<1>2. /\ indexPc = "discard"
      /\ UNCHANGED <<chunk, embeddingQueue, summaryQueue, embeddingPc, vectorId,
                      summaryPc, embeddingError, summaryError, upserts,
                      published, indexPc, target, interrupted>>
  BY DEF DeleteVectorBatch, consumerVars
<1>3. /\ DOMAIN vector' = DOMAIN vector \ batch
      /\ \A v \in DOMAIN vector' : vector'[v] = vector[v]
  BY <1>1 DEF DeleteVectors, Restrict
<1>4. \A d \in DOMAIN chunk : chunk[d].embedding \in batch => InRun(d)
  BY <1>1 DEF DeliveryInv, IndexerProgress, InRun
<1>5. /\ PublishedChunks' = PublishedChunks /\ BegunChunks' = BegunChunks
      /\ EmbeddingMessage' = EmbeddingMessage /\ SummaryMessage' = SummaryMessage
  BY <1>2 DEF PublishedChunks, BegunChunks, EmbeddingMessage, SummaryMessage
<1>6. DeliveryTypes'
  BY <1>2, <1>3, <1>5 DEF DeliveryInv, DeliveryTypes
<1>7. OneVectorEach'
  BY <1>2 DEF DeliveryInv, OneVectorEach
<1>8. EmbeddingIsOwn'
  BY <1>2, <1>3 DEF DeliveryInv, EmbeddingIsOwn
<1>9. IndexerProgress'
  BY <1>1, <1>2 DEF DeliveryInv, IndexerProgress
<1>10. \A d : InRun(d)' <=> InRun(d)
  BY <1>2 DEF InRun
<1>11. EmbeddingProgress'
  <2>1. InRun(EmbeddingMessage)' <=> InRun(EmbeddingMessage)
    BY <1>2, <1>5 DEF InRun
  <2>2. embeddingPc = "update" => vectorId \notin batch
    BY <1>1 DEF DeliveryInv, IndexerProgress
  <2>3. QED
    BY <1>2, <1>3, <1>4, <1>5, <2>1, <2>2 DEF DeliveryInv, EmbeddingProgress
<1>12. SummaryProgress'
  BY <1>2, <1>5 DEF DeliveryInv, SummaryProgress
<1>13. NoLostWork'
  BY <1>2, <1>10 DEF DeliveryInv, NoLostWork
<1>14. NoSilentDangling'
  BY <1>2, <1>3, <1>4, <1>10 DEF DeliveryInv, NoSilentDangling
<1>15. QED
  BY <1>6, <1>7, <1>8, <1>9, <1>11, <1>12, <1>13, <1>14 DEF DeliveryInv

\* The rows are deleted, under the consumers' hands.
LEMMA DeliveryDeleteRows ==
  ASSUME DeliveryInv, DeleteRows
  PROVE  DeliveryInv'
<1>1. /\ indexPc' = "idle" /\ target' = {} /\ doomed' = {} /\ doomed = {}
      /\ UNCHANGED <<vector, embeddingQueue, summaryQueue, embeddingPc, vectorId,
                      summaryPc, embeddingError, summaryError, upserts,
                      published, interrupted>>
  BY DEF DeleteRows, IndexerIdle, consumerVars
<1>2. /\ DOMAIN chunk' = {c \in DOMAIN chunk : c[1] \notin target}
      /\ \A c \in DOMAIN chunk' : chunk'[c] = chunk[c]
      /\ chunk' = [c \in DOMAIN chunk' |-> chunk[c]]
  BY DEF DeleteRows, DeleteFiles, Restrict
<1>3. EmbeddingMessage' = EmbeddingMessage /\ SummaryMessage' = SummaryMessage
  BY <1>1 DEF EmbeddingMessage, SummaryMessage
<1>4. DeliveryTypes'
  <2>1. DOMAIN chunk' \subseteq PublishedChunks' \cup BegunChunks'
    BY <1>1, <1>2
    DEF DeliveryInv, DeliveryTypes, PublishedChunks, BegunChunks, ChunkOf
  <2>2. QED
    BY <1>1, <1>2, <2>1 DEF DeliveryInv, DeliveryTypes, PublishedChunks
<1>5. OneVectorEach' /\ EmbeddingIsOwn'
  BY <1>1, <1>2 DEF DeliveryInv, OneVectorEach, EmbeddingIsOwn
<1>6. IndexerProgress'
  BY <1>1 DEF DeliveryInv, IndexerProgress
<1>7. \A c \in DOMAIN chunk' : InRun(c) => InRun(c)'
  BY <1>1, <1>2 DEF InRun
<1>8. EmbeddingProgress'
  <2>1. EmbeddingMessage \in DOMAIN chunk' =>
          (InRun(EmbeddingMessage) => InRun(EmbeddingMessage)')
    BY <1>1, <1>2, <1>3 DEF InRun
  <2>2. QED
    BY <1>1, <1>2, <1>3, <2>1 DEF DeliveryInv, EmbeddingProgress
<1>9. SummaryProgress'
  BY <1>1, <1>2, <1>3 DEF DeliveryInv, SummaryProgress
<1>10. NoLostWork' /\ NoSilentDangling'
  BY <1>1, <1>2, <1>7 DEF DeliveryInv, NoLostWork, NoSilentDangling
<1>11. QED
  BY <1>4, <1>5, <1>6, <1>8, <1>9, <1>10 DEF DeliveryInv

-----------------------------------------------------------------------------
(* What the statements and the queues do, as the consumers use them.       *)

\* An upsert adds one vector under an id that was never used.
LEMMA NewVector ==
  ASSUME DeliveryInv, upserts' = upserts + 1,
         UpsertVector(upserts + 1, EmbeddingMessage)
  PROVE  /\ upserts \in Nat
         /\ DOMAIN vector' = DOMAIN vector \cup {upserts + 1}
         /\ upserts + 1 \notin DOMAIN vector
         /\ vector'[upserts + 1] = EmbeddingMessage
         /\ \A v \in DOMAIN vector : vector'[v] = vector[v]
         /\ DOMAIN vector' \subseteq 1..(upserts')
         /\ \A d \in DOMAIN chunk : chunk[d].embedding # upserts + 1
         /\ \A d \in DOMAIN chunk : chunk[d].embedding <= upserts'
<1>1. /\ upserts \in Nat /\ DOMAIN vector \subseteq 1..upserts
      /\ chunk \in [DOMAIN chunk -> ChunkRow]
      /\ \A d \in DOMAIN chunk : chunk[d].embedding <= upserts
  BY DEF DeliveryInv, DeliveryTypes, OneVectorEach
<1>2. \A d \in DOMAIN chunk : chunk[d].embedding \in Nat
  BY <1>1 DEF ChunkRow
<1>3. /\ DOMAIN vector' = DOMAIN vector \cup {upserts + 1}
      /\ \A v \in DOMAIN vector' :
           vector'[v] = IF v = upserts + 1 THEN EmbeddingMessage ELSE vector[v]
  BY DEF UpsertVector
<1>4. upserts + 1 \notin DOMAIN vector
  BY <1>1
<1>5. QED
  BY <1>1, <1>2, <1>3, <1>4

\* A step that changes where a consumer is or ends a run, and nothing that is
\* stored.
LEMMA DeliveryMoves ==
  ASSUME DeliveryInv,
         UNCHANGED <<chunk, vector, embeddingQueue, summaryQueue,
                     embeddingError, summaryError, upserts, published>>,
         RunEnds \/ UNCHANGED indexerVars,
         embeddingPc' \in {"idle", "embed"} \/ UNCHANGED embeddingVars,
         embeddingPc' # "idle" => embeddingQueue # <<>>,
         summaryPc' \in {"idle", "summarize"} \/ UNCHANGED summaryPc,
         summaryPc' # "idle" => summaryQueue # <<>>
  PROVE  DeliveryInv'
<1>1. /\ target' \cup interrupted' = target \cup interrupted
      /\ \/ UNCHANGED <<indexPc, target, doomed>>
         \/ indexPc' = "idle" /\ target' = {} /\ doomed' = {}
  BY DEF RunEnds, IndexerIdle, indexerVars
<1>2. /\ PublishedChunks' = PublishedChunks /\ BegunChunks' = BegunChunks
      /\ EmbeddingMessage' = EmbeddingMessage /\ SummaryMessage' = SummaryMessage
  BY <1>1 DEF PublishedChunks, BegunChunks, EmbeddingMessage, SummaryMessage
<1>3. \A c : InRun(c)' <=> InRun(c)
  BY <1>1 DEF InRun
<1>4. DeliveryTypes'
  BY <1>1, <1>2 DEF DeliveryInv, DeliveryTypes, embeddingVars
<1>5. OneVectorEach' /\ EmbeddingIsOwn' /\ NoLostWork' /\ NoSilentDangling'
  BY <1>3 DEF DeliveryInv, OneVectorEach, EmbeddingIsOwn, NoLostWork,
              NoSilentDangling
<1>6. IndexerProgress'
  BY <1>1 DEF DeliveryInv, IndexerProgress, embeddingVars
<1>7. EmbeddingProgress'
  <2>1. InRun(EmbeddingMessage)' <=> InRun(EmbeddingMessage)
    BY <1>1, <1>2 DEF InRun
  <2>2. QED
    BY <1>2, <2>1 DEF DeliveryInv, EmbeddingProgress, embeddingVars
<1>8. SummaryProgress'
  BY <1>2 DEF DeliveryInv, SummaryProgress
<1>9. QED
  BY <1>4, <1>5, <1>6, <1>7, <1>8 DEF DeliveryInv

-----------------------------------------------------------------------------
(* The embedding consumer.                                                 *)

\* An upsert, whether or not the call is told that it succeeded.
LEMMA DeliveryUpsert ==
  ASSUME DeliveryInv, UNCHANGED indexerVars,
         UpsertEmbeddings \/ UpsertReportsError
  PROVE  DeliveryInv'
<1>0. /\ UNCHANGED <<published, indexPc, target, doomed, interrupted>>
      /\ PublishedChunks' = PublishedChunks /\ BegunChunks' = BegunChunks
      /\ \A c : InRun(c)' <=> InRun(c)
  BY DEF indexerVars, PublishedChunks, BegunChunks, InRun
<1>1. /\ embeddingPc = "embed"
      /\ upserts' = upserts + 1
      /\ UpsertVector(upserts + 1, EmbeddingMessage)
      /\ \/ embeddingPc' = "update" /\ vectorId' = upserts + 1
         \/ embeddingPc' = "nack"
      /\ UNCHANGED <<chunk, embeddingQueue, summaryQueue, summaryPc,
                      embeddingError, summaryError>>
  <2>1. CASE UpsertEmbeddings
    BY <2>1 DEF UpsertEmbeddings
  <2>2. CASE UpsertReportsError
    BY <2>2 DEF UpsertReportsError
  <2>3. QED
    BY <2>1, <2>2
<1>2. /\ upserts \in Nat
      /\ DOMAIN vector' = DOMAIN vector \cup {upserts + 1}
      /\ upserts + 1 \notin DOMAIN vector
      /\ vector'[upserts + 1] = EmbeddingMessage
      /\ \A v \in DOMAIN vector : vector'[v] = vector[v]
      /\ DOMAIN vector' \subseteq 1..(upserts')
      /\ \A d \in DOMAIN chunk : chunk[d].embedding # upserts + 1
      /\ \A d \in DOMAIN chunk : chunk[d].embedding <= upserts'
  BY <1>1, NewVector
<1>3. EmbeddingMessage' = EmbeddingMessage
      /\ SummaryMessage' = SummaryMessage
  BY <1>1 DEF EmbeddingMessage, SummaryMessage
<1>4. DeliveryTypes'
  BY <1>0, <1>1, <1>2, <1>3 DEF DeliveryInv, DeliveryTypes
<1>5. OneVectorEach'
  BY <1>1, <1>2 DEF DeliveryInv, OneVectorEach
<1>6. EmbeddingProgress'
  BY <1>0, <1>1, <1>2, <1>3 DEF EmbeddingProgress
<1>7. SummaryProgress' /\ NoLostWork'
  BY <1>0, <1>1, <1>3 DEF DeliveryInv, SummaryProgress, NoLostWork
<1>8. EmbeddingIsOwn' /\ NoSilentDangling'
  BY <1>0, <1>1, <1>2 DEF DeliveryInv, EmbeddingIsOwn, NoSilentDangling
<1>9. IndexerProgress'
  BY <1>0, <1>1, <1>2 DEF DeliveryInv, IndexerProgress
<1>10. QED
  BY <1>4, <1>5, <1>6, <1>7, <1>8, <1>9 DEF DeliveryInv

\* The row is told the id of the vector just written for it - or the statement
\* reports an error, applied or not.
LEMMA DeliveryUpdate ==
  ASSUME DeliveryInv, UNCHANGED indexerVars,
         UpdateEmbeddingId \/ UpdateReportsError
  PROVE  DeliveryInv'
<1>0. /\ UNCHANGED <<published, indexPc, target, doomed, interrupted>>
      /\ PublishedChunks' = PublishedChunks /\ BegunChunks' = BegunChunks
      /\ \A c : InRun(c)' <=> InRun(c)
  BY DEF indexerVars, PublishedChunks, BegunChunks, InRun
<1>1. /\ embeddingPc = "update"
      /\ \/ SetEmbedding(EmbeddingMessage, vectorId) /\ embeddingPc' = "ack"
         \/ SetEmbedding(EmbeddingMessage, vectorId) /\ embeddingPc' = "rollback"
         \/ UNCHANGED chunk /\ embeddingPc' = "rollback"
      /\ UNCHANGED <<vector, embeddingQueue, summaryQueue, vectorId, summaryPc,
                      embeddingError, summaryError, upserts>>
  <2>1. CASE UpdateEmbeddingId
    BY <2>1 DEF UpdateEmbeddingId
  <2>2. CASE UpdateReportsError
    BY <2>2 DEF UpdateReportsError
  <2>3. QED
    BY <2>1, <2>2
<1>2. /\ vectorId \in DOMAIN vector
      /\ vectorId \in 1..upserts
      /\ upserts \in Nat
      /\ vector[vectorId] = EmbeddingMessage
      /\ \A d \in DOMAIN chunk : chunk[d].embedding # vectorId
  BY <1>1 DEF DeliveryInv, DeliveryTypes, EmbeddingProgress
<1>3. /\ DOMAIN chunk' = DOMAIN chunk
      /\ chunk' \in [DOMAIN chunk' -> ChunkRow]
      /\ \A d \in DOMAIN chunk : chunk'[d].summary = chunk[d].summary
      /\ \A d \in DOMAIN chunk :
           d # EmbeddingMessage => chunk'[d].embedding = chunk[d].embedding
      /\ EmbeddingMessage \in DOMAIN chunk =>
           \/ chunk'[EmbeddingMessage].embedding = vectorId
           \/ /\ embeddingPc' = "rollback"
              /\ chunk'[EmbeddingMessage].embedding =
                   chunk[EmbeddingMessage].embedding
  <2>1. DeliveryTypes /\ vectorId \in Nat
    BY <1>2 DEF DeliveryInv
  <2>2. CASE SetEmbedding(EmbeddingMessage, vectorId)
    BY <2>1, <2>2, EmbeddingColumn DEF DeliveryTypes
  <2>3. CASE UNCHANGED chunk /\ embeddingPc' = "rollback"
    BY <2>1, <2>3 DEF DeliveryTypes
  <2>4. QED
    BY <1>1, <2>2, <2>3
<1>4. EmbeddingMessage' = EmbeddingMessage
      /\ SummaryMessage' = SummaryMessage
  BY <1>1 DEF EmbeddingMessage, SummaryMessage
<1>5. InQueue(EmbeddingMessage, embeddingQueue)
  BY <1>1, InTail DEF DeliveryInv, DeliveryTypes, EmbeddingMessage
<1>6. DeliveryTypes'
  BY <1>0, <1>1, <1>3, <1>4 DEF DeliveryInv, DeliveryTypes
<1>7. OneVectorEach'
  BY <1>1, <1>2, <1>3 DEF DeliveryInv, OneVectorEach
<1>8. EmbeddingProgress'
  <2>1. CASE embeddingPc' = "ack"
    BY <1>1, <1>2, <1>3, <1>4, <2>1 DEF EmbeddingProgress
  <2>2. CASE embeddingPc' = "rollback"
    <3>1. vectorId # 0
      BY <1>2
    <3>2. QED
      BY <1>1, <1>2, <1>3, <1>4, <2>2, <3>1 DEF EmbeddingProgress
  <2>3. QED
    BY <1>1, <2>1, <2>2
<1>9. SummaryProgress'
  BY <1>1, <1>3, <1>4 DEF DeliveryInv, SummaryProgress
<1>10. EmbeddingIsOwn'
  BY <1>1, <1>2, <1>3 DEF DeliveryInv, EmbeddingIsOwn
<1>11. NoLostWork'
  BY <1>0, <1>1, <1>3, <1>5 DEF DeliveryInv, NoLostWork
<1>12. NoSilentDangling'
  BY <1>0, <1>1, <1>3, <1>5 DEF DeliveryInv, NoSilentDangling
<1>13. IndexerProgress'
  BY <1>0, <1>1, <1>3 DEF DeliveryInv, IndexerProgress
<1>14. QED
  BY <1>6, <1>7, <1>8, <1>9, <1>10, <1>11, <1>12, <1>13 DEF DeliveryInv

\* The vector of a failed update is dropped, or stays.
LEMMA DeliveryRollBack ==
  ASSUME DeliveryInv, UNCHANGED indexerVars, RollBackVector
  PROVE  DeliveryInv'
<1>0. /\ UNCHANGED <<published, indexPc, target, doomed, interrupted>>
      /\ PublishedChunks' = PublishedChunks /\ BegunChunks' = BegunChunks
      /\ \A c : InRun(c)' <=> InRun(c)
  BY DEF indexerVars, PublishedChunks, BegunChunks, InRun
<1>1. /\ embeddingPc = "rollback" /\ embeddingPc' = "nack"
      /\ DeleteVectors({vectorId}) \/ UNCHANGED vector
      /\ UNCHANGED <<chunk, embeddingQueue, summaryQueue, vectorId, summaryPc,
                      embeddingError, summaryError, upserts>>
  BY DEF RollBackVector
<1>2. /\ DOMAIN vector' \subseteq DOMAIN vector
      /\ DOMAIN vector \ {vectorId} \subseteq DOMAIN vector'
      /\ \A v \in DOMAIN vector' : vector'[v] = vector[v]
  BY <1>1 DEF DeleteVectors, Restrict
<1>3. SummaryMessage' = SummaryMessage
  BY <1>1 DEF SummaryMessage
<1>4. InQueue(EmbeddingMessage, embeddingQueue)
  BY <1>1, InTail DEF DeliveryInv, DeliveryTypes, EmbeddingMessage
<1>5. \A d \in DOMAIN chunk :
        chunk[d].embedding = vectorId => d = EmbeddingMessage
  BY <1>1 DEF DeliveryInv, EmbeddingProgress
<1>6. DeliveryTypes'
  BY <1>0, <1>1, <1>2, <1>3 DEF DeliveryInv, DeliveryTypes
<1>7. OneVectorEach' /\ SummaryProgress' /\ NoLostWork'
  BY <1>0, <1>1, <1>3
  DEF DeliveryInv, OneVectorEach, SummaryProgress, NoLostWork
<1>8. EmbeddingProgress'
  BY <1>0, <1>1 DEF EmbeddingProgress
<1>9. EmbeddingIsOwn'
  BY <1>1, <1>2 DEF DeliveryInv, EmbeddingIsOwn
<1>10. NoSilentDangling'
  BY <1>0, <1>1, <1>2, <1>4, <1>5 DEF DeliveryInv, NoSilentDangling
<1>11. IndexerProgress'
  BY <1>0, <1>1 DEF DeliveryInv, IndexerProgress
<1>12. QED
  BY <1>6, <1>7, <1>8, <1>9, <1>10, <1>11 DEF DeliveryInv

\* A message leaves the queue, acked or parked.
LEMMA DeliverySettle ==
  ASSUME DeliveryInv, UNCHANGED indexerVars, AckEmbedding \/ NackEmbedding
  PROVE  DeliveryInv'
<1>0. /\ UNCHANGED <<published, indexPc, target, doomed, interrupted>>
      /\ PublishedChunks' = PublishedChunks /\ BegunChunks' = BegunChunks
      /\ \A c : InRun(c)' <=> InRun(c)
  BY DEF indexerVars, PublishedChunks, BegunChunks, InRun
<1>1. /\ embeddingQueue # <<>>
      /\ embeddingQueue' = Tail(embeddingQueue)
      /\ embeddingPc' = "idle"
      /\ embeddingError \subseteq embeddingError'
      /\ UNCHANGED <<chunk, vector, summaryQueue, summaryPc, summaryError,
                      upserts>>
  <2>1. CASE AckEmbedding
    BY <2>1 DEF AckEmbedding, DeliveryInv, DeliveryTypes
  <2>2. CASE NackEmbedding
    BY <2>2 DEF NackEmbedding, EmbeddingCallFailed, DeliveryInv, DeliveryTypes
  <2>3. QED
    BY <2>1, <2>2
<1>2. EmbeddingMessage \in DOMAIN chunk =>
        \/ EmbeddingMessage \in embeddingError'
        \/ /\ chunk[EmbeddingMessage].embedding # 0
           /\ \/ chunk[EmbeddingMessage].embedding \in DOMAIN vector
              \/ InRun(EmbeddingMessage)
  <2>1. CASE AckEmbedding
    BY <2>1 DEF AckEmbedding, DeliveryInv, EmbeddingProgress
  <2>2. CASE NackEmbedding
    BY <2>2 DEF NackEmbedding
  <2>3. QED
    BY <2>1, <2>2
<1>3. /\ embeddingQueue' \in Seq(PublishedChunks)
      /\ \A c : InQueue(c, embeddingQueue) =>
           c = EmbeddingMessage \/ InQueue(c, embeddingQueue')
  BY <1>1, InTail DEF DeliveryInv, DeliveryTypes, EmbeddingMessage
<1>4. SummaryMessage' = SummaryMessage
  BY <1>1 DEF SummaryMessage
<1>5. DeliveryTypes'
  BY <1>0, <1>1, <1>3, <1>4 DEF DeliveryInv, DeliveryTypes
<1>6. OneVectorEach' /\ SummaryProgress' /\ EmbeddingIsOwn'
  BY <1>1, <1>4
  DEF DeliveryInv, OneVectorEach, SummaryProgress, EmbeddingIsOwn
<1>7. EmbeddingProgress'
  BY <1>0, <1>1 DEF EmbeddingProgress
<1>8. 0 \notin DOMAIN vector
  BY DEF DeliveryInv, DeliveryTypes
<1>9. NoLostWork'
  BY <1>0, <1>1, <1>2, <1>3, <1>8 DEF DeliveryInv, NoLostWork
<1>10. NoSilentDangling'
  BY <1>0, <1>1, <1>2, <1>3 DEF DeliveryInv, NoSilentDangling
<1>11. IndexerProgress'
  BY <1>0, <1>1 DEF DeliveryInv, IndexerProgress
<1>12. QED
  BY <1>5, <1>6, <1>7, <1>9, <1>10, <1>11 DEF DeliveryInv

\* Every step of the embedding consumer.
LEMMA DeliveryEmbedding ==
  ASSUME DeliveryInv, UNCHANGED indexerVars, EmbeddingConsumer
  PROVE  DeliveryInv'
<1>1. CASE GetChunkToEmbed
  <2>1. /\ UNCHANGED <<chunk, vector, embeddingQueue, summaryQueue,
                        embeddingError, summaryError, upserts, summaryPc,
                        published>>
        /\ embeddingPc' = "embed" /\ embeddingQueue # <<>>
    BY <1>1 DEF GetChunkToEmbed, storageVars, indexerVars
  <2>2. summaryPc' # "idle" => summaryQueue # <<>>
    BY <2>1 DEF DeliveryInv, DeliveryTypes
  <2>3. QED
    BY <2>1, <2>2, DeliveryMoves
<1>2. CASE UpsertEmbeddings \/ UpsertReportsError
  BY <1>2, DeliveryUpsert
<1>3. CASE UpdateEmbeddingId \/ UpdateReportsError
  BY <1>3, DeliveryUpdate
<1>4. CASE RollBackVector
  BY <1>4, DeliveryRollBack
<1>5. CASE AckEmbedding \/ NackEmbedding
  BY <1>5, DeliverySettle
<1>6. QED
  BY <1>1, <1>2, <1>3, <1>4, <1>5 DEF EmbeddingConsumer

-----------------------------------------------------------------------------
(* The summary consumer.                                                   *)

\* The row is told its summary.
LEMMA DeliverySummarize ==
  ASSUME DeliveryInv, UNCHANGED indexerVars, UpdateSummary
  PROVE  DeliveryInv'
<1>0. /\ UNCHANGED <<published, indexPc, target, doomed, interrupted>>
      /\ PublishedChunks' = PublishedChunks /\ BegunChunks' = BegunChunks
      /\ \A c : InRun(c)' <=> InRun(c)
  BY DEF indexerVars, PublishedChunks, BegunChunks, InRun
<1>1. /\ summaryPc = "summarize" /\ summaryPc' = "ack"
      /\ SetSummary(SummaryMessage)
      /\ UNCHANGED <<vector, embeddingQueue, summaryQueue, embeddingPc,
                      vectorId, embeddingError, summaryError, upserts>>
  BY DEF UpdateSummary, embeddingVars
<1>2. /\ DOMAIN chunk' = DOMAIN chunk
      /\ chunk' \in [DOMAIN chunk' -> ChunkRow]
      /\ \A d \in DOMAIN chunk :
           /\ chunk'[d].summary = (d = SummaryMessage \/ chunk[d].summary)
           /\ chunk'[d].embedding = chunk[d].embedding
  BY <1>1, SummaryColumn DEF DeliveryInv, DeliveryTypes
<1>3. EmbeddingMessage' = EmbeddingMessage
      /\ SummaryMessage' = SummaryMessage
  BY <1>1 DEF EmbeddingMessage, SummaryMessage
<1>4. DeliveryTypes'
  BY <1>0, <1>1, <1>2, <1>3 DEF DeliveryInv, DeliveryTypes
<1>5. OneVectorEach' /\ EmbeddingIsOwn'
  BY <1>1, <1>2 DEF DeliveryInv, OneVectorEach, EmbeddingIsOwn
<1>6. EmbeddingProgress'
  BY <1>0, <1>1, <1>2, <1>3 DEF DeliveryInv, EmbeddingProgress, InRun
<1>7. SummaryProgress'
  BY <1>2, <1>3 DEF SummaryProgress
<1>8. NoLostWork' /\ NoSilentDangling'
  BY <1>0, <1>1, <1>2 DEF DeliveryInv, NoLostWork, NoSilentDangling
<1>9. IndexerProgress'
  BY <1>0, <1>1, <1>2 DEF DeliveryInv, IndexerProgress
<1>10. QED
  BY <1>4, <1>5, <1>6, <1>7, <1>8, <1>9 DEF DeliveryInv

\* A message leaves the queue, acked or parked; a parked one may have had its
\* summary written.
LEMMA DeliverySummarySettle ==
  ASSUME DeliveryInv, UNCHANGED indexerVars, AckSummary \/ NackSummary
  PROVE  DeliveryInv'
<1>0. /\ UNCHANGED <<published, indexPc, target, doomed, interrupted>>
      /\ PublishedChunks' = PublishedChunks /\ BegunChunks' = BegunChunks
      /\ \A c : InRun(c)' <=> InRun(c)
  BY DEF indexerVars, PublishedChunks, BegunChunks, InRun
<1>1. /\ summaryQueue # <<>>
      /\ summaryQueue' = Tail(summaryQueue)
      /\ summaryPc' = "idle"
      /\ UNCHANGED chunk \/ SetSummary(SummaryMessage)
      /\ summaryError \subseteq summaryError'
      /\ UNCHANGED <<vector, embeddingQueue, embeddingPc, vectorId,
                      embeddingError, upserts>>
  <2>1. CASE AckSummary
    BY <2>1 DEF AckSummary, embeddingVars, DeliveryInv, DeliveryTypes
  <2>2. CASE NackSummary
    BY <2>2 DEF NackSummary, embeddingVars, DeliveryInv, DeliveryTypes
  <2>3. QED
    BY <2>1, <2>2
<1>2. SummaryMessage \in DOMAIN chunk =>
        SummaryMessage \in summaryError' \/ chunk[SummaryMessage].summary
  <2>1. CASE AckSummary
    BY <2>1 DEF AckSummary, DeliveryInv, SummaryProgress
  <2>2. CASE NackSummary
    BY <2>2 DEF NackSummary
  <2>3. QED
    BY <2>1, <2>2
<1>3. /\ DOMAIN chunk' = DOMAIN chunk
      /\ chunk' \in [DOMAIN chunk' -> ChunkRow]
      /\ \A d \in DOMAIN chunk :
           /\ chunk[d].summary => chunk'[d].summary
           /\ chunk'[d].embedding = chunk[d].embedding
  <2>1. CASE UNCHANGED chunk
    BY <2>1 DEF DeliveryInv, DeliveryTypes
  <2>2. CASE SetSummary(SummaryMessage)
    BY <2>2, SummaryColumn DEF DeliveryInv, DeliveryTypes
  <2>3. QED
    BY <1>1, <2>1, <2>2
<1>4. /\ summaryQueue' \in Seq(PublishedChunks)
      /\ \A c : InQueue(c, summaryQueue) =>
           c = SummaryMessage \/ InQueue(c, summaryQueue')
  BY <1>1, InTail DEF DeliveryInv, DeliveryTypes, SummaryMessage
<1>5. EmbeddingMessage' = EmbeddingMessage
  BY <1>1 DEF EmbeddingMessage
<1>6. DeliveryTypes'
  BY <1>0, <1>1, <1>3, <1>4, <1>5 DEF DeliveryInv, DeliveryTypes
<1>7. OneVectorEach' /\ EmbeddingIsOwn'
  BY <1>1, <1>3 DEF DeliveryInv, OneVectorEach, EmbeddingIsOwn
<1>8. EmbeddingProgress'
  BY <1>0, <1>1, <1>3, <1>5 DEF DeliveryInv, EmbeddingProgress, InRun
<1>9. SummaryProgress'
  BY <1>1 DEF SummaryProgress
<1>10. NoLostWork'
  BY <1>0, <1>1, <1>2, <1>3, <1>4 DEF DeliveryInv, NoLostWork
<1>11. NoSilentDangling'
  BY <1>0, <1>1, <1>3 DEF DeliveryInv, NoSilentDangling
<1>12. IndexerProgress'
  BY <1>0, <1>1, <1>3 DEF DeliveryInv, IndexerProgress
<1>13. QED
  BY <1>6, <1>7, <1>8, <1>9, <1>10, <1>11, <1>12 DEF DeliveryInv

\* Every step of the summary consumer.
LEMMA DeliverySummary ==
  ASSUME DeliveryInv, UNCHANGED indexerVars, SummaryConsumer
  PROVE  DeliveryInv'
<1>1. CASE GetChunkToSummarize
  <2>1. /\ UNCHANGED <<chunk, vector, embeddingQueue, summaryQueue,
                        embeddingError, summaryError, upserts, embeddingVars,
                        published>>
        /\ summaryPc' = "summarize" /\ summaryQueue # <<>>
    BY <1>1 DEF GetChunkToSummarize, storageVars, indexerVars
  <2>2. embeddingPc' # "idle" => embeddingQueue # <<>>
    BY <2>1 DEF DeliveryInv, DeliveryTypes, embeddingVars
  <2>3. QED
    BY <2>1, <2>2, DeliveryMoves
<1>2. CASE UpdateSummary
  BY <1>2, DeliverySummarize
<1>3. CASE AckSummary \/ NackSummary
  BY <1>3, DeliverySummarySettle
<1>4. QED
  BY <1>1, <1>2, <1>3 DEF SummaryConsumer

-----------------------------------------------------------------------------
(* The process, and the invariant.                                         *)

\* A panic, a crash and a restart lose what the consumers held, not what is
\* stored and queued.
LEMMA DeliveryProcess ==
  ASSUME DeliveryInv, Process \/ Crash
  PROVE  DeliveryInv'
<1>1. CASE ConsumersDie /\ RunEnds /\ UNCHANGED published
  <2>1. /\ UNCHANGED <<chunk, vector, embeddingQueue, summaryQueue,
                        embeddingError, summaryError, upserts, published>>
        /\ embeddingPc' = "idle" /\ summaryPc' = "idle"
    BY <1>1 DEF ConsumersDie, storageVars
  <2>2. QED
    BY <1>1, <2>1, DeliveryMoves
<1>2. CASE Restart /\ UNCHANGED indexerVars
  <2>1. UNCHANGED <<chunk, vector, embeddingQueue, summaryQueue,
                     embeddingError, summaryError, upserts, published,
                     embeddingVars, summaryPc>>
    BY <1>2 DEF Restart, storageVars, indexerVars
  <2>2. /\ embeddingPc' # "idle" => embeddingQueue # <<>>
        /\ summaryPc' # "idle" => summaryQueue # <<>>
    BY <2>1 DEF DeliveryInv, DeliveryTypes, embeddingVars
  <2>3. QED
    BY <1>2, <2>1, <2>2, DeliveryMoves
<1>3. QED
  BY <1>1, <1>2 DEF Process, Crash, ConsumerPanic, ConsumersCrash, indexerVars

\* Every step of the indexer, of a run that ends early too.
LEMMA DeliveryIndexer ==
  ASSUME DeliveryInv, Index \/ Discard
  PROVE  DeliveryInv'
<1>1. CASE \E p \in Paths : InsertChunk(p)
  BY <1>1, DeliveryInsert
<1>2. CASE PublishChunk
  BY <1>2, DeliveryPublish
<1>3. CASE IndexFails
  <2>1. UNCHANGED <<chunk, vector, embeddingQueue, summaryQueue,
                     embeddingError, summaryError, upserts, published,
                     embeddingVars, summaryPc>>
    BY <1>3 DEF IndexFails, storageVars, consumerVars, embeddingVars
  <2>2. /\ embeddingPc' # "idle" => embeddingQueue # <<>>
        /\ summaryPc' # "idle" => summaryQueue # <<>>
    BY <2>1 DEF DeliveryInv, DeliveryTypes, embeddingVars
  <2>3. QED
    BY <1>3, <2>1, <2>2, DeliveryMoves DEF IndexFails
<1>4. CASE \E S \in SUBSET Paths : ReadEmbeddingIds(S)
  BY <1>4, DeliveryReadIds
<1>5. CASE DeleteVectorBatch
  BY <1>5, DeliveryDeleteBatch
<1>6. CASE DeleteRows
  BY <1>6, DeliveryDeleteRows
<1>7. QED
  BY <1>1, <1>2, <1>3, <1>4, <1>5, <1>6 DEF Index, Discard

\* Nothing the indexer, the consumers or the supervisor do breaks the
\* invariant.
LEMMA DeliveryKept == DeliveryInv /\ [ReindexingNext]_vars => DeliveryInv'
<1>1. SUFFICES ASSUME DeliveryInv, [ReindexingNext]_vars PROVE DeliveryInv'
  OBVIOUS
<1>2. CASE Index \/ Discard
  BY <1>1, <1>2, DeliveryIndexer
<1>3. CASE Consumers
  BY <1>1, <1>3, DeliveryEmbedding, DeliverySummary DEF Consumers
<1>4. CASE Process \/ Crash
  BY <1>1, <1>4, DeliveryProcess
<1>5. CASE UNCHANGED vars
  <2>1. UNCHANGED <<chunk, vector, embeddingQueue, summaryQueue,
                     embeddingError, summaryError, upserts, published,
                     embeddingVars, summaryPc, indexerVars>>
    BY <1>5 DEF vars, storageVars, consumerVars, embeddingVars, indexerVars
  <2>2. /\ embeddingPc' # "idle" => embeddingQueue # <<>>
        /\ summaryPc' # "idle" => summaryQueue # <<>>
    BY <1>1, <2>1 DEF DeliveryInv, DeliveryTypes, embeddingVars
  <2>3. QED
    BY <1>1, <2>1, <2>2, DeliveryMoves
<1>6. QED
  BY <1>1, <1>2, <1>3, <1>4, <1>5 DEF ReindexingNext, Next

\* A query changes nothing that the others see.
LEMMA RetrieveReadsOnly == [RetrievalNext]_allVars => [ReindexingNext]_vars
<1>1. SUFFICES ASSUME RetrievalNext \/ UNCHANGED allVars
      PROVE  ReindexingNext \/ UNCHANGED vars
  OBVIOUS
<1>2. CASE Retrieve
  BY <1>2 DEF Retrieve, QuerySimilarVectors, GetChunksByEmbeddingIDs,
              BuildContext, RetrieveFails
<1>3. CASE Others
  BY <1>3 DEF Others
<1>4. CASE UNCHANGED allVars
  BY <1>4 DEF allVars
<1>5. QED
  BY <1>1, <1>2, <1>3, <1>4 DEF RetrievalNext

\* The invariant holds, with queries and files indexed anew.
LEMMA DeliveryInvariant == RetrievalSpec => []DeliveryInv
<1>1. RetrievalInit => DeliveryInv
  BY DeliveryStarts DEF RetrievalInit
<1>2. DeliveryInv /\ [RetrievalNext]_allVars => DeliveryInv'
  BY DeliveryKept, RetrieveReadsOnly
<1>3. QED
  BY <1>1, <1>2, PTL DEF RetrievalSpec

-----------------------------------------------------------------------------
(* The theorems.                                                           *)

\* Whatever fails and wherever the process dies, a published chunk without its
\* embedding or summary has its message in the queue or in the error queue, and
\* one that was never published is in the run that wrote it or was when it
\* ended early.
THEOREM NoLostWorkHolds == RetrievalSpec => []NoLostWork
<1>1. DeliveryInv => NoLostWork
  BY DEF DeliveryInv
<1>2. QED
  BY <1>1, DeliveryInvariant, PTL

\* An acked chunk has the vector its embedding_id names, unless the indexer is
\* discarding it, or was when its run ended early.
THEOREM NoSilentDanglingHolds == RetrievalSpec => []NoSilentDangling
<1>1. DeliveryInv => NoSilentDangling
  BY DEF DeliveryInv
<1>2. QED
  BY <1>1, DeliveryInvariant, PTL

\* A vector that a row names was made from that row's chunk.
THEOREM EmbeddingIsOwnHolds == RetrievalSpec => []EmbeddingIsOwn
<1>1. DeliveryInv => EmbeddingIsOwn
  BY DEF DeliveryInv
<1>2. QED
  BY <1>1, DeliveryInvariant, PTL

ColumnsStay ==
  \A c \in DOMAIN chunk \cap DOMAIN chunk' :
    /\ chunk[c].summary => chunk'[c].summary
    /\ chunk[c].embedding # 0 => chunk'[c].embedding # 0

\* No step takes a column back: neither consumer writes the column of the
\* other, and a row is written anew only under a new id.
LEMMA ColumnsStep ==
  ASSUME DeliveryInv, ReindexingNext
  PROVE  ColumnsStay
<1>1. CASE Index
  BY <1>1 DEF Index, InsertChunk, InsertChunks, PublishChunk, IndexFails,
              storageVars, ColumnsStay
<1>2. CASE Discard
  BY <1>2 DEF Discard, ReadEmbeddingIds, DeleteVectorBatch, DeleteRows,
              DeleteFiles, Restrict, storageVars, ColumnsStay
<1>3. CASE SetEmbedding(EmbeddingMessage, vectorId) /\ embeddingPc = "update"
  <2>1. vectorId \in Nat \ {0}
    BY <1>3 DEF DeliveryInv, DeliveryTypes, EmbeddingProgress
  <2>2. QED
    BY <1>3, <2>1, EmbeddingColumn DEF DeliveryInv, DeliveryTypes, ColumnsStay
<1>4. CASE SetSummary(SummaryMessage)
  BY <1>4, SummaryColumn DEF DeliveryInv, DeliveryTypes, ColumnsStay
<1>5. CASE UNCHANGED chunk
  BY <1>5 DEF ColumnsStay
<1>6. CASE EmbeddingConsumer
  BY <1>3, <1>5, <1>6
  DEF EmbeddingConsumer, GetChunkToEmbed, UpsertEmbeddings,
      UpsertReportsError, UpdateEmbeddingId, UpdateReportsError,
      RollBackVector, AckEmbedding, NackEmbedding, storageVars
<1>7. CASE SummaryConsumer
  BY <1>4, <1>5, <1>7
  DEF SummaryConsumer, GetChunkToSummarize, UpdateSummary, AckSummary,
      NackSummary, storageVars
<1>8. CASE Process \/ Crash
  BY <1>5, <1>8 DEF Process, Crash, ConsumerPanic, ConsumersCrash,
                    ConsumersDie, Restart, storageVars
<1>9. QED
  BY <1>1, <1>2, <1>6, <1>7, <1>8 DEF ReindexingNext, Next, Consumers

\* The two consumers never undo what the other wrote in the same row.
THEOREM ColumnsKeptHolds == RetrievalSpec => ColumnsKept
<1>1. DeliveryInv /\ [RetrievalNext]_allVars => [ColumnsStay]_vars
  BY ColumnsStep, RetrieveReadsOnly
<1>2. QED
  BY <1>1, DeliveryInvariant, PTL DEF RetrievalSpec, ColumnsKept, ColumnsStay

Answered ==
  queryPc = "rows" /\ queryPc' = "edges" =>
    \A v \in matches \cap DOMAIN vector :
      LET c == vector[v] IN
      c \in DOMAIN chunk =>
        \/ c \in answer'
        \/ InQueue(c, embeddingQueue) \/ c \in embeddingError
        \/ InRun(c)
        \/ chunk[c].embedding \in DOMAIN vector \ {v}

\* What was matched and is still indexed is in the answer, unless its message
\* is pending, a run is or was discarding it, or it has another vector by now.
THEOREM MatchedIsAnsweredHolds == RetrievalSpec => MatchedIsAnswered
<1>1. ASSUME DeliveryInv, RetrievalNext, queryPc = "rows", queryPc' = "edges",
             NEW v \in matches \cap DOMAIN vector, vector[v] \in DOMAIN chunk
      PROVE  \/ vector[v] \in answer'
             \/ InQueue(vector[v], embeddingQueue) \/ vector[v] \in embeddingError
             \/ InRun(vector[v])
             \/ chunk[vector[v]].embedding \in DOMAIN vector \ {v}
  <2>1. GetChunksByEmbeddingIDs
    BY <1>1 DEF RetrievalNext, Retrieve, QuerySimilarVectors, BuildContext,
                RetrieveFails, Others, QueryOver, queryVars
  <2>2. CASE chunk[vector[v]].embedding = 0
    BY <1>1, <2>2 DEF DeliveryInv, NoLostWork
  <2>3. CASE chunk[vector[v]].embedding \notin DOMAIN vector \cup {0}
    BY <1>1, <2>3 DEF DeliveryInv, NoSilentDangling
  <2>4. CASE chunk[vector[v]].embedding = v
    BY <1>1, <2>1, <2>4 DEF GetChunksByEmbeddingIDs
  <2>5. QED
    BY <2>2, <2>3, <2>4
<1>2. DeliveryInv /\ [RetrievalNext]_allVars => [Answered]_allVars
  BY <1>1 DEF Answered
<1>3. QED
  BY <1>2, DeliveryInvariant, PTL
  DEF RetrievalSpec, MatchedIsAnswered, Answered

(* The query's own state.                                                  *)

\* A match is answered with one chunk at most.
LEMMA NoMoreThanMatched ==
  ASSUME DeliveryInv, matches \subseteq 1..upserts
  PROVE  LET found == {c \in DOMAIN chunk : chunk[c].embedding \in matches}
         IN  Cardinality(found) <= Cardinality(matches)
<1> DEFINE found == {c \in DOMAIN chunk : chunk[c].embedding \in matches}
           id == [c \in found |-> chunk[c].embedding]
<1>1. IsFiniteSet(matches)
  <2>1. IsFiniteSet(1..upserts)
    BY FS_Interval DEF DeliveryInv, DeliveryTypes
  <2>2. QED
    BY <2>1, FS_Subset
<1>2. id \in Injection(found, matches)
  <2>1. 0 \notin matches
    OBVIOUS
  <2>2. \A c, d \in found : id[c] = id[d] => c = d
    BY <2>1 DEF DeliveryInv, OneVectorEach
  <2>3. id \in [found -> matches]
    OBVIOUS
  <2>4. QED
    BY <2>2, <2>3 DEF Injection, IsInjective
<1>3. Cardinality(found) <= Cardinality(matches)
  BY <1>1, <1>2, FS_Injection
<1>4. QED
  BY <1>3

\* A step draws one new vector id at most.
LEMMA UpsertsCount ==
  ASSUME ReindexingNext
  PROVE  upserts' = upserts \/ upserts' = upserts + 1
<1>1. CASE Index \/ Discard
  BY <1>1 DEF Index, InsertChunk, PublishChunk, IndexFails, Discard,
              ReadEmbeddingIds, DeleteVectorBatch, DeleteRows, consumerVars
<1>2. CASE EmbeddingConsumer
  BY <1>2
  DEF EmbeddingConsumer, GetChunkToEmbed, UpsertEmbeddings,
      UpsertReportsError, UpdateEmbeddingId, UpdateReportsError,
      RollBackVector, AckEmbedding, NackEmbedding
<1>3. CASE SummaryConsumer
  BY <1>3
  DEF SummaryConsumer, GetChunkToSummarize, UpdateSummary, AckSummary,
      NackSummary
<1>4. CASE Process \/ Crash
  BY <1>4
  DEF Process, Crash, ConsumerPanic, ConsumersCrash, ConsumersDie, Restart
<1>5. QED
  BY <1>1, <1>2, <1>3, <1>4 DEF ReindexingNext, Next, Consumers

\* What the query keeps is what its place in Retrieve calls for, and a process
\* that is down keeps nothing of it.
THEOREM RetrievalTypeOKHolds == RetrievalSpec => []RetrievalTypeOK
<1>1. RetrievalInit => RetrievalTypeOK
  <2>1. Cardinality({}) = 0
    BY FS_EmptySet
  <2>2. QED
    BY <2>1 DEF RetrievalInit, RetrievalTypeOK, Init, ConsumersInit
<1>2. DeliveryInv /\ RetrievalTypeOK /\ [RetrievalNext]_allVars
        => RetrievalTypeOK'
  <2>1. SUFFICES ASSUME DeliveryInv, RetrievalTypeOK, [RetrievalNext]_allVars
                 PROVE  RetrievalTypeOK'
    OBVIOUS
  <2>2. Cardinality({}) = 0 /\ upserts \in Nat
    BY <2>1, FS_EmptySet DEF DeliveryInv, DeliveryTypes
  <2>3. ASSUME NEW k \in TopKs, QuerySimilarVectors(k) PROVE RetrievalTypeOK'
    <3>1. /\ up /\ queryPc' = "rows" /\ UNCHANGED <<up, upserts, answer>>
          /\ matches' \subseteq DOMAIN vector /\ answer = {}
      BY <2>1, <2>3 DEF QuerySimilarVectors, Nearest, vars, consumerVars,
                        RetrievalTypeOK
    <3>2. matches' \subseteq 1..upserts
      BY <2>1, <3>1 DEF DeliveryInv, DeliveryTypes
    <3>3. IsFiniteSet(1..upserts)
      BY <2>2, FS_Interval
    <3>4. IsFiniteSet(matches')
      BY <3>2, <3>3, FS_Subset
    <3>5. Cardinality(matches') \in Nat
      BY <3>4, FS_CardinalityType
    <3>6. QED
      BY <2>2, <3>1, <3>2, <3>5 DEF RetrievalTypeOK
  <2>4. CASE GetChunksByEmbeddingIDs
    <3>1. /\ up /\ queryPc' = "edges" /\ UNCHANGED <<up, upserts, matches>>
          /\ answer' = {c \in DOMAIN chunk : chunk[c].embedding \in matches}
      BY <2>4 DEF GetChunksByEmbeddingIDs, vars, consumerVars
    <3>2. matches \subseteq 1..upserts
      BY <2>1 DEF RetrievalTypeOK
    <3>3. Cardinality(answer') <= Cardinality(matches')
      BY <2>1, <3>1, <3>2, NoMoreThanMatched
    <3>4. DOMAIN chunk \subseteq ChunkIds
      BY <2>1 DEF DeliveryInv, DeliveryTypes, PublishedChunks, BegunChunks,
                  ChunkIds, ChunkOf
    <3>5. QED
      BY <3>1, <3>2, <3>3, <3>4 DEF RetrievalTypeOK
  <2>5. CASE QueryOver
    BY <2>2, <2>5 DEF QueryOver, RetrievalTypeOK
  <2>6. CASE ReindexingNext /\ up' /\ UNCHANGED queryVars
    <3>1. upserts' = upserts \/ upserts' = upserts + 1
      BY <2>6, UpsertsCount
    <3>2. matches' \subseteq 1..(upserts')
      BY <2>1, <2>2, <2>6, <3>1 DEF RetrievalTypeOK, queryVars
    <3>3. QED
      BY <2>1, <2>6, <3>2 DEF RetrievalTypeOK, queryVars
  <2>7. CASE UNCHANGED allVars
    BY <2>1, <2>7 DEF allVars, vars, queryVars, consumerVars, RetrievalTypeOK
  <2>8. QED
    BY <2>1, <2>3, <2>4, <2>5, <2>6, <2>7
    DEF RetrievalNext, Retrieve, BuildContext, RetrieveFails, Others
<1>3. QED
  BY <1>1, <1>2, DeliveryInvariant, PTL DEF RetrievalSpec

-----------------------------------------------------------------------------
(* Types.                                                                  *)

\* The indexer writes and discards rows of their types.
LEMMA TypeIndexer ==
  ASSUME TypeOK, Index \/ Discard
  PROVE  TypeOK'
<1>1. ASSUME NEW p \in Paths, InsertChunk(p) PROVE TypeOK'
  <2>1. ChunkOf(p) \in ChunkIds /\ NewChunkRow \in ChunkRow
    BY DEF ChunkOf, ChunkIds, NewChunkRow, ChunkRow
  <2>2. /\ DOMAIN chunk' \subseteq ChunkIds
        /\ chunk' \in [DOMAIN chunk' -> ChunkRow]
    BY <1>1, <2>1 DEF InsertChunk, InsertChunks, TypeOK, StorageTypeOK
  <2>3. QED
    BY <1>1, <2>2 DEF InsertChunk, TypeOK, StorageTypeOK, ConsumersTypeOK,
                      graphVars, consumerVars
<1>2. CASE PublishChunk
  <2>1. PICK p \in target : PublishEmbedding(ChunkOf(p))
    BY <1>2 DEF PublishChunk
  <2>2. ChunkOf(p) \in ChunkIds
    BY <2>1 DEF ChunkOf, ChunkIds, TypeOK
  <2>3. /\ embeddingQueue' \in Seq(ChunkIds) /\ embeddingQueue' # <<>>
        /\ summaryQueue' \in Seq(ChunkIds) /\ summaryQueue' # <<>>
    BY <2>1, <2>2, InAppended DEF PublishEmbedding, TypeOK, StorageTypeOK
  <2>4. /\ indexPc' = "idle" /\ target' = {} /\ doomed' = {}
        /\ published' \subseteq Paths
    BY <1>2 DEF PublishChunk, IndexerIdle, TypeOK
  <2>5. QED
    BY <1>2, <2>3, <2>4 DEF PublishChunk, TypeOK, StorageTypeOK,
                            ConsumersTypeOK, graphVars, consumerVars
<1>3. ASSUME NEW S \in SUBSET Paths, ReadEmbeddingIds(S) PROVE TypeOK'
  <2>1. EmbeddingIdsOf(S) \subseteq VectorIds
    BY DEF EmbeddingIdsOf, TypeOK, StorageTypeOK, ChunkRow, VectorIds
  <2>2. QED
    BY <1>3, <2>1 DEF ReadEmbeddingIds, TypeOK, StorageTypeOK,
                      ConsumersTypeOK, storageVars, graphVars, consumerVars
<1>4. CASE DeleteVectorBatch
  <2>1. /\ DOMAIN vector' \subseteq DOMAIN vector
        /\ vector' \in [DOMAIN vector' -> ChunkIds]
    BY <1>4 DEF DeleteVectorBatch, DeleteVectors, Restrict, TypeOK, StorageTypeOK
  <2>2. doomed' \subseteq doomed
    BY <1>4 DEF DeleteVectorBatch
  <2>3. QED
    BY <1>4, <2>1, <2>2 DEF DeleteVectorBatch, TypeOK, StorageTypeOK,
                            ConsumersTypeOK, graphVars, consumerVars
<1>5. CASE DeleteRows
  <2>1. /\ DOMAIN chunk' \subseteq DOMAIN chunk
        /\ chunk' \in [DOMAIN chunk' -> ChunkRow]
    BY <1>5 DEF DeleteRows, DeleteFiles, Restrict, TypeOK, StorageTypeOK
  <2>2. /\ file' \in [Paths -> Versions] /\ symbol' \subseteq Paths
        /\ callEdge' \in [Paths \X Paths -> Nat]
        /\ importEdge' \in [Paths \X Paths -> Nat]
    BY <1>5 DEF DeleteRows, DeleteFiles, TypeOK, StorageTypeOK, Versions
  <2>3. QED
    BY <1>5, <2>1, <2>2 DEF DeleteRows, IndexerIdle, TypeOK, StorageTypeOK,
                            ConsumersTypeOK, consumerVars
<1>6. CASE IndexFails
  BY <1>6 DEF IndexFails, RunEnds, IndexerIdle, TypeOK, StorageTypeOK,
              ConsumersTypeOK, storageVars, graphVars, consumerVars
<1>7. QED
  BY <1>1, <1>2, <1>3, <1>4, <1>5, <1>6 DEF Index, Discard

\* Whether chunks are discarded or not, every table, queue and local of the
\* consumers keeps its type, and the counters their bounds.
THEOREM DeliveryTypeOK == Init /\ [][ReindexingNext]_vars => []TypeOK
<1>1. Init => TypeOK
  <2> SUFFICES ASSUME Init PROVE TypeOK
    OBVIOUS
  <2>1. /\ ConsumersTypeOK
        /\ published = {} /\ interrupted = {}
        /\ indexPc = "idle" /\ target = {} /\ doomed = {}
    BY ConsumersAssumption DEF Init, ConsumersInit, ConsumersTypeOK
  <2>2. /\ DOMAIN chunk = {} /\ chunk \in [DOMAIN chunk -> ChunkRow]
        /\ DOMAIN vector = {} /\ vector \in [DOMAIN vector -> ChunkIds]
    BY DEF Init, EmptyStorage, NoRows
  <2>3. /\ file \in [Paths -> Versions]
        /\ callEdge \in [Paths \X Paths -> Nat]
        /\ importEdge \in [Paths \X Paths -> Nat]
    BY DEF Init, EmptyStorage, NoEdges, Versions
  <2>4. embeddingQueue \in Seq(ChunkIds) /\ summaryQueue \in Seq(ChunkIds)
    BY DEF Init, EmptyStorage
  <2>5. QED
    BY <2>1, <2>2, <2>3, <2>4 DEF Init, EmptyStorage, StorageTypeOK, TypeOK
<1>2. TypeOK /\ [ReindexingNext]_vars => TypeOK'
  <2> SUFFICES ASSUME TypeOK, [ReindexingNext]_vars PROVE TypeOK'
    OBVIOUS
  <2>1. CASE Index \/ Discard
    BY <2>1, TypeIndexer
  <2>2. CASE Consumers
    BY <2>2, ConsumerSteps DEF Consumers, TypeOK, indexerVars
  <2>3. CASE Process \/ Crash
    BY <2>3, ProcessSteps
    DEF Process, Crash, RunEnds, IndexerIdle, TypeOK, indexerVars
  <2>4. CASE UNCHANGED vars
    BY <2>4 DEF vars, storageVars, consumerVars, indexerVars, TypeOK,
                StorageTypeOK, ConsumersTypeOK
  <2>5. QED
    BY <2>1, <2>2, <2>3, <2>4 DEF ReindexingNext, Next
<1>3. QED
  BY <1>1, <1>2, PTL

-----------------------------------------------------------------------------
(* The vectors nobody refers to, while no chunk is discarded.              *)

\* The vector written for the message in the consumer's hands.
InHands ==
  IF embeddingPc \in {"update", "rollback", "nack", "ack"} THEN {upserts} ELSE {}

\* What the consumer has lost sight of: the message of such a vector is to be
\* delivered again, or was settled without it.
Leaked ==
  {v \in DOMAIN vector \ InHands :
     /\ vector[v] \notin embeddingError
     /\ v \in Unreferenced \/ InQueue(vector[v], embeddingQueue)}

QueuedOnce ==
  \A i, j \in DOMAIN embeddingQueue :
    embeddingQueue[i] = embeddingQueue[j] => i = j

\* Every chunk written is there, a message is queued once, and the vector in the
\* consumer's hands is that of its message.
LeakFacts ==
  /\ DOMAIN chunk = PublishedChunks \cup BegunChunks
  /\ \A v \in DOMAIN vector : vector[v] \in PublishedChunks
  /\ QueuedOnce
  /\ embeddingPc \in {"update", "rollback", "ack"} => vectorId = upserts
  /\ embeddingPc = "ack" => chunk[EmbeddingMessage].embedding = upserts
  /\ \A v \in InHands \cap DOMAIN vector : vector[v] = EmbeddingMessage

LeakInv ==
  /\ LeakFacts
  /\ restarts \in Nat
  /\ Cardinality(Leaked) <= restarts

\* The vectors are finite in number.
LEMMA LeakedFinite ==
  ASSUME DeliveryInv
  PROVE  /\ IsFiniteSet(Leaked)
         /\ Cardinality(Leaked) \in Nat
<1>1. IsFiniteSet(1..upserts)
  BY FS_Interval DEF DeliveryInv, DeliveryTypes
<1>2. Leaked \subseteq 1..upserts
  BY DEF Leaked, DeliveryInv, DeliveryTypes
<1>3. IsFiniteSet(Leaked)
  BY <1>1, <1>2, FS_Subset
<1>4. QED
  BY <1>3, FS_CardinalityType

\* A chunk is written: no vector is of it.
LEMMA LeakInsert ==
  ASSUME DeliveryInv, LeakFacts, NEW p \in Paths, InsertChunk(p)
  PROVE  LeakFacts' /\ Leaked' \subseteq Leaked
<1> DEFINE c == ChunkOf(p)
<1>1. /\ indexPc = "idle" /\ target' = {p}
      /\ UNCHANGED <<vector, embeddingQueue, embeddingPc, vectorId,
                      embeddingError, upserts, published, interrupted>>
  BY DEF InsertChunk, consumerVars
<1>2. target = {}
  BY <1>1 DEF DeliveryInv, IndexerProgress
<1>3. /\ PublishedChunks' = PublishedChunks
      /\ BegunChunks' = BegunChunks \cup {c}
  BY <1>1, <1>2 DEF PublishedChunks, BegunChunks
<1>4. /\ DOMAIN chunk' = DOMAIN chunk \cup {c}
      /\ \A d \in DOMAIN chunk : chunk'[d] = chunk[d]
  BY DEF InsertChunk, InsertChunks
<1>5. /\ EmbeddingMessage' = EmbeddingMessage /\ QueuedOnce'
      /\ InHands' = InHands
  BY <1>1 DEF EmbeddingMessage, LeakFacts, QueuedOnce, InHands
<1>6. embeddingPc = "ack" => EmbeddingMessage \in DOMAIN chunk
  BY InTail DEF LeakFacts, DeliveryInv, DeliveryTypes, EmbeddingMessage
<1> HIDE DEF c
<1>7. LeakFacts'
  BY <1>1, <1>3, <1>4, <1>5, <1>6 DEF LeakFacts
<1>8. Unreferenced' \subseteq Unreferenced
  BY <1>1, <1>4 DEF Unreferenced
<1>9. QED
  BY <1>1, <1>5, <1>7, <1>8 DEF Leaked

\* Its message is new in the queue.
LEMMA LeakPublish ==
  ASSUME DeliveryInv, LeakFacts, PublishChunk
  PROVE  LeakFacts' /\ Leaked' \subseteq Leaked
<1>1. PICK p \in Paths : target = {p} /\ p \notin published
  BY DEF PublishChunk, DeliveryInv, IndexerProgress
<1> DEFINE c == ChunkOf(p)
<1>2. /\ published' = published \cup {p} /\ target' = {}
      /\ embeddingQueue' = Append(embeddingQueue, c)
      /\ UNCHANGED <<chunk, vector, embeddingPc, vectorId, embeddingError,
                      upserts, interrupted>>
  BY <1>1 DEF PublishChunk, PublishEmbedding, IndexerIdle, consumerVars
<1>3. /\ PublishedChunks' = PublishedChunks \cup {c} /\ c \notin PublishedChunks
      /\ PublishedChunks' \cup BegunChunks' = PublishedChunks \cup BegunChunks
  BY <1>1, <1>2 DEF PublishedChunks, BegunChunks, ChunkOf
<1> HIDE DEF c
<1>4. /\ Len(embeddingQueue) \in Nat
      /\ DOMAIN embeddingQueue = 1..Len(embeddingQueue)
      /\ DOMAIN embeddingQueue' = 1..(Len(embeddingQueue) + 1)
      /\ embeddingQueue'[Len(embeddingQueue) + 1] = c
      /\ \A i \in DOMAIN embeddingQueue :
           /\ embeddingQueue[i] \in PublishedChunks
           /\ embeddingQueue'[i] = embeddingQueue[i]
  BY <1>2 DEF DeliveryInv, DeliveryTypes
<1>5. QueuedOnce'
  BY <1>3, <1>4 DEF LeakFacts, QueuedOnce
<1>6. embeddingQueue # <<>> => EmbeddingMessage' = EmbeddingMessage
  <2> HAVE embeddingQueue # <<>>
  <2>1. c \in PublishedChunks' /\ embeddingQueue \in Seq(PublishedChunks')
    BY <1>3 DEF DeliveryInv, DeliveryTypes
  <2>2. Head(embeddingQueue') = Head(embeddingQueue)
    BY <1>2, <2>1, InAppended
  <2>3. QED
    BY <2>2 DEF EmbeddingMessage
<1>7. InHands' = InHands
  BY <1>2 DEF InHands
<1>8. LeakFacts'
  <2>1. embeddingPc # "idle" => embeddingQueue # <<>>
    BY DEF DeliveryInv, DeliveryTypes
  <2>2. InHands # {} => embeddingPc # "idle"
    BY DEF InHands
  <2>3. \A v \in InHands \cap DOMAIN vector : vector[v] = EmbeddingMessage'
    BY <1>6, <2>1, <2>2 DEF LeakFacts
  <2>4. embeddingPc = "ack" => chunk[EmbeddingMessage'].embedding = upserts
    BY <1>6, <2>1 DEF LeakFacts
  <2>5. \A v \in DOMAIN vector : vector[v] \in PublishedChunks'
    BY <1>3 DEF LeakFacts
  <2>6. DOMAIN chunk = PublishedChunks' \cup BegunChunks'
    BY <1>3 DEF LeakFacts
  <2>7. QED
    BY <1>2, <1>5, <1>7, <2>3, <2>4, <2>5, <2>6 DEF LeakFacts
<1>9. \A v \in DOMAIN vector :
        InQueue(vector[v], embeddingQueue') => InQueue(vector[v], embeddingQueue)
  BY <1>3, <1>4 DEF LeakFacts, InQueue
<1>10. Unreferenced' = Unreferenced
  BY <1>2 DEF Unreferenced
<1>11. QED
  BY <1>2, <1>7, <1>8, <1>9, <1>10 DEF Leaked

\* The new vector is in the consumer's hands.
LEMMA LeakUpsert ==
  ASSUME DeliveryInv, LeakFacts, UNCHANGED indexerVars,
         UpsertEmbeddings \/ UpsertReportsError
  PROVE  LeakFacts' /\ Leaked' \subseteq Leaked
<1>1. /\ embeddingPc = "embed"
      /\ upserts' = upserts + 1
      /\ UpsertVector(upserts + 1, EmbeddingMessage)
      /\ \/ embeddingPc' = "update" /\ vectorId' = upserts + 1
         \/ embeddingPc' = "nack"
      /\ UNCHANGED <<chunk, embeddingQueue, embeddingError>>
  <2>1. CASE UpsertEmbeddings
    BY <2>1 DEF UpsertEmbeddings
  <2>2. CASE UpsertReportsError
    BY <2>2 DEF UpsertReportsError
  <2>3. QED
    BY <2>1, <2>2
<1>2. /\ DOMAIN vector' = DOMAIN vector \cup {upserts + 1}
      /\ vector'[upserts + 1] = EmbeddingMessage
      /\ \A v \in DOMAIN vector : vector'[v] = vector[v]
  BY <1>1, NewVector
<1>3. EmbeddingMessage \in PublishedChunks
  BY <1>1, InTail DEF DeliveryInv, DeliveryTypes, EmbeddingMessage
<1>4. /\ PublishedChunks' = PublishedChunks /\ BegunChunks' = BegunChunks
      /\ EmbeddingMessage' = EmbeddingMessage
      /\ QueuedOnce' /\ InHands = {} /\ InHands' = {upserts + 1}
  BY <1>1 DEF PublishedChunks, BegunChunks, indexerVars, EmbeddingMessage, LeakFacts, QueuedOnce, InHands
<1>5. LeakFacts'
  BY <1>1, <1>2, <1>3, <1>4 DEF LeakFacts
<1>6. QED
  BY <1>1, <1>2, <1>4, <1>5 DEF Leaked, Unreferenced

\* The row may part from an older vector, whose message is still queued.
LEMMA LeakUpdate ==
  ASSUME DeliveryInv, LeakFacts, UNCHANGED indexerVars,
         UpdateEmbeddingId \/ UpdateReportsError
  PROVE  LeakFacts' /\ Leaked' \subseteq Leaked
<1>1. /\ embeddingPc = "update" /\ embeddingPc' \in {"ack", "rollback"}
      /\ \/ SetEmbedding(EmbeddingMessage, vectorId)
         \/ UNCHANGED chunk /\ embeddingPc' = "rollback"
      /\ UNCHANGED <<vector, embeddingQueue, vectorId, embeddingError, upserts>>
  <2>1. CASE UpdateEmbeddingId
    BY <2>1 DEF UpdateEmbeddingId
  <2>2. CASE UpdateReportsError
    BY <2>2 DEF UpdateReportsError
  <2>3. QED
    BY <2>1, <2>2
<1>2. vectorId = upserts /\ vectorId \in Nat
  BY <1>1 DEF LeakFacts, DeliveryInv, DeliveryTypes
<1>3. /\ EmbeddingMessage \in PublishedChunks
      /\ InQueue(EmbeddingMessage, embeddingQueue)
  BY <1>1, InTail DEF DeliveryInv, DeliveryTypes, EmbeddingMessage
<1>4. /\ DOMAIN chunk' = DOMAIN chunk
      /\ \A d \in DOMAIN chunk :
           d # EmbeddingMessage => chunk'[d].embedding = chunk[d].embedding
      /\ embeddingPc' = "ack" => chunk'[EmbeddingMessage].embedding = upserts
  <2>1. CASE SetEmbedding(EmbeddingMessage, vectorId)
    BY <1>2, <1>3, <2>1, EmbeddingColumn
    DEF DeliveryInv, DeliveryTypes, LeakFacts
  <2>2. CASE UNCHANGED chunk /\ embeddingPc' = "rollback"
    BY <2>2
  <2>3. QED
    BY <1>1, <2>1, <2>2
<1>5. /\ PublishedChunks' = PublishedChunks /\ BegunChunks' = BegunChunks
      /\ EmbeddingMessage' = EmbeddingMessage
      /\ QueuedOnce' /\ InHands' = InHands
  BY <1>1 DEF PublishedChunks, BegunChunks, indexerVars, EmbeddingMessage, LeakFacts, QueuedOnce, InHands
<1>6. LeakFacts'
  BY <1>1, <1>2, <1>4, <1>5 DEF LeakFacts
<1>7. ASSUME NEW v \in Unreferenced' PROVE
        v \in Unreferenced \/ InQueue(vector[v], embeddingQueue)
  <2>1. ASSUME NEW c \in DOMAIN chunk, chunk[c].embedding = v
        PROVE  InQueue(vector[v], embeddingQueue)
    <3>1. v \in DOMAIN vector /\ chunk'[c].embedding # v
      BY <1>1, <1>4, <1>7 DEF Unreferenced
    <3>2. c = EmbeddingMessage
      BY <1>4, <2>1, <3>1
    <3>3. vector[v] = c
      BY <2>1, <3>1 DEF DeliveryInv, EmbeddingIsOwn
    <3>4. QED
      BY <1>3, <3>2, <3>3
  <2>2. v \in DOMAIN vector
    BY <1>1 DEF Unreferenced
  <2>3. QED
    BY <2>1, <2>2 DEF Unreferenced
<1>8. QED
  BY <1>1, <1>5, <1>6, <1>7 DEF Leaked

\* A roll-back takes a vector away, or nothing.
LEMMA LeakRollBack ==
  ASSUME DeliveryInv, LeakFacts, UNCHANGED indexerVars, RollBackVector
  PROVE  LeakFacts' /\ Leaked' \subseteq Leaked
<1>1. /\ embeddingPc = "rollback" /\ embeddingPc' = "nack"
      /\ DeleteVectors({vectorId}) \/ UNCHANGED vector
      /\ UNCHANGED <<chunk, embeddingQueue, vectorId, embeddingError, upserts>>
  BY DEF RollBackVector
<1>2. /\ DOMAIN vector' \subseteq DOMAIN vector
      /\ \A v \in DOMAIN vector' : vector'[v] = vector[v]
  BY <1>1 DEF DeleteVectors, Restrict
<1>3. /\ PublishedChunks' = PublishedChunks /\ BegunChunks' = BegunChunks
      /\ EmbeddingMessage' = EmbeddingMessage
      /\ QueuedOnce' /\ InHands' = InHands
  BY <1>1 DEF PublishedChunks, BegunChunks, indexerVars, EmbeddingMessage, LeakFacts, QueuedOnce, InHands
<1>4. LeakFacts'
  BY <1>1, <1>2, <1>3 DEF LeakFacts
<1>5. QED
  BY <1>1, <1>2, <1>3, <1>4 DEF Leaked, Unreferenced

\* A settled message is in the queue no more, and its row names its vector or
\* it is parked.
LEMMA LeakSettle ==
  ASSUME DeliveryInv, LeakFacts, UNCHANGED indexerVars,
         AckEmbedding \/ NackEmbedding
  PROVE  LeakFacts' /\ Leaked' \subseteq Leaked
<1>1. /\ embeddingQueue # <<>>
      /\ embeddingQueue' = Tail(embeddingQueue)
      /\ embeddingPc' = "idle"
      /\ embeddingError \subseteq embeddingError'
      /\ UNCHANGED <<chunk, vector, upserts>>
      /\ \/ embeddingPc = "ack"
         \/ EmbeddingMessage \in embeddingError'
  <2>1. CASE AckEmbedding
    BY <2>1 DEF AckEmbedding, DeliveryInv, DeliveryTypes
  <2>2. CASE NackEmbedding
    BY <2>2 DEF NackEmbedding, EmbeddingCallFailed, DeliveryInv, DeliveryTypes
  <2>3. QED
    BY <2>1, <2>2
<1>2. /\ Len(embeddingQueue) \in Nat \ {0}
      /\ DOMAIN embeddingQueue = 1..Len(embeddingQueue)
      /\ DOMAIN embeddingQueue' = 1..(Len(embeddingQueue) - 1)
      /\ EmbeddingMessage = embeddingQueue[1]
      /\ \A i \in 1..(Len(embeddingQueue) - 1) :
           embeddingQueue'[i] = embeddingQueue[i + 1]
  BY <1>1 DEF DeliveryInv, DeliveryTypes, EmbeddingMessage
<1>3. QueuedOnce'
  <2>1. \A i \in DOMAIN embeddingQueue' : i + 1 \in DOMAIN embeddingQueue
    BY <1>2
  <2>2. QED
    BY <1>2, <2>1 DEF LeakFacts, QueuedOnce
<1>4. ~ InQueue(EmbeddingMessage, embeddingQueue')
  <2>1. \A i \in DOMAIN embeddingQueue' :
          i + 1 \in DOMAIN embeddingQueue /\ i + 1 # 1
    BY <1>2
  <2>2. 1 \in DOMAIN embeddingQueue
    BY <1>2
  <2>3. QED
    BY <1>2, <2>1, <2>2 DEF LeakFacts, QueuedOnce, InQueue
<1>5. \A c : InQueue(c, embeddingQueue') => InQueue(c, embeddingQueue)
  BY <1>2 DEF InQueue
<1>6. PublishedChunks' = PublishedChunks /\ BegunChunks' = BegunChunks
      /\ InHands' = {} /\ Unreferenced' = Unreferenced
  BY <1>1 DEF PublishedChunks, BegunChunks, indexerVars, InHands, Unreferenced
<1>7. LeakFacts'
  BY <1>1, <1>3, <1>6 DEF LeakFacts
<1>8. ASSUME NEW v \in Leaked' PROVE v \in Leaked
  <2>1. /\ v \in DOMAIN vector /\ vector[v] \notin embeddingError'
        /\ v \in Unreferenced \/ InQueue(vector[v], embeddingQueue)
        /\ v \in Unreferenced \/ InQueue(vector[v], embeddingQueue')
    BY <1>1, <1>5, <1>6, <1>8 DEF Leaked
  <2>2. v \notin InHands
    <3> SUFFICES ASSUME v \in InHands PROVE FALSE
      OBVIOUS
    <3>1. vector[v] = EmbeddingMessage /\ v = upserts
      BY <2>1 DEF LeakFacts, InHands
    <3>2. embeddingPc = "ack"
      BY <1>1, <2>1, <3>1
    <3>3. EmbeddingMessage \in DOMAIN chunk
      BY <1>1, InTail DEF LeakFacts, DeliveryInv, DeliveryTypes,
                          EmbeddingMessage
    <3>4. v \notin Unreferenced
      BY <3>1, <3>2, <3>3 DEF LeakFacts, Unreferenced
    <3>5. QED
      BY <1>4, <2>1, <3>1, <3>4
  <2>3. QED
    BY <1>1, <2>1, <2>2 DEF Leaked
<1>9. QED
  BY <1>7, <1>8

\* A step that neither writes a vector nor an embedding_id nor moves a message.
LEMMA LeakMoves ==
  ASSUME DeliveryInv, LeakFacts,
         UNCHANGED <<vector, embeddingQueue, embeddingError, upserts, published>>,
         RunEnds \/ UNCHANGED indexerVars,
         DOMAIN chunk' = DOMAIN chunk,
         \A c \in DOMAIN chunk : chunk'[c].embedding = chunk[c].embedding
  PROVE  /\ \/ UNCHANGED <<embeddingPc, vectorId>>
            \/ embeddingPc' \in {"idle", "embed"}
            => LeakFacts'
         /\ Leaked' \subseteq Leaked \cup InHands
         /\ InHands' = InHands => Leaked' \subseteq Leaked
<1>1. /\ PublishedChunks' = PublishedChunks /\ BegunChunks' = BegunChunks
      /\ EmbeddingMessage' = EmbeddingMessage
      /\ QueuedOnce'
  BY DEF PublishedChunks, BegunChunks, EmbeddingMessage, LeakFacts, QueuedOnce,
         RunEnds, IndexerIdle, indexerVars
<1>2. Unreferenced' = Unreferenced
  BY DEF Unreferenced
<1>3. embeddingPc' \in {"idle", "embed"} => InHands' = {}
  BY DEF InHands
<1>4. UNCHANGED embeddingPc => InHands' = InHands
  BY DEF InHands
<1>5. ASSUME UNCHANGED <<embeddingPc, vectorId>> PROVE LeakFacts'
  <2>1. embeddingPc = "ack" => EmbeddingMessage \in DOMAIN chunk
    BY InTail DEF LeakFacts, DeliveryInv, DeliveryTypes, EmbeddingMessage
  <2>2. QED
    BY <1>1, <1>4, <1>5, <2>1 DEF LeakFacts
<1>6. ASSUME embeddingPc' \in {"idle", "embed"} PROVE LeakFacts'
  BY <1>1, <1>3, <1>6 DEF LeakFacts
<1>7. Leaked' \subseteq Leaked \cup InHands
  BY <1>2 DEF Leaked
<1>8. InHands' = InHands => Leaked' \subseteq Leaked
  BY <1>2 DEF Leaked
<1>9. QED
  BY <1>5, <1>6, <1>7, <1>8

\* The summary consumer writes another column.
LEMMA LeakSummary ==
  ASSUME DeliveryInv, LeakFacts, UNCHANGED indexerVars, SummaryConsumer
  PROVE  LeakFacts' /\ Leaked' \subseteq Leaked
<1>1. /\ UNCHANGED <<vector, embeddingQueue, embeddingError, upserts,
                     embeddingPc, vectorId, published>>
      /\ UNCHANGED chunk \/ SetSummary(SummaryMessage)
  BY DEF SummaryConsumer, GetChunkToSummarize, UpdateSummary, AckSummary,
         NackSummary, storageVars, embeddingVars, indexerVars
<1>2. /\ DOMAIN chunk' = DOMAIN chunk
      /\ \A c \in DOMAIN chunk : chunk'[c].embedding = chunk[c].embedding
  BY <1>1, SummaryColumn DEF DeliveryInv, DeliveryTypes
<1>3. InHands' = InHands
  BY <1>1 DEF InHands
<1>4. QED
  BY <1>1, <1>2, <1>3, LeakMoves

\* No message is without its chunk, so nothing panics.
LEMMA NoPanic == DeliveryInv /\ LeakFacts => ~ NilChunk
<1> SUFFICES ASSUME DeliveryInv, LeakFacts PROVE ~ NilChunk
  OBVIOUS
<1>1. embeddingQueue # <<>> => EmbeddingMessage \in DOMAIN chunk
  BY InTail DEF LeakFacts, DeliveryInv, DeliveryTypes, EmbeddingMessage
<1>2. summaryQueue # <<>> => SummaryMessage \in DOMAIN chunk
  BY InTail DEF LeakFacts, DeliveryInv, DeliveryTypes, SummaryMessage
<1>3. QED
  BY <1>1, <1>2 DEF NilChunk

\* A crash costs the vector in the consumer's hands, and no other step any.
LEMMA LeakNext == DeliveryInv /\ LeakInv /\ [Next]_vars => LeakInv'
<1> SUFFICES ASSUME DeliveryInv, LeakInv, [Next]_vars PROVE LeakInv'
  OBVIOUS
<1>1. ASSUME LeakFacts', Leaked' \subseteq Leaked, UNCHANGED restarts
      PROVE  LeakInv'
  <2>1. IsFiniteSet(Leaked) /\ Cardinality(Leaked) \in Nat
    BY LeakedFinite
  <2>2. IsFiniteSet(Leaked') /\ Cardinality(Leaked') <= Cardinality(Leaked)
    BY <1>1, <2>1, FS_Subset
  <2>3. Cardinality(Leaked') \in Nat
    BY <2>2, FS_CardinalityType
  <2>4. QED
    BY <1>1, <2>1, <2>2, <2>3 DEF LeakInv
<1>2. CASE Index
  <2>1. CASE IndexFails
    <3>1. /\ UNCHANGED <<chunk, vector, embeddingQueue, embeddingError, upserts,
                         restarts, published, embeddingPc, vectorId>>
          /\ RunEnds
      BY <2>1 DEF IndexFails, storageVars, consumerVars
    <3>2. InHands' = InHands
      BY <3>1 DEF InHands
    <3>3. QED
      BY <1>1, <3>1, <3>2, LeakMoves DEF LeakInv
  <2>2. CASE (\E p \in Paths : InsertChunk(p)) \/ PublishChunk
    BY <1>1, <2>2, LeakInsert, LeakPublish
    DEF InsertChunk, PublishChunk, consumerVars, LeakInv
  <2>3. QED
    BY <1>2, <2>1, <2>2 DEF Index
<1>3. CASE EmbeddingConsumer /\ UNCHANGED indexerVars
  <2>1. CASE GetChunkToEmbed
    <3>1. /\ UNCHANGED <<chunk, vector, embeddingQueue, embeddingError, upserts,
                         restarts, published>>
          /\ embeddingPc = "idle" /\ embeddingPc' = "embed"
      BY <1>3, <2>1 DEF GetChunkToEmbed, storageVars, indexerVars
    <3>2. InHands' = InHands
      BY <3>1 DEF InHands
    <3>3. QED
      BY <1>1, <1>3, <3>1, <3>2, LeakMoves DEF LeakInv
  <2>2. CASE UpsertEmbeddings \/ UpsertReportsError
    BY <1>1, <1>3, <2>2, LeakUpsert
    DEF LeakInv, UpsertEmbeddings, UpsertReportsError
  <2>3. CASE UpdateEmbeddingId \/ UpdateReportsError
    BY <1>1, <1>3, <2>3, LeakUpdate
    DEF LeakInv, UpdateEmbeddingId, UpdateReportsError
  <2>4. CASE RollBackVector
    BY <1>1, <1>3, <2>4, LeakRollBack DEF LeakInv, RollBackVector
  <2>5. CASE AckEmbedding \/ NackEmbedding
    BY <1>1, <1>3, <2>5, LeakSettle DEF LeakInv, AckEmbedding, NackEmbedding
  <2>6. QED
    BY <1>3, <2>1, <2>2, <2>3, <2>4, <2>5 DEF EmbeddingConsumer
<1>4. CASE SummaryConsumer /\ UNCHANGED indexerVars
  <2>1. UNCHANGED restarts
    BY <1>4 DEF SummaryConsumer, GetChunkToSummarize, UpdateSummary, AckSummary,
                NackSummary
  <2>2. QED
    BY <1>1, <1>4, <2>1, LeakSummary DEF LeakInv
<1>5. CASE Process
  <2>1. Restart /\ UNCHANGED indexerVars
    BY <1>5, NoPanic DEF Process, ConsumerPanic, LeakInv, indexerVars
  <2>2. UNCHANGED <<chunk, vector, embeddingQueue, embeddingError, upserts,
                    restarts, published, embeddingPc, vectorId>>
    BY <2>1 DEF Restart, storageVars, embeddingVars, indexerVars
  <2>3. InHands' = InHands
    BY <2>2 DEF InHands
  <2>4. QED
    BY <1>1, <2>1, <2>2, <2>3, LeakMoves DEF LeakInv
<1>6. CASE Crash
  <2>1. /\ UNCHANGED <<chunk, vector, embeddingQueue, embeddingError, upserts,
                       published>>
        /\ embeddingPc' = "idle" /\ restarts' = restarts + 1 /\ RunEnds
    BY <1>6 DEF Crash, ConsumersCrash, ConsumersDie, storageVars
  <2>2. LeakFacts' /\ Leaked' \subseteq Leaked \cup {upserts}
    <3>1. InHands \subseteq {upserts}
      BY DEF InHands
    <3>2. QED
      BY <2>1, <3>1, LeakMoves DEF LeakInv
  <2>3. /\ IsFiniteSet(Leaked \cup {upserts})
        /\ Cardinality(Leaked \cup {upserts}) \in Nat
        /\ Cardinality(Leaked \cup {upserts}) <= Cardinality(Leaked) + 1
    <3>1. IsFiniteSet(Leaked) /\ Cardinality(Leaked) \in Nat
      BY LeakedFinite
    <3>2. /\ IsFiniteSet(Leaked \cup {upserts})
          /\ Cardinality(Leaked \cup {upserts}) =
               IF upserts \in Leaked THEN Cardinality(Leaked)
                                     ELSE Cardinality(Leaked) + 1
      BY <3>1, FS_AddElement
    <3>3. QED
      BY <3>1, <3>2
  <2>4. /\ Cardinality(Leaked') <= Cardinality(Leaked \cup {upserts})
        /\ Cardinality(Leaked') \in Nat
    BY <2>2, <2>3, FS_Subset, FS_CardinalityType
  <2>5. Cardinality(Leaked) \in Nat
    BY LeakedFinite
  <2>6. QED
    BY <2>1, <2>2, <2>3, <2>4, <2>5 DEF LeakInv
<1>7. CASE UNCHANGED vars
  <2>1. UNCHANGED <<chunk, vector, embeddingQueue, embeddingError, upserts,
                    restarts, published, embeddingPc, vectorId>>
    BY <1>7 DEF vars, storageVars, consumerVars, indexerVars
  <2>2. InHands' = InHands
    BY <2>1 DEF InHands
  <2>3. UNCHANGED indexerVars
    BY <1>7 DEF vars
  <2>4. QED
    BY <1>1, <2>1, <2>2, <2>3, LeakMoves DEF LeakInv
<1>8. QED
  BY <1>2, <1>3, <1>4, <1>5, <1>6, <1>7 DEF Next, Consumers

\* A vector of no chunk is the consumer's, a parked message's, or one of those
\* a crash leaked, one each: the roll-back and the nack account for the rest.
THEOREM LeaksBoundedHolds == Spec => []LeaksBounded
<1>1. Init => DeliveryInv /\ LeakInv
  <2> SUFFICES ASSUME Init PROVE LeakInv
    BY DeliveryStarts
  <2>1. /\ DOMAIN chunk = {} /\ DOMAIN vector = {} /\ published = {}
        /\ target = {} /\ interrupted = {}
        /\ embeddingQueue = <<>> /\ embeddingPc = "idle" /\ restarts = 0
    BY DEF Init, EmptyStorage, ConsumersInit, NoRows
  <2>2. LeakFacts
    BY <2>1 DEF LeakFacts, PublishedChunks, BegunChunks, QueuedOnce, InHands
  <2>3. Leaked = {}
    BY <2>1 DEF Leaked
  <2>4. QED
    BY <2>1, <2>2, <2>3, FS_EmptySet DEF LeakInv
<1>2. DeliveryInv /\ LeakInv /\ [Next]_vars => (DeliveryInv /\ LeakInv)'
  BY LeakNext, DeliveryKept DEF ReindexingNext
<1>3. DeliveryInv /\ LeakInv => LeaksBounded
  <2> SUFFICES ASSUME DeliveryInv, LeakInv PROVE LeaksBounded
    OBVIOUS
  <2> DEFINE explained(v) ==
               \/ v \in Held
               \/ vector[v] \in embeddingError
               \/ embeddingPc = "nack" /\ vector[v] = EmbeddingMessage
             lost == {v \in Unreferenced : ~ explained(v)}
  <2>1. ASSUME NEW v \in lost PROVE v \in Leaked
    <3>1. v \in DOMAIN vector /\ v \in Unreferenced
      BY DEF Unreferenced
    <3>2. embeddingPc \in {"update", "rollback"} => v \notin InHands
      BY DEF Held, InHands, LeakInv, LeakFacts
    <3>3. embeddingPc = "nack" => v \notin InHands
      BY <3>1 DEF LeakInv, LeakFacts
    <3>4. ASSUME embeddingPc = "ack" PROVE v \notin InHands
      <4>1. EmbeddingMessage \in DOMAIN chunk
        BY <3>4, InTail DEF LeakInv, LeakFacts, DeliveryInv, DeliveryTypes,
                            EmbeddingMessage
      <4>2. QED
        BY <3>1, <3>4, <4>1 DEF Unreferenced, InHands, LeakInv, LeakFacts
    <3>5. v \notin InHands
      BY <3>2, <3>3, <3>4 DEF InHands
    <3>6. QED
      BY <3>1, <3>5 DEF Leaked
  <2>2. lost \in SUBSET Leaked
    BY <2>1
  <2> HIDE DEF lost
  <2>3. Cardinality(lost) <= Cardinality(Leaked) /\ IsFiniteSet(lost)
    BY <2>2, LeakedFinite, FS_Subset
  <2>4. Cardinality(lost) \in Nat /\ Cardinality(Leaked) \in Nat
    BY <2>3, LeakedFinite, FS_CardinalityType
  <2>5. Cardinality(lost) <= restarts
    BY <2>3, <2>4 DEF LeakInv
  <2>6. QED
    BY <2>5 DEF LeaksBounded, lost
<1>4. QED
  BY <1>1, <1>2, <1>3, PTL DEF Spec
=============================================================================
