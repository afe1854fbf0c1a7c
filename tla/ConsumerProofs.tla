---------------------------- MODULE ConsumerProofs ----------------------------
(***************************************************************************)
(* Lemmas about ChunkConsumers, whoever feeds the queues: what the queues   *)
(* keep, what the statements of the two consumers write, and that tables,   *)
(* queues and locals keep their types.                                      *)
(***************************************************************************)
EXTENDS ChunkConsumers, TLAPS

(* Queues.                                                                 *)

\* What is in a queue is still there after something is appended.
LEMMA InAppended ==
  ASSUME NEW S, NEW q \in Seq(S), NEW m \in S
  PROVE  /\ Append(q, m) \in Seq(S)
         /\ Append(q, m) # <<>>
         /\ InQueue(m, Append(q, m))
         /\ \A c : InQueue(c, q) => InQueue(c, Append(q, m))
         /\ \A c : InQueue(c, Append(q, m)) => c = m \/ InQueue(c, q)
         /\ q # <<>> => Head(Append(q, m)) = Head(q)
<1>1. /\ Len(Append(q, m)) = Len(q) + 1 /\ Len(q) \in Nat
      /\ \A i \in 1..Len(q) : Append(q, m)[i] = q[i]
      /\ Append(q, m)[Len(q) + 1] = m
      /\ Append(q, m) \in Seq(S)
  OBVIOUS
<1>2. DOMAIN Append(q, m) = 1..(Len(q) + 1) /\ DOMAIN q = 1..Len(q)
  BY <1>1
<1>3. InQueue(m, Append(q, m))
  BY <1>1, <1>2 DEF InQueue
<1>4. \A c : InQueue(c, q) => InQueue(c, Append(q, m))
  BY <1>1, <1>2 DEF InQueue
<1>5. \A c : InQueue(c, Append(q, m)) => c = m \/ InQueue(c, q)
  BY <1>1, <1>2 DEF InQueue
<1>6. Append(q, m) # <<>>
  BY <1>1
<1>7. q # <<>> => Head(Append(q, m)) = Head(q)
  OBVIOUS
<1>8. QED
  BY <1>1, <1>3, <1>4, <1>5, <1>6, <1>7

\* What leaves a queue is its head and nothing else.
LEMMA InTail ==
  ASSUME NEW S, NEW q \in Seq(S), q # <<>>
  PROVE  /\ Tail(q) \in Seq(S)
         /\ Head(q) \in S
         /\ InQueue(Head(q), q)
         /\ \A c : InQueue(c, q) => c = Head(q) \/ InQueue(c, Tail(q))
         /\ \A c : InQueue(c, Tail(q)) => InQueue(c, q)
<1>1. /\ Tail(q) \in Seq(S) /\ Head(q) \in S /\ Head(q) = q[1]
      /\ Len(q) \in Nat \ {0}
      /\ Len(Tail(q)) = Len(q) - 1
      /\ \A i \in 1..(Len(q) - 1) : Tail(q)[i] = q[i + 1]
  OBVIOUS
<1>2. DOMAIN Tail(q) = 1..(Len(q) - 1) /\ DOMAIN q = 1..Len(q)
  BY <1>1
<1>3. InQueue(Head(q), q)
  BY <1>1, <1>2 DEF InQueue
<1>4. ASSUME NEW i \in DOMAIN q, i # 1
      PROVE  InQueue(q[i], Tail(q))
  <2>1. i - 1 \in 1..(Len(q) - 1) /\ Tail(q)[i - 1] = q[i]
    BY <1>1, <1>2, <1>4
  <2>2. QED
    BY <1>2, <2>1 DEF InQueue
<1>5. \A c : InQueue(c, q) => c = Head(q) \/ InQueue(c, Tail(q))
  BY <1>1, <1>4 DEF InQueue
<1>6. \A c : InQueue(c, Tail(q)) => InQueue(c, q)
  BY <1>1, <1>2 DEF InQueue
<1>7. QED
  BY <1>1, <1>3, <1>5, <1>6
-----------------------------------------------------------------------------
(* The statements.                                                         *)

\* The update of an embedding_id touches that column of that row.
LEMMA EmbeddingColumn ==
  ASSUME chunk \in [DOMAIN chunk -> ChunkRow], NEW c, NEW v \in Nat,
         SetEmbedding(c, v)
  PROVE  /\ DOMAIN chunk' = DOMAIN chunk
         /\ chunk' \in [DOMAIN chunk' -> ChunkRow]
         /\ \A d \in DOMAIN chunk :
              /\ chunk'[d].embedding = IF d = c THEN v ELSE chunk[d].embedding
              /\ chunk'[d].summary = chunk[d].summary
  BY DEF SetEmbedding, ChunkRow

\* The update of a summary touches that column of that row.
LEMMA SummaryColumn ==
  ASSUME chunk \in [DOMAIN chunk -> ChunkRow], NEW c, SetSummary(c)
  PROVE  /\ DOMAIN chunk' = DOMAIN chunk
         /\ chunk' \in [DOMAIN chunk' -> ChunkRow]
         /\ \A d \in DOMAIN chunk :
              /\ chunk'[d].summary = (d = c \/ chunk[d].summary)
              /\ chunk'[d].embedding = chunk[d].embedding
  BY DEF SetSummary, ChunkRow

-----------------------------------------------------------------------------
(* Types.                                                                  *)

\* What the steps of the embedding consumer write has its type.
LEMMA EmbeddingSteps ==
  ASSUME StorageTypeOK, ConsumersTypeOK, EmbeddingConsumer
  PROVE  StorageTypeOK' /\ ConsumersTypeOK'
<1> USE ConsumersAssumption
<1>1. embeddingQueue # <<>> =>
        EmbeddingMessage \in ChunkIds /\ Tail(embeddingQueue) \in Seq(ChunkIds)
  BY DEF StorageTypeOK, EmbeddingMessage
<1>2. CASE GetChunkToEmbed
  BY <1>2 DEF GetChunkToEmbed, StorageTypeOK, ConsumersTypeOK, storageVars
<1>3. CASE UpsertEmbeddings \/ UpsertReportsError
  <2>1. /\ embeddingPc = "embed" /\ upserts < MaxUpserts
        /\ upserts' = upserts + 1
        /\ vectorId' = upserts + 1 \/ UNCHANGED vectorId
        /\ UpsertVector(upserts + 1, EmbeddingMessage)
        /\ embeddingPc' \in {"update", "nack"}
        /\ UNCHANGED <<graphVars, chunk, embeddingQueue, summaryQueue, up,
                       restarts, summaryPc, embeddingError, summaryError>>
    BY <1>3 DEF UpsertEmbeddings, UpsertReportsError
  <2>2. upserts' \in 1..MaxUpserts /\ vectorId' \in 0..(upserts')
    BY <2>1 DEF ConsumersTypeOK
  <2>3. /\ DOMAIN vector' \subseteq VectorIds
        /\ vector' \in [DOMAIN vector' -> ChunkIds]
    <3>1. EmbeddingMessage \in ChunkIds
      BY <1>1, <2>1 DEF ConsumersTypeOK
    <3>2. upserts + 1 \in VectorIds
      BY <2>1, <2>2 DEF VectorIds
    <3>3. QED
      BY <2>1, <3>1, <3>2 DEF UpsertVector, StorageTypeOK
  <2>4. QED
    BY <2>1, <2>2, <2>3
    DEF StorageTypeOK, ConsumersTypeOK, graphVars
<1>4. CASE UpdateEmbeddingId \/ UpdateReportsError
  <2>1. /\ embeddingPc = "update" /\ embeddingPc' \in {"ack", "rollback"}
        /\ SetEmbedding(EmbeddingMessage, vectorId) \/ UNCHANGED chunk
        /\ UNCHANGED <<graphVars, vector, embeddingQueue, summaryQueue, up,
                       restarts, vectorId, summaryPc, embeddingError,
                       summaryError, upserts>>
    BY <1>4 DEF UpdateEmbeddingId, UpdateReportsError
  <2>2. vectorId \in Nat
    BY DEF ConsumersTypeOK
  <2>3. DOMAIN chunk' = DOMAIN chunk /\ chunk' \in [DOMAIN chunk' -> ChunkRow]
    BY <2>1, <2>2 DEF SetEmbedding, StorageTypeOK, ChunkRow
  <2>4. QED
    BY <2>1, <2>3 DEF StorageTypeOK, ConsumersTypeOK, graphVars
<1>5. CASE RollBackVector
  <2>1. /\ DOMAIN vector' \subseteq DOMAIN vector
        /\ vector' \in [DOMAIN vector' -> ChunkIds]
    BY <1>5 DEF RollBackVector, DeleteVectors, Restrict, StorageTypeOK
  <2>2. QED
    BY <1>5, <2>1 DEF RollBackVector, StorageTypeOK, ConsumersTypeOK,
                      graphVars
<1>6. CASE AckEmbedding \/ NackEmbedding
  <2>1. /\ embeddingQueue # <<>> /\ embeddingQueue' = Tail(embeddingQueue)
        /\ embeddingPc' = "idle" /\ vectorId' = 0
        /\ embeddingError' \subseteq embeddingError \cup {EmbeddingMessage}
        /\ UNCHANGED <<graphVars, chunk, vector, summaryQueue, up, restarts,
                       summaryPc, summaryError, upserts>>
    <3>1. CASE AckEmbedding
      BY <3>1 DEF AckEmbedding, ConsumersTypeOK
    <3>2. CASE NackEmbedding
      BY <3>2 DEF NackEmbedding, EmbeddingCallFailed, ConsumersTypeOK
    <3>3. QED
      BY <1>6, <3>1, <3>2
  <2>2. QED
    BY <1>1, <2>1 DEF StorageTypeOK, ConsumersTypeOK, graphVars
<1>7. QED
  BY <1>2, <1>3, <1>4, <1>5, <1>6 DEF EmbeddingConsumer

\* What the steps of the summary consumer write has its type.
LEMMA SummarySteps ==
  ASSUME StorageTypeOK, ConsumersTypeOK, SummaryConsumer
  PROVE  StorageTypeOK' /\ ConsumersTypeOK'
<1>1. summaryQueue # <<>> =>
        SummaryMessage \in ChunkIds /\ Tail(summaryQueue) \in Seq(ChunkIds)
  BY DEF StorageTypeOK, SummaryMessage
<1>2. /\ UNCHANGED <<graphVars, vector, embeddingQueue, up, restarts,
                     embeddingVars, embeddingError, upserts>>
      /\ UNCHANGED chunk \/ SetSummary(SummaryMessage)
      /\ \/ /\ summaryQueue # <<>> /\ UNCHANGED <<summaryQueue, summaryError>>
            /\ summaryPc' \in {"summarize", "ack"}
         \/ /\ summaryQueue # <<>> /\ summaryQueue' = Tail(summaryQueue)
            /\ summaryPc' = "idle"
            /\ summaryError' \subseteq summaryError \cup {SummaryMessage}
  <2>1. CASE GetChunkToSummarize
    BY <2>1 DEF GetChunkToSummarize, storageVars, graphVars
  <2>2. CASE UpdateSummary
    BY <2>2 DEF UpdateSummary, ConsumersTypeOK
  <2>3. CASE AckSummary
    BY <2>3 DEF AckSummary, ConsumersTypeOK
  <2>4. CASE NackSummary
    BY <2>4 DEF NackSummary, ConsumersTypeOK
  <2>5. QED
    BY <2>1, <2>2, <2>3, <2>4 DEF SummaryConsumer
<1>3. DOMAIN chunk' = DOMAIN chunk /\ chunk' \in [DOMAIN chunk' -> ChunkRow]
  BY <1>2 DEF SetSummary, StorageTypeOK, ChunkRow
<1>4. QED
  BY <1>1, <1>2, <1>3
  DEF StorageTypeOK, ConsumersTypeOK, graphVars, embeddingVars

\* Either consumer, taking a step, keeps the types.
LEMMA ConsumerSteps ==
  ASSUME StorageTypeOK, ConsumersTypeOK, EmbeddingConsumer \/ SummaryConsumer
  PROVE  StorageTypeOK' /\ ConsumersTypeOK'
BY EmbeddingSteps, SummarySteps

\* The process dies, of a panic or of itself, and is started again.
LEMMA ProcessSteps ==
  ASSUME StorageTypeOK, ConsumersTypeOK,
         ConsumerPanic \/ ConsumersCrash \/ Restart
  PROVE  StorageTypeOK' /\ ConsumersTypeOK'
<1>1. /\ UNCHANGED <<storageVars, embeddingError, summaryError, upserts>>
      /\ up' \in BOOLEAN
      /\ \/ UNCHANGED restarts
         \/ restarts < MaxRestarts /\ restarts' = restarts + 1
      /\ \/ embeddingPc' = "idle" /\ vectorId' = 0 /\ summaryPc' = "idle"
         \/ UNCHANGED <<embeddingVars, summaryPc>>
  BY DEF ConsumerPanic, ConsumersCrash, ConsumersDie, Restart
<1>2. restarts' \in 0..MaxRestarts
  BY <1>1, ConsumersAssumption DEF ConsumersTypeOK
<1>3. vectorId' \in 0..(upserts')
  BY <1>1, ConsumersAssumption DEF ConsumersTypeOK, embeddingVars
<1>4. StorageTypeOK'
  BY <1>1 DEF storageVars, StorageTypeOK
<1>5. ConsumersTypeOK'
  BY <1>1, <1>2, <1>3 DEF storageVars, embeddingVars, ConsumersTypeOK
<1>6. QED
  BY <1>4, <1>5
=============================================================================
