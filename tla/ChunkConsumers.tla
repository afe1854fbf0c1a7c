---------------------------- MODULE ChunkConsumers ----------------------------
(***************************************************************************)
(* The embedding and the summary consumer: EmbeddingEventController.Start   *)
(* and SummaryEventController.Start, two goroutines of one process that     *)
(* each take one chunk message at a time (prefetch 1) from their queue.     *)
(* The head of a queue is the message delivered; it leaves the queue when   *)
(* it is acked or nacked, so whatever kills the process before that has it  *)
(* delivered again.  ChunkDelivery runs them against an abstract indexer,   *)
(* Synthy against IndexWorker.                                              *)
(***************************************************************************)
EXTENDS Storage

CONSTANTS CallFaults,   \* may a call of a consumer fail?
          MaxUpserts,   \* bound: vectors ever written
          MaxRestarts   \* bound: crashes that are nobody's panic

ASSUME ConsumersAssumption ==
  /\ CallFaults \in BOOLEAN
  /\ MaxUpserts \in Nat
  /\ MaxRestarts \in Nat

VARIABLES
  up,              \* the process runs
  restarts,        \* crashes so far
  embeddingPc,     \* where the embedding consumer is with its message
  vectorId,        \* id of the vector it upserted for it, 0 before
  summaryPc,       \* where the summary consumer is with its message
  embeddingError,  \* embedding_queue_error: messages parked for inspection
  summaryError,    \* summary_queue_error
  upserts          \* vectors written so far; draws the next random id

embeddingVars == <<embeddingPc, vectorId>>
consumerVars == <<up, restarts, embeddingPc, vectorId, summaryPc,
                  embeddingError, summaryError, upserts>>

ConsumersTypeOK ==
  /\ up \in BOOLEAN
  /\ restarts \in 0..MaxRestarts
  /\ embeddingPc \in {"idle", "embed", "update", "rollback", "nack", "ack"}
  /\ embeddingPc # "idle" => embeddingQueue # <<>>
  /\ vectorId \in 0..upserts
  /\ summaryPc \in {"idle", "summarize", "ack"}
  /\ summaryPc # "idle" => summaryQueue # <<>>
  /\ embeddingError \subseteq ChunkIds
  /\ summaryError \subseteq ChunkIds
  /\ upserts \in 0..MaxUpserts

ConsumersInit ==
  /\ up = TRUE
  /\ restarts = 0
  /\ embeddingPc = "idle"
  /\ vectorId = 0
  /\ summaryPc = "idle"
  /\ embeddingError = {}
  /\ summaryError = {}
  /\ upserts = 0

\* A message for c waits or is being handled.
InQueue(c, q) == \E i \in DOMAIN q : q[i] = c

-----------------------------------------------------------------------------
(* The embedding consumer.                                                 *)

EmbeddingMessage == Head(embeddingQueue)

\* GetChunkByID finds the row; the consumer keeps the copy it read.
GetChunkToEmbed ==
  /\ up /\ embeddingPc = "idle" /\ embeddingQueue # <<>>
  /\ EmbeddingMessage \in DOMAIN chunk
  /\ embeddingPc' = "embed"
  /\ UNCHANGED <<storageVars, up, restarts, vectorId, summaryPc,
                 embeddingError, summaryError, upserts>>

\* Mutant: the id is drawn once for all messages of the process.
UpsertSameId ==
  /\ up /\ embeddingPc = "embed"
  /\ upserts < MaxUpserts
  /\ upserts' = upserts + 1
  /\ vectorId' = 1
  /\ UpsertVector(1, EmbeddingMessage)
  /\ embeddingPc' = "update"
  /\ UNCHANGED <<graphVars, chunk, embeddingQueue, summaryQueue, up, restarts,
                 summaryPc, embeddingError, summaryError>>

\* GenerateEmbeddings, then UpsertEmbeddings under a new random id.
UpsertEmbeddings ==
  /\ up /\ embeddingPc = "embed"
  /\ upserts < MaxUpserts
  /\ upserts' = upserts + 1
  /\ vectorId' = upserts'
  /\ UpsertVector(upserts', EmbeddingMessage)
  /\ embeddingPc' = "update"
  /\ UNCHANGED <<graphVars, chunk, embeddingQueue, summaryQueue, up, restarts,
                 summaryPc, embeddingError, summaryError>>

\* Pinecone stored the vector, but the call reported an error.
UpsertReportsError ==
  /\ CallFaults
  /\ up /\ embeddingPc = "embed"
  /\ upserts < MaxUpserts
  /\ upserts' = upserts + 1
  /\ UpsertVector(upserts', EmbeddingMessage)
  /\ embeddingPc' = "nack"
  /\ UNCHANGED <<graphVars, chunk, embeddingQueue, summaryQueue, up, restarts,
                 vectorId, summaryPc, embeddingError, summaryError>>

\* UpdateChunk writes the embedding_id column.
UpdateEmbeddingId ==
  /\ up /\ embeddingPc = "update"
  /\ SetEmbedding(EmbeddingMessage, vectorId)
  /\ embeddingPc' = "ack"
  /\ UNCHANGED <<graphVars, vector, embeddingQueue, summaryQueue, up, restarts,
                 vectorId, summaryPc, embeddingError, summaryError, upserts>>

\* UpdateChunk reports an error; the statement may have been applied all the
\* same, when it is the answer that was lost.
UpdateReportsError ==
  /\ CallFaults
  /\ up /\ embeddingPc = "update"
  /\ SetEmbedding(EmbeddingMessage, vectorId) \/ UNCHANGED chunk
  /\ embeddingPc' = "rollback"
  /\ UNCHANGED <<graphVars, vector, embeddingQueue, summaryQueue, up, restarts,
                 vectorId, summaryPc, embeddingError, summaryError, upserts>>

\* Mutant: the failure is logged and the message acked.
RollBackAndAck ==
  /\ up /\ embeddingPc = "rollback"
  /\ DeleteVectors({vectorId}) \/ UNCHANGED vector
  /\ embeddingPc' = "ack"
  /\ UNCHANGED <<graphVars, chunk, embeddingQueue, summaryQueue, up, restarts,
                 vectorId, summaryPc, embeddingError, summaryError, upserts>>

\* The vector is dropped again; that this may fail is only logged.
RollBackVector ==
  /\ up /\ embeddingPc = "rollback"
  /\ DeleteVectors({vectorId}) \/ UNCHANGED vector
  /\ embeddingPc' = "nack"
  /\ UNCHANGED <<graphVars, chunk, embeddingQueue, summaryQueue, up, restarts,
                 vectorId, summaryPc, embeddingError, summaryError, upserts>>

AckEmbedding ==
  /\ up /\ embeddingPc = "ack"
  /\ embeddingQueue' = Tail(embeddingQueue)
  /\ embeddingPc' = "idle"
  /\ vectorId' = 0
  /\ UNCHANGED <<graphVars, chunk, vector, summaryQueue, up, restarts,
                 summaryPc, embeddingError, summaryError, upserts>>

\* fail() after a failed GetChunkByID, GenerateEmbeddings or UpsertEmbeddings,
\* or after the roll-back: nacked without requeue, so dead-lettered.
EmbeddingCallFailed ==
  /\ CallFaults
  /\ \/ embeddingPc = "embed"
     \/ embeddingPc = "idle" /\ embeddingQueue # <<>>

\* Mutant: the queue has no dead-letter exchange.
NackDropsMessage ==
  /\ up
  /\ embeddingPc = "nack" \/ EmbeddingCallFailed
  /\ embeddingQueue' = Tail(embeddingQueue)
  /\ embeddingPc' = "idle"
  /\ vectorId' = 0
  /\ UNCHANGED <<graphVars, chunk, vector, summaryQueue, up, restarts,
                 summaryPc, embeddingError, summaryError, upserts>>

\* Mutant: the message is requeued.
NackRequeues ==
  /\ up
  /\ embeddingPc = "nack" \/ EmbeddingCallFailed
  /\ embeddingPc' = "idle"
  /\ vectorId' = 0
  /\ UNCHANGED <<storageVars, up, restarts, summaryPc, embeddingError,
                 summaryError, upserts>>

NackEmbedding ==
  /\ up
  /\ embeddingPc = "nack" \/ EmbeddingCallFailed
  /\ embeddingError' = embeddingError \cup {EmbeddingMessage}
  /\ embeddingQueue' = Tail(embeddingQueue)
  /\ embeddingPc' = "idle"
  /\ vectorId' = 0
  /\ UNCHANGED <<graphVars, chunk, vector, summaryQueue, up, restarts,
                 summaryPc, summaryError, upserts>>

-----------------------------------------------------------------------------
(* The summary consumer.                                                   *)

SummaryMessage == Head(summaryQueue)

GetChunkToSummarize ==
  /\ up /\ summaryPc = "idle" /\ summaryQueue # <<>>
  /\ SummaryMessage \in DOMAIN chunk
  /\ summaryPc' = "summarize"
  /\ UNCHANGED <<storageVars, up, restarts, embeddingVars, embeddingError,
                 summaryError, upserts>>

\* GenerateSummary, then UpdateChunk writes the summary column.
UpdateSummary ==
  /\ up /\ summaryPc = "summarize"
  /\ SetSummary(SummaryMessage)
  /\ summaryPc' = "ack"
  /\ UNCHANGED <<graphVars, vector, embeddingQueue, summaryQueue, up, restarts,
                 embeddingVars, embeddingError, summaryError, upserts>>

\* Mutant: the consumer does not leave the message it acked.
AckSummaryAndStay ==
  /\ up /\ summaryPc = "ack"
  /\ summaryQueue' = Tail(summaryQueue)
  /\ UNCHANGED <<graphVars, chunk, vector, embeddingQueue, up, restarts,
                 embeddingVars, summaryPc, embeddingError, summaryError,
                 upserts>>

AckSummary ==
  /\ up /\ summaryPc = "ack"
  /\ summaryQueue' = Tail(summaryQueue)
  /\ summaryPc' = "idle"
  /\ UNCHANGED <<graphVars, chunk, vector, embeddingQueue, up, restarts,
                 embeddingVars, embeddingError, summaryError, upserts>>

\* fail() after any failed call; an UpdateChunk that reports an error may have
\* been applied.
NackSummary ==
  /\ CallFaults
  /\ up
  /\ \/ summaryPc = "idle" /\ summaryQueue # <<>> /\ UNCHANGED chunk
     \/ summaryPc = "summarize" /\ UNCHANGED chunk
     \/ summaryPc = "summarize" /\ SetSummary(SummaryMessage)
  /\ summaryError' = summaryError \cup {SummaryMessage}
  /\ summaryQueue' = Tail(summaryQueue)
  /\ summaryPc' = "idle"
  /\ UNCHANGED <<graphVars, vector, embeddingQueue, up, restarts,
                 embeddingVars, embeddingError, upserts>>

-----------------------------------------------------------------------------
(* The process.                                                            *)

\* What a dying process leaves of the consumers: nothing but their queues.
ConsumersDie ==
  /\ up' = FALSE
  /\ embeddingPc' = "idle"
  /\ vectorId' = 0
  /\ summaryPc' = "idle"
  /\ UNCHANGED <<storageVars, embeddingError, summaryError, upserts>>

\* GetChunkByID returns nil without an error when the row is gone, and both
\* consumers go on to read chunk.Content: a panic nobody recovers.
NilChunk ==
  \/ /\ embeddingPc = "idle" /\ embeddingQueue # <<>>
     /\ EmbeddingMessage \notin DOMAIN chunk
  \/ /\ summaryPc = "idle" /\ summaryQueue # <<>>
     /\ SummaryMessage \notin DOMAIN chunk

ConsumerPanic == up /\ NilChunk /\ ConsumersDie /\ UNCHANGED restarts

\* The process dies for a reason of its own.
ConsumersCrash ==
  /\ up
  /\ restarts < MaxRestarts
  /\ restarts' = restarts + 1
  /\ ConsumersDie

\* The supervisor starts it again.
Restart ==
  /\ ~ up
  /\ up' = TRUE
  /\ UNCHANGED <<storageVars, restarts, embeddingVars, summaryPc,
                 embeddingError, summaryError, upserts>>

EmbeddingConsumer ==
  \/ GetChunkToEmbed \/ UpsertEmbeddings \/ UpsertReportsError
  \/ UpdateEmbeddingId \/ UpdateReportsError \/ RollBackVector
  \/ AckEmbedding \/ NackEmbedding

SummaryConsumer ==
  GetChunkToSummarize \/ UpdateSummary \/ AckSummary \/ NackSummary
=============================================================================
