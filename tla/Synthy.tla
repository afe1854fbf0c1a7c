-------------------------------- MODULE Synthy --------------------------------
(***************************************************************************)
(* The process cmd/synthy starts: the index worker and the two chunk        *)
(* consumers, three goroutines over the same tables, vectors and queues.    *)
(* They share nothing in memory, but they die together: a panic of any of   *)
(* them, like a crash, ends the process in the middle of whatever the       *)
(* others are doing.                                                        *)
(***************************************************************************)
EXTENDS IndexWorker, ChunkConsumers

\* The consumers number the vectors from 1, and so does a legacy database.
ASSUME NotLegacyAssumption == ~ Legacy

synthyVars == <<storageVars, indexVars, consumerVars>>

SynthyTypeOK == TypeOK /\ ConsumersTypeOK

SynthyInit == Init /\ ConsumersInit

\* The index worker in a running process.
IndexStep == up /\ (Worker \/ Reject) /\ UNCHANGED consumerVars

RequestStep == Requests /\ UNCHANGED consumerVars

EmbeddingStep == EmbeddingConsumer /\ UNCHANGED indexVars

SummaryStep == SummaryConsumer /\ UNCHANGED indexVars

\* What the end of the process does to the index worker.
IndexingDies ==
  IF Working THEN CrashIndexing ELSE UNCHANGED indexVars

Panic == ConsumerPanic /\ IndexingDies

ProcessCrash == ConsumersCrash /\ IndexingDies

ProcessRestart == Restart /\ UNCHANGED indexVars

SynthyNext ==
  \/ IndexStep \/ RequestStep
  \/ EmbeddingStep \/ SummaryStep
  \/ Panic \/ ProcessCrash \/ ProcessRestart

SynthySpec == SynthyInit /\ [][SynthyNext]_synthyVars

-----------------------------------------------------------------------------
\* The indexer has written the chunk's row and is about to publish it.
Unpublished(c) == pc = "publish" /\ c = <<CHOOSE p \in scope : TRUE, Attempt>>

\* In a requested repository, a chunk without an embedding or a summary is
\* queued, parked, about to be published, or belongs to a file that an
\* outstanding event will index again: the three loops, dying at any point,
\* never leave a chunk that no query can find and nobody will embed.
NoForgottenChunk ==
  Requested => \A c \in DOMAIN chunk :
    /\ chunk[c].embedding = 0 =>
         \/ InQueue(c, embeddingQueue) \/ c \in embeddingError
         \/ Unpublished(c) \/ Covered(c[1])
    /\ ~ chunk[c].summary =>
         \/ InQueue(c, summaryQueue) \/ c \in summaryError
         \/ Unpublished(c) \/ Covered(c[1])

\* An embedding_id whose vector is gone belongs to a file the worker is about
\* to discard (or was, when it failed), or to a message being rejected: the
\* vectors-before-rows order never leaves a live chunk without its vector.
NoDanglingEmbedding ==
  Requested => \A c \in DOMAIN chunk :
    chunk[c].embedding \notin DOMAIN vector \cup {0} =>
      \/ Covered(c[1])
      \/ c \in embeddingError \/ InQueue(c, embeddingQueue)

\* A push costs only the files it names: an incremental run deletes no other
\* file's chunk and no other file's vector (the embedding consumer may be
\* rolling its own back meanwhile).
OthersSpared ==
  [][Working /\ ~ full =>
       /\ \A c \in DOMAIN chunk \ DOMAIN chunk' : Mentions(Event, c[1])
       /\ \A v \in DOMAIN vector \ DOMAIN vector' :
            \/ Mentions(Event, vector[v][1])
            \/ embeddingPc = "rollback" /\ v = vectorId]_synthyVars

(* A claim of the code that does not hold.                                 *)

\* analysisPipeline.go: the vectors are dropped before the rows that point at
\* them, or they "would sit in Pinecone forever, matching queries for code that
\* no longer exists": with the worker and the consumer at rest, a vector whose
\* message is settled is that of a chunk.
NoOrphanVector ==
  pc = "idle" /\ embeddingPc = "idle" =>
    \A v \in DOMAIN vector :
      \/ InQueue(vector[v], embeddingQueue)
      \/ \E c \in DOMAIN chunk : chunk[c].embedding = v
===============================================================================
