---------------------------- MODULE ChunkDelivery ----------------------------
(***************************************************************************)
(* The two chunk consumers against an abstract indexer, one goroutine that  *)
(* writes a chunk and then publishes it and, in ReindexingSpec, discards    *)
(* chunks again: it reads the ids of their vectors, deletes the vectors     *)
(* call by call and then the rows.  Any call may fail and the process may   *)
(* die anywhere.  IndexWorker is the indexer in detail, with the events     *)
(* that make it run; Synthy puts it in place of this one.                   *)
(*                                                                          *)
(* A file is indexed once here.  What a later run makes of it has chunk ids *)
(* of its own and is another file to the consumers.                         *)
(***************************************************************************)
EXTENDS ChunkConsumers

VARIABLES
  published,    \* paths whose chunk has been written and published
  indexPc,      \* what the indexer is at: nothing, publishing or discarding
  target,       \* the paths it is at
  doomed,       \* vector ids it has read and not yet deleted
  interrupted   \* history: paths it was at when a call failed or the process
                \* died.  The event of such a run is delivered again or parked

indexerVars == <<published, indexPc, target, doomed, interrupted>>
vars == <<storageVars, consumerVars, indexerVars>>

ChunkOf(p) == <<p, 1>>

\* The tables, the queues and the consumers' locals have their types.
TypeOK ==
  /\ StorageTypeOK
  /\ ConsumersTypeOK
  /\ published \subseteq Paths
  /\ indexPc \in {"idle", "publish", "discard"}
  /\ target \subseteq Paths
  /\ indexPc = "idle" <=> target = {}
  /\ doomed \subseteq VectorIds
  /\ interrupted \subseteq Paths

Init ==
  /\ EmptyStorage
  /\ ConsumersInit
  /\ published = {}
  /\ indexPc = "idle"
  /\ target = {}
  /\ doomed = {}
  /\ interrupted = {}

-----------------------------------------------------------------------------
(* The indexer.                                                            *)

IndexerIdle == indexPc' = "idle" /\ target' = {} /\ doomed' = {}

\* ChunkService.ProcessFile commits the rows of a file's chunks.
InsertChunk(p) ==
  /\ up /\ indexPc = "idle"
  /\ p \notin published \cup interrupted
  /\ InsertChunks({ChunkOf(p)})
  /\ indexPc' = "publish"
  /\ target' = {p}
  /\ UNCHANGED <<graphVars, vector, embeddingQueue, summaryQueue,
                 consumerVars, published, doomed, interrupted>>

\* PublishEmbedding
PublishChunk ==
  /\ up /\ indexPc = "publish"
  /\ \E p \in target : PublishEmbedding(ChunkOf(p))
  /\ published' = published \cup target
  /\ IndexerIdle
  /\ UNCHANGED <<graphVars, chunk, vector, consumerVars, interrupted>>

\* deleteFileVectors, or deleteRepositoryVectors for all files of a
\* repository, lists the chunks and keeps their embedding ids.
ReadEmbeddingIds(S) ==
  /\ up /\ indexPc = "idle"
  /\ S # {}
  /\ \A p \in S : ChunkOf(p) \in DOMAIN chunk
  /\ indexPc' = "discard"
  /\ target' = S
  /\ doomed' = EmbeddingIdsOf(S)
  /\ UNCHANGED <<storageVars, consumerVars, published, interrupted>>

\* DeleteVectors, a batch at a time: whatever the size of a batch is.
DeleteVectorBatch ==
  /\ up /\ indexPc = "discard"
  /\ \E batch \in SUBSET doomed \ {{}} :
       /\ DeleteVectors(batch)
       /\ doomed' = doomed \ batch
  /\ UNCHANGED <<graphVars, chunk, embeddingQueue, summaryQueue, consumerVars,
                 published, indexPc, target, interrupted>>

\* DeleteFileByID, or the deletion of all files; the messages of the chunks
\* stay in the queues.
DeleteRows ==
  /\ up /\ indexPc = "discard"
  /\ doomed = {}
  /\ DeleteFiles(target)
  /\ IndexerIdle
  /\ UNCHANGED <<repository, absPaths, vector, embeddingQueue, summaryQueue,
                 consumerVars, published, interrupted>>

\* Where a run ends early it leaves everything as it is.
RunEnds == IndexerIdle /\ interrupted' = interrupted \cup target

\* A call fails and the run with it.  (One that fails although it was carried
\* out is the run that fails at its next call.)
IndexFails ==
  /\ CallFaults
  /\ up /\ indexPc # "idle"
  /\ RunEnds
  /\ UNCHANGED <<storageVars, consumerVars, published>>

Index == (\E p \in Paths : InsertChunk(p)) \/ PublishChunk \/ IndexFails

Discard ==
  \/ \E S \in SUBSET Paths : ReadEmbeddingIds(S)
  \/ DeleteVectorBatch \/ DeleteRows

-----------------------------------------------------------------------------
(* The composition.                                                        *)

Consumers ==
  /\ EmbeddingConsumer \/ SummaryConsumer
  /\ UNCHANGED indexerVars

\* The indexer is a goroutine of the same process and ends with it.  (There is
\* a nil chunk only once chunks are discarded.)
Process ==
  /\ \/ ConsumerPanic /\ RunEnds
     \/ Restart /\ UNCHANGED <<indexPc, target, doomed, interrupted>>
  /\ UNCHANGED published

Crash == ConsumersCrash /\ RunEnds /\ UNCHANGED published

Next == Index \/ Consumers \/ Process \/ Crash

Spec == Init /\ [][Next]_vars

\* Both goroutines are scheduled, a panic is not put off for ever and the
\* supervisor restarts a dead process.
Fairness ==
  /\ WF_vars(EmbeddingConsumer /\ UNCHANGED indexerVars)
  /\ WF_vars(SummaryConsumer /\ UNCHANGED indexerVars)
  /\ WF_vars(Process)

FairSpec == Spec /\ Fairness

\* The same with files indexed anew, whose chunks are discarded while their
\* messages wait.
ReindexingNext == Next \/ Discard

ReindexingSpec == Init /\ [][ReindexingNext]_vars /\ Fairness

-----------------------------------------------------------------------------
Unreferenced ==
  {v \in DOMAIN vector : \A c \in DOMAIN chunk : chunk[c].embedding # v}

\* The vector id the embedding consumer still knows of.
Held == IF embeddingPc \in {"update", "rollback"} THEN {vectorId} ELSE {}

\* The indexer is at work on c's file, or a run over it ended early and its
\* event is still to be done.
InRun(c) == c[1] \in target \cup interrupted

\* A chunk that lacks its embedding or its summary still has its message in
\* the queue or in the error queue; only between the commit of its row and
\* the publish may it have none, and what ends the run there leaves its event.
\* Once a chunk has been published nothing but its own queues answers for it.
NoLostWork ==
  \A c \in DOMAIN chunk :
    LET unpublished == c[1] \notin published /\ InRun(c) IN
    /\ chunk[c].embedding = 0 =>
         InQueue(c, embeddingQueue) \/ c \in embeddingError \/ unpublished
    /\ ~ chunk[c].summary =>
         InQueue(c, summaryQueue) \/ c \in summaryError \/ unpublished

\* An embedding_id that points at no vector is that of a chunk whose message
\* is still queued or sits in the error queue, or whose vector the indexer has
\* deleted and whose row it is still to delete, now or when the run is
\* repeated: neither the roll-back of a vector nor a discard cut short leaves
\* a chunk that no query can find and nobody will come back to.
NoSilentDangling ==
  \A c \in DOMAIN chunk :
    chunk[c].embedding \notin DOMAIN vector \cup {0} =>
      InQueue(c, embeddingQueue) \/ c \in embeddingError \/ InRun(c)

\* While no chunk is discarded, a vector no chunk refers to is in the hands of
\* the consumer, or that of a message being rejected or parked, or was leaked
\* by a crash - and a crash leaks one vector at most.
LeaksBounded ==
  LET explained(v) ==
        \/ v \in Held
        \/ vector[v] \in embeddingError
        \/ embeddingPc = "nack" /\ vector[v] = EmbeddingMessage
  IN Cardinality({v \in Unreferenced : ~ explained(v)}) <= restarts

\* The two consumers write different columns of one row while the other holds
\* an older copy of it: neither undoes what the other wrote.
ColumnsKept ==
  [][\A c \in DOMAIN chunk \cap DOMAIN chunk' :
       /\ chunk[c].summary => chunk'[c].summary
       /\ chunk[c].embedding # 0 => chunk'[c].embedding # 0]_vars

Embedded(c) == c \in DOMAIN chunk /\ chunk[c].embedding \in DOMAIN vector
Summarized(c) == c \in DOMAIN chunk /\ chunk[c].summary

\* Every published chunk is embedded and summarized, or its message parked:
\* both queues drain, whatever call fails and wherever the process dies.
EveryChunkServed ==
  \A p \in Paths :
    /\ p \in published ~>
         /\ ~ InQueue(ChunkOf(p), embeddingQueue)
         /\ Embedded(ChunkOf(p)) \/ ChunkOf(p) \in embeddingError
    /\ p \in published ~>
         /\ ~ InQueue(ChunkOf(p), summaryQueue)
         /\ Summarized(ChunkOf(p)) \/ ChunkOf(p) \in summaryError

(* A claim of the repository that does not hold once chunks are discarded. *)

\* README.md: "a chunk that cannot be processed lands in embedding_queue_error
\* / summary_queue_error instead of spinning forever".
NeverSpins ==
  \A p \in Paths : InQueue(ChunkOf(p), embeddingQueue)
                     ~> ~ InQueue(ChunkOf(p), embeddingQueue)
=============================================================================
