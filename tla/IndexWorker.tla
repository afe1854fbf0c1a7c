----------------------------- MODULE IndexWorker -----------------------------
(***************************************************************************)
(* The index consumer of one repository: RepositoryEventController.handle   *)
(* and the AnalysisPipeline it runs, one repository event at a time, with   *)
(* the queue the events come from and the pushes that produce them.         *)
(*                                                                          *)
(* Events never leave the sequence `events`: the first `settled` of them    *)
(* were acked, or nacked into the dead-letter exchange (`dead`), and        *)
(* events[settled + 1] is the one delivered.  A crash leaves it unacked, so *)
(* the next delivery is the same event again.                               *)
(***************************************************************************)
EXTENDS Storage

CONSTANTS DeleteBatch,  \* pineconeDeleteBatch: vector ids per delete call
          Faults,       \* may a call to git, Postgres, Pinecone... fail?
          Legacy,       \* may the database come from a legacy release?
          MaxEvents,    \* bound: repository events published
          MaxCrashes    \* bound: crashes in the middle of an event

ASSUME ParametersAssumption ==
  /\ DeleteBatch \in Nat \ {0}
  /\ Faults \in BOOLEAN
  /\ Legacy \in BOOLEAN
  /\ MaxEvents \in Nat
  /\ MaxCrashes \in Nat

VARIABLES
  head,      \* the branch tip: content version per path, 0 when absent
  events,    \* every repository event published, oldest first
  settled,   \* how many of them have been acked or nacked
  dead,      \* indices of the nacked ones
  crashes,   \* crashes that interrupted an event
  pc,        \* the step the pipeline is at
  clone,     \* the checkout of the current event
  full,      \* processFull runs, not processIncremental
  todo,      \* paths the current loop has still to visit
  scope,     \* paths whose rows or chunk the current iteration handles
  doomed,    \* vector ids still to be deleted before the rows of scope
  baseline   \* history: a full index has completed since the rows were
             \* last cleared

queueVars == <<head, events>>
workVars == <<clone, full, todo, scope, doomed>>
indexVars == <<head, events, settled, dead, crashes, pc, clone, full, todo,
               scope, doomed, baseline>>
vars == <<storageVars, indexVars>>

-----------------------------------------------------------------------------
(* Repository events.                                                      *)

FullIndexEvent == [type |-> "FULL_INDEX", changed |-> {}, removed |-> {}]

PushEvent(C, R) ==
  [type |-> "INCREMENTAL_INDEX", changed |-> C, removed |-> R]

Events == {FullIndexEvent} \cup
          {PushEvent(C, R) : C \in SUBSET Paths, R \in SUBSET Paths}

\* What an event asks to bring up to date.
Mentions(e, p) ==
  e.type = "FULL_INDEX" \/ p \in e.changed \/ p \in e.removed

Steps == {"idle", "upsert", "list", "discard", "vectors", "load", "files",
          "calls", "imports", "chunk", "publish", "ack"}

Working == pc # "idle"
Event == events[settled + 1]

\* Unique per delivery; it stands for the random ids a delivery draws.
Attempt == settled + crashes + 1

\* The files this run inserts rows for: ProcessFiles over the packages of the
\* clone, restricted to the changed paths by an incremental index.
Fresh == {p \in Paths : clone[p] # 0 /\ (full \/ p \in Event.changed)}

IndexTypeOK ==
  /\ head \in [Paths -> Versions]
  /\ events \in Seq(Events)
  /\ settled \in 0..Len(events)
  /\ dead \subseteq 1..settled
  /\ crashes \in Nat
  /\ pc \in Steps
  /\ Working => settled < Len(events)
  /\ clone \in [Paths -> Versions]
  /\ full \in BOOLEAN
  /\ todo \subseteq Paths
  /\ scope \subseteq Paths
  /\ doomed \subseteq VectorIds
  /\ baseline \in BOOLEAN

\* The tables, the queue and the pipeline's locals have their types.
TypeOK == StorageTypeOK /\ IndexTypeOK

\* Mutant: handle goes on after it settled the event.
RestKeepsStep ==
  /\ clone' = [p \in Paths |-> 0]
  /\ full' = FALSE
  /\ todo' = {}
  /\ scope' = {}
  /\ doomed' = {}
  /\ UNCHANGED pc

\* The pipeline's locals between two events.
Rest ==
  /\ pc' = "idle"
  /\ clone' = [p \in Paths |-> 0]
  /\ full' = FALSE
  /\ todo' = {}
  /\ scope' = {}
  /\ doomed' = {}

IndexInit ==
  /\ head = [p \in Paths |-> 1]
  /\ events = <<>>
  /\ settled = 0
  /\ dead = {}
  /\ crashes = 0
  /\ pc = "idle"
  /\ clone = [p \in Paths |-> 0]
  /\ full = FALSE
  /\ todo = {}
  /\ scope = {}
  /\ doomed = {}

Init ==
  /\ IndexInit
  /\ \/ EmptyStorage /\ baseline = FALSE
     \/ Legacy /\ LegacyStorage /\ baseline = TRUE

-----------------------------------------------------------------------------
(* The environment: developers push, organizations ask for an index.       *)

\* A push leaves the files C changed and the files R absent (NetFileChanges
\* shows that its event says so; a file it adds and removes again is in R).  The
\* sets are empty when it touches no Go file.
Push(C, R) ==
  /\ Len(events) < MaxEvents
  /\ C \cap R = {}
  /\ head' = [p \in Paths |-> CASE p \in C -> Len(events) + 2
                                [] p \in R -> 0
                                [] OTHER -> head[p]]
  /\ events' = Append(events, PushEvent(C, R))
  /\ UNCHANGED <<storageVars, settled, dead, crashes, pc, workVars, baseline>>

\* POST /github/index publishes a FULL_INDEX event.
RequestFullIndex ==
  /\ Len(events) < MaxEvents
  /\ events' = Append(events, FullIndexEvent)
  /\ UNCHANGED <<storageVars, head, settled, dead, crashes, pc, workVars,
                 baseline>>

-----------------------------------------------------------------------------
(* The consumer loop: delivery, ack, nack.                                 *)

\* The event is delivered and the branch cloned.  The clone is of the tip,
\* which may be newer than the push the event reports.
Clone ==
  /\ pc = "idle"
  /\ settled < Len(events)
  /\ clone' = head
  /\ pc' = "upsert"
  /\ UNCHANGED <<storageVars, queueVars, settled, dead, crashes, full, todo,
                 scope, doomed, baseline>>

\* No installation token, no organization, or no clone: nacked at once.
Reject ==
  /\ Faults
  /\ pc = "idle"
  /\ settled < Len(events)
  /\ dead' = dead \cup {settled + 1}
  /\ settled' = settled + 1
  /\ UNCHANGED <<storageVars, queueVars, crashes, pc, workVars, baseline>>

\* The pipeline returned nil: msg.Ack().
Ack ==
  /\ pc = "ack"
  /\ settled' = settled + 1
  /\ baseline' = (baseline \/ full)
  /\ Rest
  /\ UNCHANGED <<storageVars, queueVars, dead, crashes>>

\* A repository with no Go package left cannot be loaded.
NoPackages == pc = "load" /\ \A p \in Paths : clone[p] = 0

\* UNIQUE (repository_id, path): a row that is still there fails its INSERT.
PathConflict == pc = "files" /\ \E p \in todo : file[p] # 0

\* Mutant: the queue has no dead-letter exchange.
FailDropsEvent ==
  /\ Working /\ pc # "ack"
  /\ Faults \/ NoPackages \/ PathConflict
  /\ settled' = settled + 1
  /\ Rest
  /\ UNCHANGED <<storageVars, queueVars, dead, crashes, baseline>>

\* Mutant: fail() rejects with requeue.
FailRequeues ==
  /\ Working /\ pc # "ack"
  /\ Faults \/ NoPackages \/ PathConflict
  /\ Rest
  /\ UNCHANGED <<storageVars, queueVars, settled, dead, crashes, baseline>>

\* A step returned an error: fail() rejects the event without requeue.  What
\* the earlier steps wrote stays: only each statement is a transaction.
Fail ==
  /\ Working /\ pc # "ack"
  /\ Faults \/ NoPackages \/ PathConflict
  /\ dead' = dead \cup {settled + 1}
  /\ settled' = settled + 1
  /\ Rest
  /\ UNCHANGED <<storageVars, queueVars, crashes, baseline>>

\* Mutant: the events are consumed with autoAck.
CrashAutoAcked ==
  /\ Working
  /\ crashes < MaxCrashes
  /\ crashes' = crashes + 1
  /\ settled' = settled + 1
  /\ Rest
  /\ UNCHANGED <<queueVars, dead, baseline>>

\* The process dies in the middle of an event and is started again.
CrashIndexing ==
  /\ Working
  /\ crashes < MaxCrashes
  /\ crashes' = crashes + 1
  /\ Rest
  /\ UNCHANGED <<queueVars, settled, dead, baseline>>

Crash == CrashIndexing /\ UNCHANGED storageVars

-----------------------------------------------------------------------------
(* AnalysisPipeline.                                                       *)

\* ProcessRepository: the row is upserted; only an incremental event of a
\* repository that already had one is incremental.
UpsertRepository ==
  /\ pc = "upsert"
  /\ UpsertRepositoryRow
  /\ \/ /\ Event.type = "INCREMENTAL_INDEX" /\ repository
        /\ pc' = "list"
        /\ UNCHANGED <<full, todo>>
     \/ /\ ~ (Event.type = "INCREMENTAL_INDEX" /\ repository)
        /\ full' = TRUE
        /\ IF repository THEN pc' = "discard" /\ todo' = Paths
                         ELSE pc' = "load" /\ UNCHANGED todo
  /\ UNCHANGED <<file, absPaths, symbol, callEdge, importEdge, chunk, vector,
                 embeddingQueue, summaryQueue, queueVars, settled, dead,
                 crashes, clone, scope, doomed, baseline>>

\* Mutant: removed files are not discarded.
NamedIfChanged == Event.changed

\* Mutant: an incremental index discards every file it knows.
NamedAll == Paths

\* The files an incremental index discards when it knows them.
Named == Event.changed \cup Event.removed

\* processIncremental, first part: a legacy index is rebuilt; a push without
\* Go files is done; otherwise the known files it names are to be discarded.
ListFiles ==
  LET known == Named \cap Indexed IN
  /\ pc = "list"
  /\ \/ /\ absPaths
        /\ full' = TRUE
        /\ todo' = Paths
        /\ pc' = "discard"
     \/ /\ ~ absPaths
        /\ full' = FALSE
        /\ todo' = known
        /\ pc' = CASE Named = {} -> "ack"
                   [] Named # {} /\ known = {} -> "load"
                   [] OTHER -> "discard"
  /\ UNCHANGED <<storageVars, queueVars, settled, dead, crashes, clone, scope,
                 doomed, baseline>>

\* deleteRepositoryVectors, or deleteFileVectors of the next known file: the
\* embedding ids are read from the chunk rows.
ReadEmbeddingIds ==
  /\ pc = "discard"
  /\ \/ full /\ scope' = todo
     \/ ~ full /\ \E p \in todo : scope' = {p}
  /\ doomed' = EmbeddingIdsOf(scope')
  /\ pc' = "vectors"
  /\ UNCHANGED <<storageVars, queueVars, settled, dead, crashes, clone, full,
                 todo, baseline>>

\* deleteVectorsForChunks sends the ids in calls of at most DeleteBatch.
Batches == {B \in SUBSET doomed :
              \/ Cardinality(B) = DeleteBatch
              \/ B = doomed /\ Cardinality(B) \in 1..DeleteBatch}

DeleteVectorBatch ==
  /\ pc = "vectors"
  /\ \E B \in Batches :
       /\ DeleteVectors(B)
       /\ doomed' = doomed \ B
  /\ UNCHANGED <<graphVars, chunk, embeddingQueue, summaryQueue, queueVars,
                 settled, dead, crashes, pc, clone, full, todo, scope,
                 baseline>>

\* Mutant: an off-by-one in the batch loop keeps the last call from being sent.
DeleteRowsBeforeLastBatch ==
  /\ pc = "vectors"
  /\ Cardinality(doomed) <= DeleteBatch
  /\ DeleteFiles(scope)
  /\ absPaths' = (absPaths /\ ~ full)
  /\ baseline' = (baseline /\ ~ full)
  /\ todo' = todo \ scope
  /\ pc' = IF todo' = {} THEN "load" ELSE "discard"
  /\ scope' = {}
  /\ doomed' = {}
  /\ UNCHANGED <<repository, vector, embeddingQueue, summaryQueue, queueVars,
                 settled, dead, crashes, clone, full>>

\* DeleteFilesByRepositoryID, or DeleteFileByID, once the vectors are gone.
DeleteFileRows ==
  /\ pc = "vectors"
  /\ doomed = {}
  /\ DeleteFiles(scope)
  /\ absPaths' = (absPaths /\ ~ full)
  /\ baseline' = (baseline /\ ~ full)
  /\ todo' = todo \ scope
  /\ pc' = IF todo' = {} THEN "load" ELSE "discard"
  /\ scope' = {}
  /\ UNCHANGED <<repository, vector, embeddingQueue, summaryQueue, queueVars,
                 settled, dead, crashes, clone, full, doomed>>

\* loadPackages found packages: the loop over their files starts.
LoadPackages ==
  /\ pc = "load"
  /\ ~ NoPackages
  /\ pc' = "files"
  /\ todo' = Fresh
  /\ UNCHANGED <<storageVars, queueVars, settled, dead, crashes, clone, full,
                 scope, doomed, baseline>>

\* FileService.ProcessFiles, one INSERT per file.
InsertFile ==
  /\ pc = "files"
  /\ \E p \in todo :
       /\ file[p] = 0
       /\ InsertFileRow(p, clone[p])
       /\ todo' = todo \ {p}
  /\ UNCHANGED <<repository, absPaths, symbol, callEdge, importEdge, chunk,
                 vector, embeddingQueue, summaryQueue, queueVars, settled,
                 dead, crashes, pc, clone, full, scope, doomed, baseline>>

\* Mutant: only the files the event names get their symbols.
ExtractNamedSymbols ==
  /\ pc = "files"
  /\ todo = {}
  /\ InsertSymbols(Fresh \cap Event.changed)
  /\ pc' = "calls"
  /\ UNCHANGED <<repository, file, absPaths, callEdge, importEdge, chunk,
                 vector, embeddingQueue, summaryQueue, queueVars, settled,
                 dead, crashes, workVars, baseline>>

\* SymbolService.ExtractAndSave: the symbols of the new files, in one
\* transaction.
ExtractSymbols ==
  /\ pc = "files"
  /\ todo = {}
  /\ InsertSymbols(Fresh)
  /\ pc' = "calls"
  /\ UNCHANGED <<repository, file, absPaths, callEdge, importEdge, chunk,
                 vector, embeddingQueue, summaryQueue, queueVars, settled,
                 dead, crashes, workVars, baseline>>

\* Mutant: fileMap holds the new rows only.
ReferringFresh == {r \in Refs : {r[1], r[2]} \subseteq Fresh}

\* The pairs an edge row is built for: both files are in the clone and in
\* fileMap, which holds the surviving and the new rows - every row there is.
Referring == {r \in Refs : {r[1], r[2]} \subseteq Indexed
                             /\ clone[r[1]] # 0 /\ clone[r[2]] # 0}

\* callService.BuildAndSave inserts a row per call whose caller and callee
\* have symbols; it deletes none.
BuildCallEdges ==
  /\ pc = "calls"
  /\ InsertCallEdges({r \in Referring : {r[1], r[2]} \subseteq symbol})
  /\ pc' = "imports"
  /\ UNCHANGED <<repository, file, absPaths, symbol, importEdge, chunk, vector,
                 embeddingQueue, summaryQueue, queueVars, settled, dead,
                 crashes, workVars, baseline>>

\* Mutant: chunkAndPublish visits every file of the clone.
BuildEdgesChunkAll ==
  /\ pc = "imports"
  /\ InsertImportEdges(Referring)
  /\ todo' = {p \in Paths : clone[p] # 0}
  /\ pc' = "chunk"
  /\ UNCHANGED <<repository, file, absPaths, symbol, callEdge, chunk, vector,
                 embeddingQueue, summaryQueue, queueVars, settled, dead,
                 crashes, clone, full, scope, doomed, baseline>>

\* importService.BuildAndSave, likewise; then the loop of chunkAndPublish.
BuildImportEdges ==
  /\ pc = "imports"
  /\ InsertImportEdges(Referring)
  /\ todo' = Fresh
  /\ pc' = IF Fresh = {} THEN "ack" ELSE "chunk"
  /\ UNCHANGED <<repository, file, absPaths, symbol, callEdge, chunk, vector,
                 embeddingQueue, summaryQueue, queueVars, settled, dead,
                 crashes, clone, full, scope, doomed, baseline>>

\* ChunkService.ProcessFile: the chunk row of the next file, with a new id.
InsertChunk ==
  /\ pc = "chunk"
  /\ \E p \in todo :
       /\ InsertChunks({<<p, Attempt>>})
       /\ scope' = {p}
       /\ todo' = todo \ {p}
  /\ pc' = "publish"
  /\ UNCHANGED <<graphVars, vector, embeddingQueue, summaryQueue, queueVars,
                 settled, dead, crashes, clone, full, doomed, baseline>>

\* embeddingPublisher.PublishEmbedding for that chunk.
PublishChunk ==
  /\ pc = "publish"
  /\ \E p \in scope : PublishEmbedding(<<p, Attempt>>)
  /\ scope' = {}
  /\ pc' = IF todo = {} THEN "ack" ELSE "chunk"
  /\ UNCHANGED <<graphVars, chunk, vector, queueVars, settled, dead, crashes,
                 clone, full, todo, doomed, baseline>>

-----------------------------------------------------------------------------
Pipeline ==
  \/ UpsertRepository \/ ListFiles
  \/ ReadEmbeddingIds \/ DeleteVectorBatch \/ DeleteFileRows
  \/ LoadPackages \/ InsertFile \/ ExtractSymbols
  \/ BuildCallEdges \/ BuildImportEdges
  \/ InsertChunk \/ PublishChunk

\* The consumer goroutine: it takes a step whenever it can.
Worker == Clone \/ Pipeline \/ Ack \/ Fail

\* Developers and organizations.
Requests == RequestFullIndex \/ \E C, R \in SUBSET Paths : Push(C, R)

Next == Requests \/ Worker \/ Reject \/ Crash

Spec == Init /\ [][Next]_vars

\* The Go scheduler runs the consumer goroutine and a restarted process
\* consumes again; nothing obliges anybody to push, or the process to crash.
FairSpec == Spec /\ WF_vars(Worker)
-----------------------------------------------------------------------------
(* Correctness.                                                            *)

\* The organization asked for this repository to be indexed.
Requested == \E i \in DOMAIN events : events[i].type = "FULL_INDEX"

\* An event still to be processed, or rejected into the dead-letter exchange.
Outstanding(i) == i > settled \/ i \in dead

\* An event that names p is outstanding, and so is every later one: nothing
\* has brought p up to date since.
Covered(p) ==
  \E i \in DOMAIN events :
    /\ Mentions(events[i], p)
    /\ \A j \in DOMAIN events :
         j >= i /\ Mentions(events[j], p) => Outstanding(j)

Stale(p) == file[p] # head[p] \/ absPaths \/ ~ repository

\* Every file whose row differs from the branch tip is owed to an event that
\* waits in the queue or lies in the dead-letter exchange: no push is absorbed
\* without effect, whatever crashed, failed or was redelivered, and although a
\* clone may be newer than the push it was made for.
Freshness == Requested => \A p \in Paths : Stale(p) => Covered(p)

\* A file row without its symbols or its chunk is owed to an event too: an
\* interrupted run never passes for a finished one.
GraphFollowsFiles ==
  Requested => \A p \in Indexed :
    p \notin symbol \/ (\A c \in DOMAIN chunk : c[1] # p) => Covered(p)

\* The rows a run inserts never meet a row an earlier run left behind, even
\* when that run died half way: UNIQUE (repository_id, path) is never violated.
NoPathConflict == ~ PathConflict

\* A file's chunks all come from one run: no file is in the index twice.
OneGeneration == \A c, d \in DOMAIN chunk : c[1] = d[1] => c = d

\* Every vector is that of a chunk: a run that is interrupted between two calls
\* to Pinecone, or between the last one and the DELETE, leaves no vector that no
\* row leads to.
VectorsOwned ==
  \A v \in DOMAIN vector : \E c \in DOMAIN chunk : chunk[c].embedding = v

Idle == pc = "idle" /\ settled = Len(events)

\* When no event of a requested repository was lost, an idle worker leaves an
\* edge for every reference between two indexed files: deleting one end's row
\* and inserting it again does not lose the edges of the files left alone.
EdgesComplete ==
  Requested /\ Idle /\ dead = {} =>
    \A r \in Refs : {r[1], r[2]} \subseteq Indexed =>
                      callEdge[r] > 0 /\ importEdge[r] > 0

\* Without faults every event is acked, or nacked, in the end.
EventsSettle ==
  \A i \in 1..MaxEvents : Len(events) >= i ~> settled >= i

\* ...and the index of a requested repository converges to the branch tip,
\* unless some event was dead-lettered.
Converges == <>[](Requested /\ dead = {} => file = head)

-----------------------------------------------------------------------------
(* The inductive invariant behind Freshness and NoPathConflict.            *)

LaterMention(i, p) == \E j \in DOMAIN events : j > i /\ Mentions(events[j], p)

\* The run rebuilds the row of p.
Handled(p) == full \/ Mentions(Event, p)

\* The row the run owes to p.
Wanted(p) == IF p \in Fresh THEN clone[p] ELSE 0

Discarding == {"discard", "vectors"}
Inserted == {"calls", "imports", "chunk", "publish", "ack"}

\* Where the clone is behind the tip, a push came after the event's clone.
CloneIsRecent ==
  Working => \A p \in Paths : clone[p] # head[p] => LaterMention(settled + 1, p)

\* A path that is back after its removal is named by a later push: the queue
\* is first in, first out.
RemovalsLast ==
  \A i \in DOMAIN events : \A p \in events[i].removed :
    head[p] = 0 \/ LaterMention(i, p)

\* A full run is one of a full event, or of an event met by an index that is
\* no baseline; in a requested repository a full event is then outstanding.
FullRuns ==
  /\ full => pc \notin {"idle", "upsert", "list"}
  /\ pc \notin {"idle", "upsert"} /\ Event.type = "FULL_INDEX" => full
  /\ full /\ Requested => \A p \in Paths : Covered(p)

\* There are no file rows without the repository row, and no absolute paths
\* once the run has discarded what it rebuilds.
RowsOwned ==
  /\ pc \notin {"idle", "upsert"} => repository
  /\ ~ repository => ~ absPaths /\ \A p \in Paths : file[p] = 0
  /\ pc \in {"load", "files"} \cup Inserted => ~ absPaths
  /\ pc \in Discarding /\ ~ full => ~ absPaths

\* How far the run has come with the rows it rebuilds.
RowsOfRun ==
  /\ pc \in Discarding =>
       /\ \A p \in todo : Handled(p)
       /\ \A p \in Paths : Handled(p) => p \in todo \/ file[p] = 0
  /\ pc = "vectors" => scope \subseteq todo /\ (full => scope = todo)
  /\ pc = "load" => \A p \in Paths : Handled(p) => file[p] = 0
  /\ pc = "files" =>
       /\ todo \subseteq Fresh
       /\ \A p \in Paths : Handled(p) =>
            file[p] = IF p \in todo THEN 0 ELSE Wanted(p)
  /\ pc \in Inserted => \A p \in Paths : Handled(p) => file[p] = Wanted(p)

\* Every run does to the rows what the events still owe to the branch tip.
FreshnessInv ==
  /\ Freshness
  /\ CloneIsRecent
  /\ RemovalsLast
  /\ FullRuns
  /\ RowsOwned
  /\ RowsOfRun

\* The inductive invariant behind VectorsOwned: what is left of the vectors of
\* the rows about to go is still to be deleted.
VectorsInv ==
  /\ VectorsOwned
  /\ pc = "vectors" =>
       \A c \in DOMAIN chunk :
         c[1] \in scope /\ chunk[c].embedding \in DOMAIN vector =>
           chunk[c].embedding \in doomed

-----------------------------------------------------------------------------
(* Claims of the code that do not hold.                                    *)

\* analysisPipeline.go: "It is honoured only when the repository has been
\* indexed before; the first index is always full."
IncrementalHasBaseline ==
  pc \in {"discard", "vectors", "load", "files"} /\ ~ full => baseline

\* analysisPipeline.go: buildEdges "rebuilds the call and import graph for the
\* repository from scratch", so it leaves one row per reference.
EdgesRebuilt ==
  \A r \in Paths \X Paths : callEdge[r] <= 1 /\ importEdge[r] <= 1
=============================================================================
