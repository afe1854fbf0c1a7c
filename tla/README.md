# A TLA+ model of synthy

synthy indexes Go repositories for retrieval: it turns pushes and index requests
into Postgres rows, Pinecone vectors and LLM summaries, and answers queries from
them. This directory models the way of an event - from the organization that
connects its GitHub installation, through the queue and the index run, to the
embedded and summarized chunk and the query that finds it - checks it with TLC on
small instances and proves the properties that matter most with TLAPS.

- [Inventory](#inventory)
- [Modules](#modules)
- [Runs](#runs)
- [Bounds](#bounds), [fairness](#fairness)
- [Proofs](#proofs)
- [What the model found](#what-the-model-found)
- [What is not modelled](#what-is-not-modelled)
- [Plan](#plan)

## Inventory

One process (`cmd/synthy`) runs three consumer goroutines and a gRPC server. The
goroutines share no memory; they meet in the tables, the vector index and the
queues, and they die together.

| Component | State it keeps | Operations | Talks to |
| --- | --- | --- | --- |
| Event subscription (`infra/rabbimq/ingestionSubscriber.go`, `newConn.go`) | the AMQP connection and channel, a goroutine with the delivery it offers | take a delivery, reject garbage, hand over, give back on shutdown, close | event queue, consumer |
| Repository event consumer (`interface/mq/repositoryEventController.go`) | the delivery in hand | mint a token, resolve the organization, clone, run the pipeline, ack, reject | subscription, GitHub, installations, cloner, pipeline |
| Analysis pipeline (`usecase/analysis`) | its locals, the rows it writes | full index, incremental index, vector deletion, edges, chunks | all repositories, Pinecone, embedding publisher |
| Embedding consumer (`interface/mq/embeddingEventController.go`) | the delivery and the chunk it read | embed, upsert, write `embedding_id`, roll back, ack, reject | Voyage/Ollama, Pinecone, `code_chunk` |
| Summary consumer (`interface/mq/summaryEventController.go`) | the delivery and the chunk it read | summarize, write `summary`, ack, reject | the LLM, `code_chunk` |
| Postgres (`infra/psql`) | repository, file, symbol, call_edge, import_edge, code_chunk | one statement or transaction per call; deleting a file cascades | everybody |
| Pinecone (`infra/pinecone`) | vectors with the chunk id as metadata | upsert under a random id, delete by id, query | pipeline, embedding consumer, retrieval |
| RabbitMQ (`infra/rabbimq`) | event queue; embedding and summary queue behind a fanout; error queues | publish, deliver (prefetch 1), ack, nack without requeue | everybody |
| Net file changes (`core/repository/ingestionMapper.go`) | none (pure) | collapse the commits of a push | event consumer |
| File, symbol, call, import and chunk services (`core/...`) | none | derive rows from the package graph | pipeline |
| GitHub use case (`usecase/github`, `interface/api`) | an index request in progress | connect, disconnect, list, request a full index | HTTP API, GitHub client, installations, event publisher |
| Installation repository (`infra/psql/githubInstallationRepository.go`) | `github_installation`: one row per organization, one per installation | upsert, look up by either key, delete | use case, event consumer |
| GitHub client (`infra/github`) | a client per installation | account, repositories, branches, token | GitHub |
| Retrieval (`usecase/retrieval`, `interface/rpc`) | none | embed a query, look chunks up, enrich | Pinecone, Postgres |
| LLM clients, HTTP controllers, wiring, migrations | none of interest | input and output | - |

**What is hard.** No database transaction spans a run, and none spans Postgres and
Pinecone. A crash or a failing call leaves whatever the earlier statements wrote,
and the redelivered event meets its own leftovers. A clone is of the branch *tip*,
so it may be newer than the push it is made for. The chunk consumers use a row
seconds after they read it, while the pipeline may have discarded it; a query reads
vectors before rows. A delivery passes through the client's buffer, a goroutine and
a controller, and its channel may close at each of these places; the connection is
dialled once, so a lost one leaves a live process deaf. An event waits in the queue
while the installation it names changes hands. A failing
message is rejected for good, so no retry repairs anything behind the scenes: what
is owed must be owed to something that can be seen. The list with lines is
`hazards` in PROJECT.json.

**What makes it correct.**

- *Pipeline and event consumer*: no push is absorbed without effect; an interrupted
  run never passes for a finished one; a run never collides with leftovers; no file
  is in the index twice; references between untouched files keep their edges; every
  event is settled and the index converges.
- *Chunk consumers*: every chunk is embedded and summarized or its message parked;
  no vector leaks but by a crash; no `embedding_id` dangles; neither consumer undoes
  the other's column.
- *Together*: no chunk is forgotten whatever dies; a push costs only the files it
  names.
- *Subscription*: every event is in one place, is started again only for an
  interruption, and is settled in the end.
- *Connections*: an event is rejected only for a cause, and a repository never comes
  to an organization that had not connected an installation with access to it -
  unless it is public and a tokenless job names that organization.
- *Retrieval*: a match is answered with its own code, and what was matched and is
  still there is answered.
- *Net file changes*: the event describes the push.

## Modules

```
Storage --+--> IndexWorker ----> IndexRefinement (INSTANCE IndexContract)
          |        |                 |
          |        |                 +--> FreshnessProofs --> GraphProofs --+
          |        +--> IndexWorkerProofs ----^                             |
          |        +--> Synthy ---------------------------------------------+--> SynthyProofs
          |                ^                                                |
          +--> ChunkConsumers --> ConsumerProofs ---------------------------+
                   |                 |
                   +--> ChunkDelivery --> Retrieval --> DeliveryProofs
NetFileChanges --> NetFileChangesProofs
Subscription --> Ingestion --> IngestionProofs
```
An arrow is EXTENDS; DeliveryProofs extends Retrieval and ConsumerProofs.

Each of IndexRefinement, ChunkDelivery, Retrieval, Synthy, NetFileChanges and
Ingestion has an MC module.

**Storage** is the shared state, for one repository, with one operator per SQL
statement or vector call. A path stands for a Go file and a number for its content
(0: no such file), so `file[p]` is the version the row of `p` was made from. The
foreign keys' cascade is in `DeleteFiles`; that an UPDATE of a missing row succeeds
is in `SetEmbedding` and `SetSummary`. A file has one chunk, `<<path, attempt>>`,
because every run draws new random ids. `Refs` says which files call and import
which; of an imported package it holds the one file that `imports/service.go:57-64`
picks, the first that is indexed. Vector ids are numbers in the order they are drawn. `LegacyStorage` is what
a release that stored absolute paths may have left, chunks and vectors included.

**IndexWorker** is the event consumer with the pipeline. `events` holds everything
ever published; `settled` of them are acked or rejected (`dead`), the next one is
delivered. `pc` is the pipeline's step:

| `pc` | Action | Code |
| --- | --- | --- |
| idle | `Clone`, `Reject` | `handle` up to `cloner.Clone` |
| upsert | `UpsertRepository` | `ProcessRepository`: look up, upsert, choose the mode |
| list | `ListFiles` | `processIncremental` up to the loop; legacy indexes are rebuilt |
| discard | `ReadEmbeddingIds` | chunks of the file, or of the repository |
| vectors | `DeleteVectorBatch`, `DeleteFileRows` | `deleteVectorsForChunks`, then the DELETE |
| load | `LoadPackages` | `loadPackages` |
| files | `InsertFile`, `ExtractSymbols` | `ProcessFiles`, `ExtractAndSave` |
| calls, imports | `BuildCallEdges`, `BuildImportEdges` | `buildEdges` |
| chunk, publish | `InsertChunk`, `PublishChunk` | `chunkAndPublish` |
| ack | `Ack` | `msg.Ack()` |

`Fail` is an error at any step (`nack.go`: rejected without requeue); `NoPackages`
and `PathConflict` are the two errors that need no failing call. `Crash` drops the
locals and leaves the event unsettled. `Push` and `RequestFullIndex` are the
environment. A `Push` carries disjoint sets of changed and removed files and the tip
changes with it; that events are truthful is what NetFileChanges shows.

**IndexContract** says what the worker promises and nothing of how: a set of files
that the index shows as they are at the tip, and a set of files that are owed. Work
shows only on owed files, and a debt is paid only by the file's being current.
**IndexRefinement** maps IndexWorker to it: a file is current when its row is the
tip's, owed while an event that names it waits, is handled or lies rejected.
`KeepsContract` is the refinement.

**ChunkConsumers** has the two consumer loops, one action per call. Each failure
that leaves something behind is an action of its own: an upsert that stored the
vector and still reports an error (`UpsertReportsError`), an UPDATE that may have
been applied (`UpdateReportsError`), a roll-back that may fail (`RollBackVector`).
`ConsumerPanic` is the nil dereference on a chunk that is gone.

**ChunkDelivery** runs the consumers against an abstract indexer, which takes the steps
of the pipeline that the consumers can notice: `InsertChunk` and `PublishChunk`
(`chunkAndPublish`), `ReadEmbeddingIds`, `DeleteVectorBatch` for each call, and
`DeleteRows` (the deletions of a file's vectors and of its row, or of a repository's).
Any of these calls may fail and the process may die between any two; a run that ends
so leaves its files in `interrupted`, which stands for its event: that is delivered
again or parked. `InRun(c)` says that the indexer is at the file of `c` or was when a
run ended early; what such a run leaves half done is the event's to repair, and nothing
else is. A file is indexed once; a later run gives it new chunk ids, which to the
consumers is another file. **Synthy** puts IndexWorker in the indexer's place: the whole
write path, with the events themselves and one process that crashes, panics and
restarts as a whole.

**Retrieval** adds a query to ChunkDelivery: `QuerySimilarVectors` (any vectors may be
the nearest), `GetChunksByEmbeddingIDs`, `BuildContext`, each with its own view of
tables that go on changing. Queries do not see each other; one at a time stands for
all.

**Subscription** is one queue with its subscriber goroutine and its controller loop.
`at` says where the message in `hand` is: `wire` (the client library's buffer),
`offer` (the inner select of the subscriber), `handler`, then `ack` or `nack`.

| Action | Code |
| --- | --- |
| `Deliver` | prefetch 1, manual ack |
| `Take`, `TakeGarbled` | the outer select of `Subscribe`; `proto.Unmarshal` fails |
| `HandOver`, `GiveBack` | the inner select: the controller receives, or the context is done |
| `EndLoop`, `DropBuffered` | the context is done, or the delivery channel closed |
| `HandlerReturns`, `Ack`, `Fail` | `RepositoryEventController.Start`, `fail` |
| `Shutdown`, `CloseChannel`, `Exit` | the stop hook: cancel, then Stop; main returns |
| `Crash`, `Restart`, `ConnectionLost`, `BrokerRestart` | the environment |

`Settle` on a closed channel changes nothing at the broker: the call returns an error
that is logged. A channel that closes gives its unacked message back to the head of
the queue while the process may go on handling it.

**Ingestion** puts around it the connections of organizations (`Connect`,
`Disconnect`, with the two unique keys), GitHub (`Uninstall`, `PublishEvent`), the
index request (`StartRequest`, `PublishNext`, `EndRequest`) and
`RepositoryEventController.handle`: `InstallationToken`, `ResolveOrganization`,
`Clone`, `UpsertRepository`, `IndexRepository`, and `HandleFails`, whose `Cause` is
what the code itself returns an error for. An event's body is a model value that
tells apart what the handler does: unreadable, without its repository, a webhook's
(installation only), a full index request's, or a tokenless job's (organization only).
The last is cloned anonymously, which only a repository in `Public` allows (`CanClone`),
and indexed for the organization it names, unchecked; the code handles such an event
and nothing in this repository publishes one, so the constant `Jobs` says which there
may be. `excused` remembers the messages that were hopeless at some time while they
waited. The rest of an index run is IndexWorker; only the owner of the repository row is
kept here.

**NetFileChanges** has the history of a branch, the webhook's lists of a push, and
the loop of `netFileChanges` over them, one commit a step. A push without commits
falls back to its head commit.

The MC modules give the constants small values. Definitions introduced by
"Mutant:" are deliberate errors: replacing the definition after them by one of them
must make TLC refute the property PROJECT.json pairs them with.

## Runs

| Run | Checks | Shows |
| --- | --- | --- |
| IndexWorkerSafety | `Freshness`, `GraphFollowsFiles`, `NoPathConflict`, `OneGeneration`, `EdgesComplete` | Whatever fails or dies, a stale or half-indexed file is owed to an event that waits or was rejected; a redelivered run meets no row of its own; an idle, loss-free index has all its edges. |
| IndexWorkerLiveness | `TypeOK`, `VectorsOwned`, `EventsSettle`, `Converges`, `KeepsContract` | From a legacy database (absolute paths, embedded chunks) or an empty one: the rebuild orphans no vector, between whichever calls it dies. The queue drains - also over the last file's removal, which fails - and rows equal the tip in the end, across a crash. Every step is one of IndexContract or changes nothing it speaks of. |
| NetFileChanges | `NetOfPush` | Any four commits over a Go and another file give a truthful event. |
| ChunkDeliveryLiveness | `TypeOK`, `LeaksBounded`, `EveryChunkServed` | Two chunks, failing calls, a crash. A vector no row points at is being handled, belongs to a parked message, or is the one that a crash leaked; each published chunk is served or parked, in both queues. No chunk is discarded here. |
| Retrieval | `RetrievalTypeOK`, `NoLostWork`, `NoSilentDangling`, `EmbeddingIsOwn`, `ColumnsKept`, `MatchedIsAnswered` | The same loops while chunks are discarded under them call by call, with panics and failing calls in between, and queries beside them. Once published, a chunk is done or in its queues; a dangling `embedding_id` is a queued chunk's or one that a discard has reached; neither consumer undoes the other's column, no vector stands for the wrong chunk, and a query drops only what is gone, pending, being discarded or re-embedded. |
| Ingestion | `IngestionTypeOK`, `NoEventSlips`, `RunsBounded`, `OwnerWasConnected`, `RejectedForCause`, `Settles` | Two organizations, two installations, a public repository and a tokenless job for it: every event is in one place and settled in the end unless the process is deaf; only a tokenless job gives a repository to an organization that never connected its installation; an event that was never hopeless is rejected only for a call that failed. |
| SynthySafety | `NoForgottenChunk`, `OthersSpared` | Two files, all three loops, panics in the middle of a run. (No call fails here, so no vector is rolled back; that `OthersSpared` holds of roll-backs too is proved.) |
| SynthyFaults | `SynthyTypeOK`, `NoForgottenChunk`, `NoDanglingEmbedding` | One file, every call may fail, a crash anywhere. (One file has one batch of vectors; two batches occur in Retrieval and in IndexWorkerLiveness.) |
| IndexWorkerBaseline, IndexWorkerEdges, ChunkDeliveryPanic, SynthyOrphan | one claim each | the claim does not hold; see [below](#what-the-model-found) |

`Freshness`, `GraphFollowsFiles`, `NoForgottenChunk` and `NoDanglingEmbedding` speak
of a *requested* repository, one that a FULL_INDEX event has asked for. Without one,
a first push makes a full index on its own account, and when that fails there is no
event that mentions the other files.

## Bounds

`MaxEvents` bounds published events, `MaxCrashes` crashes inside an event,
`MaxRestarts` crashes of the process that are no panic, `MaxUpserts` vectors,
`MaxCommits` commits of a push. They are guards, so a behaviour simply stops there.

- Three events in IndexWorkerSafety are a full index and two pushes: enough for a
  removal followed by a re-addition, a push that arrives during the run of another,
  and a rejected event before a successful one; with one crash at any step of any.
- Two files are one that a push names and one that it does not, with a reference
  each way; the violated edge claim takes a third file.
- `DeleteBatch = 1` (1000 in the code) makes two vectors two batches, so that a run
  can fail or die between them.
- Two upserts for a chunk are what a redelivery needs. When `MaxUpserts` is used up the
  consumer can still fail, or stops; the liveness run has as many as it can use: one per
  chunk and one per crash.
- In Retrieval two chunks and four upserts let one chunk be embedded twice while the
  other is discarded, and a discard of both have its two vectors deleted by two calls.
  The process dies there of panics only (`MaxRestarts = 0`), which interrupt the indexer
  wherever it is; other crashes are in ChunkDeliveryLiveness and in the proofs. `top_k`
  is one or the default, which is all there are.
- In Ingestion two messages are one in the process and one behind it, or one that is
  back in the queue while it is being handled; one interruption of any kind, one
  change of the connections and one failing call meet in every order, from any
  initial connections. The one repository is public, so that the tokenless job runs to
  its end; that it fails, and is excused, for a private one is covered by the proofs,
  which hold for any `Public` and `Jobs`.
- In Synthy two files and a fault-free environment, or one file and faults of every
  kind: both at once exceed what can be enumerated. Panics arise in both.

Symmetry over the paths is used in safety runs whose `Refs` is symmetric in them; no
run with a liveness property uses it.

`CHECK_DEADLOCK FALSE` everywhere: when nobody pushes, or the bounds are reached,
the system rests.

## Fairness

`IndexWorker!FairSpec` asks weak fairness of `Worker`, the consumer goroutine: it
takes steps as long as it can. It asks nothing of `Push`, `RequestFullIndex`,
`Reject` and `Crash`. `ChunkDelivery!FairSpec` asks weak fairness of each consumer
loop on its own - they are separate goroutines - and of `Process`, so that a panic is
not put off for ever and the supervisor restarts the process; `ReindexingSpec`, which
also discards chunks, asks the same. `Ingestion!FairSpec`
asks weak fairness of `Consumer` - the two goroutines and the broker's delivery, of
which at most one is enabled at a time but for the end of the loop - and of the rest
of a shutdown that has begun and the restart of a process that is gone. It asks
nothing of organizations, GitHub and the network; a lost connection is not repaired
because nothing in the code repairs it, which is why `Settles` excludes `Deaf`. That a call of a
consumer *succeeds* is never assumed: failing is one of the steps that count.

## Proofs

TLAPS proves, for every set of files and references, any batch size and any number
of events, crashes, commits and faults, every invariant and every action property
that the passing runs check, and the refinement of IndexContract:

| Module | Theorems | Inductive invariant |
| --- | --- | --- |
| IndexWorkerProofs | `TypeCorrect`, `VectorsOwnedHolds` | `VectorsInv`: between the read of the embedding ids and the DELETE, the vectors of the rows about to go are among those still to be deleted |
| FreshnessProofs | `FreshnessHolds`, `NoPathConflictHolds`, `KeepsContractHolds` | `FreshnessInv` (`FreshnessInvariant`) |
| GraphProofs | `GraphFollowsFilesHolds`, `OneGenerationHolds`, `EdgesCompleteHolds` | `GraphInv` (`GraphInvariant`), on `FreshnessInv` |
| NetFileChangesProofs | `NetOfPushHolds` | `NetInv` (`NetInvariant`) |
| IngestionProofs | `NoEventSlipsHolds`, `RunsBoundedHolds`, `OwnerWasConnectedHolds`, `RejectedForCauseHolds`, `IngestionTypeOKHolds` | `SubscriptionInv`, `RunsInv`, `TenancyInv`, `CauseInv` |
| DeliveryProofs | `NoLostWorkHolds`, `NoSilentDanglingHolds`, `EmbeddingIsOwnHolds`, `ColumnsKeptHolds`, `LeaksBoundedHolds`, `MatchedIsAnsweredHolds`, `DeliveryTypeOK`, `RetrievalTypeOKHolds` | `DeliveryInv` (`DeliveryInvariant`), `LeakInv` |
| SynthyProofs | `NoForgottenChunkHolds`, `NoDanglingEmbeddingHolds`, `OthersSparedHolds`, `SynthyTypeOKHolds`, `SynthyKeepsIndex`, `SynthyKeepsContract` | `SynthyInv` (`SynthyInvariant`) |

ConsumerProofs has the lemmas about the two consumer loops and their queues that
DeliveryProofs and SynthyProofs share. The statements of Storage have a lemma each in
IndexWorkerProofs, and a proof that a step keeps an invariant has one step per action.

The theorems assume what the modules assume of their constants (`RefsAssumption`,
`ParametersAssumption`, `NetAssumption`, `SubscriptionAssumption`,
`IngestionAssumption`, `ConsumersAssumption`, `TopKAssumption`); Synthy also that its
database is not a legacy one (`NotLegacyAssumption`), because the consumers number the
vectors from 1 and so do the rows of `LegacyStorage`.

**Freshness.** "A row that differs from the tip is owed to an outstanding event" is
not inductive: nothing in it says what an acked run has done. `FreshnessInv` adds

1. `CloneIsRecent`: where the clone is behind the tip, a later event names the file;
2. `RemovalsLast`: a removed path that is back is named by a later event. The queue
   is first in, first out, and this is where it matters;
3. `FullRuns`: a full run of a requested repository happens only while every file is
   owed to some event, so that clearing the index leaves nothing unowed;
4. `RowsOwned`: no file rows without the repository row, no absolute paths once a
   run is past its discarding;
5. `RowsOfRun`: how far the run is with the rows it rebuilds - those it still has to
   discard, then all absent, then those inserted, then all as wanted.

`FreshnessAck` is the heart: at the ack, `RowsOfRun` gives each row the event names
the clone's version, or none when the clone has a removed file again; then (1) or
(2) names a later event. Every other step is `RunStep` (rows change only where the
run is at work, and those files are covered by the event in hand) or a case of its
own. `NoPathConflict` follows from (5) and the fact that every file inserted is one
that was discarded.

**GraphFollowsFiles, OneGeneration, EdgesComplete.** `GraphInv` says the same of what
hangs on the rows. A chunk has a file row and the file one chunk (`ChunksOwned`,
`OneGeneration`); of the files the run rebuilds, those it is done with have theirs
(`ChunksOfRun`). A missing edge is owed through either of its ends
(`EdgesFollowFiles`), because the cascade that took it came from a file of the run,
and `EdgesOfRun` says from which step on the run has put it back. At the ack nothing
of the run is missing any more, so that what still is was owed to another event.

**NetOfPush.** `NetInv` says that every commit leads from one tree to the next as
the webhook describes it, and that after i commits the loop's map summarizes the way
from the first tree to tree i+1.

**KeepsContract.** Initially nothing has been requested and everything counts as
owed. A push adds its files to the owed ones and the tip; a full request makes all
owed; a step of a run is `Rework`, because `RowsOfRun` confines it to the files of the
event in hand; an ack is `Settle`, by the same argument as `FreshnessAck`.

**NoEventSlips, RunsBounded.** `SubscriptionInv` says that, while the channel is open,
the message in hand is the one the broker waits for - so that a settlement removes
the right one - and that nothing else about the process matters to the broker.
`RunsInv` counts: a message that is still to be handed over was started at most once
per interruption, one that is being handled once more, unless a closed channel has
already given it back. `Early` takes care of a shutdown, which is counted before its
channel closes.

**OwnerWasConnected.** `TenancyInv` carries the claim along the way of an event:
`Sound` bodies, the request being served, and the organization the handler has
resolved (`HandlerInv`) all name pairs that were connected at some time, or an
organization that a tokenless job has named for a repository the handler could clone
without a token - hence a public one (`EntitledBy`).

**RejectedForCause.** `Charged` is the set of messages that are dead-lettered, or on
their way, without an excuse. An excuse stays (`ExcusedKept`), and it is there as soon
as it is needed: `HopelessNoted` says that every message that is hopeless as things are
and not yet dead-lettered is in `excused` already. `Condemning` names the steps that
condemn a message, and `CauseExcuses` shows that a handler which fails for a cause of
its own has a hopeless message in hand - for which `CauseInv` keeps that the
organization the handler holds until it resolves one is the event's. What remains is a
failed call, which adds one message and one fault.

**The chunk consumers and the query.** `DeliveryInv` adds to the three claims about
rows, vectors and queues what they need to be inductive: no id stands in two rows and
the next one is new (`OneVectorEach`); between the upsert and the UPDATE the vector is
the message's own and in no row; a roll-back takes a vector that only the message's
row may name, while the message is still queued; an ack comes after the row has a
vector that exists, or is gone (`EmbeddingProgress`), and after its summary
(`SummaryProgress`). The indexer adds what it is at (`IndexerProgress`): a chunk that is
written and not published is its `target`'s, which no message can name yet, and the
vectors it is about to delete are those of rows it is about to delete, and not the one
the embedding consumer has just written. Publishing appends behind the message in hand (`InAppended`), and
only the head of a queue leaves it (`InTail`). A query changes nothing of this
(`RetrieveReadsOnly`), and at the moment it reads the rows the invariant answers for
each match: the row still has the vector, or has another, or its message is pending,
or the indexer is at it.

**LeaksBounded.** The bound counts vectors, so that the invariant must say which step
can add one. `Leaked` are the vectors the consumer has lost sight of: not in its hands,
not of a parked message, and without a row or with their message still queued. While no
chunk is discarded only the death of the process adds to them, and then at most the one
in its hands (`InHands`); `LeakFacts` keeps that vector the message's own and each
message in the queue once.

**The whole process.** In Synthy three loops write the rows that one of them discards,
so neither `VectorsInv` nor `DeliveryInv` holds: a vector may outlive its row, and an
`embedding_id` may lead nowhere. `SynthyInv` has what is left, on top of `FreshnessInv`
and `GraphInv`, which the consumers do not touch (`IndexInvariantsKept`):

- `VectorInv`: no id stands in two rows and the next is new (`VectorsTraced`); what the
  worker is about to delete belongs to the files it discards (`DoomedInScope`); the
  vector the embedding consumer has just written is its message's, in no row and unknown
  to the worker (`VectorInHand`) - which is why a push cannot cost another file its
  vector (`OthersSpared`);
- `ServiceInv`: a message is only of a chunk that was written (`Publishing`), so that no
  consumer is at work on a row that is still to be inserted; each chunk is done, has its messages, is
  about to be published, or its file is owed to an event (`KeptOrOwed`) - and that event
  is not the one being handled once its run is past its deletions (`KeptByRun`), so that
  the ack frees nothing that is unfinished.

`SynthyKeepsIndex` and `SynthyKeepsContract` carry the worker's own results over: a
consumer's step publishes and settles nothing, and a panic is a crash of the worker.

Only model-checked: everything about liveness (`EventsSettle`, `Converges`,
`EveryChunkServed`, `Settles`), which is out of this prover's reach. `VectorsOwned` is
of the index worker alone; beside the consumers it does not hold, as the run
SynthyOrphan shows.

## What the model found

- **A discarded chunk's message never leaves the queue** (ChunkDeliveryPanic,
  `NeverSpins`). `GetChunkByID` returns nil without an error, both consumers read
  `chunk.Content`, and the process panics, restarts and panics. All three loops stop
  with it.
- **A vector survives its chunk** (SynthyOrphan, `NoOrphanVector`). The consumer has
  read the chunk; a later event - in the shortest trace a push that removes the file, as
  well a re-index - discards the row, whose `embedding_id` is still NULL; the vector is
  upserted and the UPDATE, which touches no row, succeeds.
- **Edges pile up** (IndexWorkerEdges, `EdgesRebuilt`). `buildEdges` inserts the edges
  of the whole repository and deletes none, so an incremental index doubles those
  between the files it left alone.
- **A baseline that never was** (IndexWorkerBaseline, `IncrementalHasBaseline`). The
  repository row stands for a completed index, but the first run writes it first.
  `Freshness` holds nevertheless, because the failed FULL_INDEX stays visible.

- **One shutdown may cost several events.** No run is devoted to it: in Ingestion both
  selects of the subscriber may prefer the next delivery to the cancelled context, and
  each event so taken fails at its first call and is dead-lettered. `nack.go:16-18`
  rejects because a failed message "fails identically on every redelivery"; these
  would not. `RejectedForCause` is therefore stated for runs without a shutdown.

## What is not modelled

- *Two replicas.* Each queue has one consumer here; two replicas that index one
  repository at a time are listed as a hazard. In IndexWorker there is one repository
  and no organization: rows of different repositories are disjoint.
- *What an interrupted run costs.* A full index that failed half way, or a shutdown that
  dead-letters several events, leaves debts that are visible (`Freshness`,
  `NoForgottenChunk`, `NoEventSlips`); how many files or events they are is not bounded
  by any property.
- *Several chunks per file, or none.* A file's chunks are inserted in one
  transaction and published one by one; two files show the same interleavings.
- *Files that the package loader does not see* (test files, build tags). `Paths` are
  those it sees; others change nothing but the mode of a run.
- *Contents.* Which symbols, edges and chunks a file has is the constant `Refs`. That an
  import becomes one edge, to the first indexed file of the imported package, is part of
  it: which file is first, and that another may become it when files come and go, is
  not modelled.
- *The subscriptions of the two chunk queues.* They have Subscription's shape, line by
  line; ChunkConsumers takes their deliveries from the queue head and lets the process
  crash instead. IndexWorker does the same, so a shutdown shows there as a failing
  call, and a lost connection as a crash.
- *Pinecone's delay*: a vector is found as soon as it is written, and gone as soon as
  it is deleted.
- *Tenants in retrieval*: `organization_id` is accepted and ignored by the code.
- *The cap of a listing* (`maxPages`), suspended installations (to the code, the same
  as uninstalled ones), and a message redelivered to a second replica.
- *Webhooks that lie*: truncated commit lists, force pushes and merges are reported
  by a service outside this repository. The model takes linear, complete pushes.
- *How symbols are found*: `matchSymbol`, the map of fully qualified names and the
  deduplication of symbols are pure code over a syntax tree that `Refs` abstracts.
- *HTTP decoding and roles, the LLM clients, migrations, dependency injection.*

## Plan

Done, in this order: Storage and IndexWorker with their runs; type correctness;
ChunkConsumers and ChunkDelivery; Synthy; Freshness and its proof; NetFileChanges;
IndexContract with the refinement and its proof; Retrieval; Subscription and
Ingestion with three proofs; the proofs about the chunk consumers and the query; the
proofs about symbols, chunks and edges, about leaks and rejections, and about the
whole process.

Next, in order of importance:

1. **Two replicas** over one repository.
2. **Contracts of the other components**: an abstract event queue for Subscription and
   an abstract embedding service for ChunkDelivery, with the refinements proved.
3. **Pure algorithms**: `matchSymbol`, `ToFqNameMap`, symbol deduplication, against
   reference definitions.
