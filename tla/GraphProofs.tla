----------------------------- MODULE GraphProofs -----------------------------
(***************************************************************************)
(* GraphFollowsFiles, OneGeneration and EdgesComplete of IndexWorker, for   *)
(* every value of the constants: what hangs on the file rows - symbols,     *)
(* chunks and edges - follows them, on top of FreshnessInv.                 *)
(***************************************************************************)
EXTENDS FreshnessProofs

HasChunk(p) == \E c \in DOMAIN chunk : c[1] = p

\* The foreign keys: no symbol and no chunk without its file row.
ChunksOwned ==
  /\ symbol \subseteq Indexed
  /\ \A c \in DOMAIN chunk : c[1] \in Indexed

\* How far the run is with the symbols and chunks of the files it inserts.
ChunksOfRun ==
  /\ pc \in {"files", "calls", "imports"} => \A p \in Fresh : ~ HasChunk(p)
  /\ pc \in {"chunk", "publish", "ack"} =>
       /\ todo \subseteq Fresh
       /\ \A p \in Fresh : HasChunk(p) <=> p \notin todo
  /\ pc = "ack" => todo = {}
  /\ pc = "publish" => scope \subseteq Fresh \ todo
  /\ pc \in Inserted => Fresh \subseteq symbol

\* An edge that is missing between two indexed files is owed to an event that
\* names one of them.
EdgesFollowFiles ==
  Requested => \A r \in Refs :
    {r[1], r[2]} \subseteq Indexed /\ (callEdge[r] = 0 \/ importEdge[r] = 0)
      => Covered(r[1]) \/ Covered(r[2])

\* How far the run is with the edges of the files it rebuilds.
EdgesOfRun ==
  Working =>
    \A r \in Referring :
      Handled(r[1]) \/ Handled(r[2]) =>
        /\ pc \in {"imports", "chunk", "publish", "ack"}
             /\ {r[1], r[2]} \subseteq symbol => callEdge[r] > 0
        /\ pc \in {"chunk", "publish", "ack"} => importEdge[r] > 0

\* What hangs on the file rows follows them.
GraphInv ==
  /\ GraphFollowsFiles
  /\ OneGeneration
  /\ ChunksOwned
  /\ ChunksOfRun
  /\ EdgesFollowFiles
  /\ EdgesOfRun

-----------------------------------------------------------------------------
\* The invariant holds of a new and of a legacy database.
LEMMA GraphInit == Init => GraphInv
<1> SUFFICES ASSUME Init PROVE GraphInv
  OBVIOUS
<1>1. DOMAIN events = {} /\ pc = "idle"
  BY DEF Init, IndexInit
<1>2. ~ Requested
  BY <1>1 DEF Requested
<1>3. GraphFollowsFiles /\ EdgesFollowFiles
  BY <1>2 DEF GraphFollowsFiles, EdgesFollowFiles
<1>4. ChunksOfRun /\ EdgesOfRun
  BY <1>1 DEF ChunksOfRun, EdgesOfRun, Inserted, Working
<1>5. OneGeneration /\ ChunksOwned
  <2>1. CASE EmptyStorage
    BY <2>1 DEF EmptyStorage, NoRows, OneGeneration, ChunksOwned
  <2>2. CASE LegacyStorage
    <3>1. /\ DOMAIN chunk = {LegacyChunk(p) : p \in Paths}
          /\ symbol = Paths
          /\ Indexed = Paths
      BY <2>2 DEF LegacyStorage, Indexed
    <3>2. QED
      BY <3>1 DEF LegacyChunk, OneGeneration, ChunksOwned
  <2>3. QED
    BY <2>1, <2>2 DEF Init
<1>6. QED
  BY <1>3, <1>4, <1>5 DEF GraphInv

\* What a step keeps that leaves the rows alone and the coverage no smaller.
LEMMA GraphRowsKept ==
  ASSUME GraphInv, UNCHANGED <<file, symbol, callEdge, importEdge>>,
         DOMAIN chunk' = DOMAIN chunk,
         Requested' => Requested \/ \A p \in Paths : Covered(p)',
         \A p \in Paths : Covered(p) => Covered(p)'
  PROVE  /\ GraphFollowsFiles' /\ OneGeneration' /\ ChunksOwned'
         /\ EdgesFollowFiles'
<1>1. Indexed' = Indexed /\ Indexed \subseteq Paths
  BY DEF Indexed
<1>2. GraphFollowsFiles'
  BY <1>1 DEF GraphInv, GraphFollowsFiles
<1>3. OneGeneration' /\ ChunksOwned'
  BY <1>1 DEF GraphInv, OneGeneration, ChunksOwned
<1>4. EdgesFollowFiles'
  <2> SUFFICES ASSUME Requested', NEW r \in Refs,
                      {r[1], r[2]} \subseteq Indexed',
                      callEdge'[r] = 0 \/ importEdge'[r] = 0
               PROVE  Covered(r[1])' \/ Covered(r[2])'
    BY DEF EdgesFollowFiles
  <2>1. r[1] \in Paths /\ r[2] \in Paths
    BY <1>1
  <2>2. CASE Requested
    BY <1>1, <2>1, <2>2 DEF GraphInv, EdgesFollowFiles
  <2>3. CASE \A p \in Paths : Covered(p)'
    BY <2>1, <2>3
  <2>4. QED
    BY <2>2, <2>3
<1>5. QED
  BY <1>2, <1>3, <1>4

\* Pushes and requests name what they cover, and no run notices them.
LEMMA GraphRequests ==
  ASSUME TypeOK, GraphInv, NEW e \in Events, events' = Append(events, e),
         UNCHANGED <<storageVars, settled, dead, pc, workVars>>
  PROVE  GraphInv'
<1> USE DEF TypeOK, storageVars, workVars
<1>1. ASSUME NEW p \in Paths
      PROVE  /\ Covered(p) => Covered(p)'
             /\ Mentions(e, p) => Covered(p)'
  BY PublishCovers
<1>2. Requested' => Requested \/ \A p \in Paths : Covered(p)'
  BY <1>1, PublishRequests DEF Mentions
<1>3. /\ GraphFollowsFiles' /\ OneGeneration' /\ ChunksOwned'
      /\ EdgesFollowFiles'
  BY <1>1, <1>2, GraphRowsKept
<1>4. Working => Event' = Event
  BY DEF IndexTypeOK, Working, Event
<1>5. Working => /\ Fresh' = Fresh
                 /\ \A p : Handled(p)' <=> Handled(p)
  BY <1>4 DEF Fresh, Handled
<1>6. ChunksOfRun'
  BY <1>5 DEF GraphInv, ChunksOfRun, HasChunk, Working, Inserted
<1>7. EdgesOfRun'
  BY <1>5 DEF GraphInv, EdgesOfRun, Working, Referring, Indexed
<1>8. QED
  BY <1>3, <1>6, <1>7 DEF GraphInv

\* No run: there is nothing to say of one.
LEMMA GraphAtRest ==
  ASSUME pc' = "idle"
  PROVE  ChunksOfRun' /\ EdgesOfRun'
BY DEF ChunksOfRun, EdgesOfRun, Inserted, Working

\* Fail and Reject: what is missing is owed to the dead-letter exchange.
LEMMA GraphDeadLetter ==
  ASSUME TypeOK, GraphInv, UNCHANGED <<storageVars, events>>,
         settled' = settled + 1, dead' = dead \cup {settled + 1}, pc' = "idle"
  PROVE  GraphInv'
<1>1. Requested' <=> Requested
  BY DEF Requested
<1>2. \A p \in Paths : Covered(p) => Covered(p)'
  BY DeadLetterCovers DEF TypeOK
<1>3. /\ GraphFollowsFiles' /\ OneGeneration' /\ ChunksOwned'
      /\ EdgesFollowFiles'
  BY <1>1, <1>2, GraphRowsKept DEF storageVars
<1>4. QED
  BY <1>3, GraphAtRest DEF GraphInv

\* A step that starts or ends no run of an event and leaves the rows alone.
LEMMA GraphQuiet ==
  ASSUME GraphInv, UNCHANGED <<file, symbol, callEdge, importEdge, events,
                               settled, dead>>,
         DOMAIN chunk' = DOMAIN chunk
  PROVE  /\ GraphFollowsFiles' /\ OneGeneration' /\ ChunksOwned'
         /\ EdgesFollowFiles'
BY RunKeepsEvents, GraphRowsKept

\* A crash, and a delivery.
LEMMA GraphCrashOrClone == GraphInv /\ (Crash \/ Clone) => GraphInv'
<1> SUFFICES ASSUME GraphInv, Crash \/ Clone PROVE GraphInv'
  OBVIOUS
<1>1. /\ UNCHANGED <<file, symbol, callEdge, importEdge, events, settled, dead,
                     chunk>>
      /\ pc' \in {"idle", "upsert"}
  BY DEF Crash, CrashIndexing, Clone, Rest, storageVars, queueVars
<1>2. /\ GraphFollowsFiles' /\ OneGeneration' /\ ChunksOwned'
      /\ EdgesFollowFiles'
  BY <1>1, GraphQuiet
<1>3. ChunksOfRun' /\ EdgesOfRun'
  BY <1>1 DEF ChunksOfRun, EdgesOfRun, Inserted
<1>4. QED
  BY <1>2, <1>3 DEF GraphInv

\* What a finished run leaves: a path that was covered by its event alone is
\* not its concern any more, and whatever it does not handle stays covered.
LEMMA AckKeepsOthers ==
  ASSUME TypeOK, FreshnessInv, Ack, NEW p \in Paths, ~ Handled(p), Covered(p)
  PROVE  Covered(p)'
<1>1. settled < Len(events) /\ IndexTypeOK
  BY DEF Ack, TypeOK, IndexTypeOK, Working
<1>2. ~ Mentions(Event, p)
  BY DEF Handled
<1>3. QED
  BY <1>1, <1>2, AckCovers DEF Ack, queueVars

\* After the ack an indexed file that is not in the clone is covered still: the
\* run did not handle it, so an event that is to come names it, or one that
\* was rejected.
LEMMA AckCoversUnseen ==
  ASSUME TypeOK, FreshnessInv, Requested, Ack, NEW p \in Indexed, clone[p] = 0
  PROVE  Covered(p)'
<1>1. p \in Paths /\ file[p] # 0
  BY DEF Indexed
<1>2. ~ Handled(p)
  BY <1>1 DEF Ack, FreshnessInv, RowsOfRun, Inserted, Wanted
<1>3. settled < Len(events) /\ IndexTypeOK /\ Working
  BY DEF Ack, TypeOK, IndexTypeOK, Working
<1>4. CASE clone[p] = head[p]
  <2>1. Covered(p)
    BY <1>1, <1>4 DEF FreshnessInv, Freshness, Stale
  <2>2. QED
    BY <1>1, <1>2, <2>1, AckKeepsOthers
<1>5. CASE clone[p] # head[p]
  <2>1. LaterMention(settled + 1, p)
    BY <1>1, <1>3, <1>5 DEF FreshnessInv, CloneIsRecent
  <2>2. QED
    BY <1>3, <2>1, LaterIsCovered DEF Ack, queueVars
<1>6. QED
  BY <1>4, <1>5

\* The run of an event is over: what it handled is complete, and the rest is
\* owed to other events as it was.
LEMMA GraphAck == TypeOK /\ FreshnessInv /\ GraphInv /\ Ack => GraphInv'
<1> SUFFICES ASSUME TypeOK, FreshnessInv, GraphInv, Ack PROVE GraphInv'
  OBVIOUS
<1>1. /\ UNCHANGED <<file, symbol, callEdge, importEdge, chunk, events>>
      /\ pc = "ack" /\ pc' = "idle"
  BY DEF Ack, Rest, storageVars, queueVars
<1>2. (Requested' <=> Requested) /\ Indexed' = Indexed /\ Indexed \subseteq Paths
  BY <1>1 DEF Requested, Indexed
<1>3. ASSUME NEW p \in Indexed, Handled(p)
      PROVE  p \in symbol /\ HasChunk(p) /\ clone[p] # 0
  <2>1. file[p] # 0 /\ p \in Paths
    BY <1>3 DEF Indexed
  <2>2. p \in Fresh
    BY <1>1, <1>3, <2>1 DEF FreshnessInv, RowsOfRun, Inserted, Wanted
  <2>3. QED
    BY <1>1, <2>2 DEF GraphInv, ChunksOfRun, Inserted, Fresh
<1>4. GraphFollowsFiles'
  <2> SUFFICES ASSUME Requested, NEW p \in Indexed,
                      p \notin symbol \/ ~ HasChunk(p)
               PROVE  Covered(p)'
    BY <1>1, <1>2 DEF GraphFollowsFiles, HasChunk
  <2>1. ~ Handled(p) /\ p \in Paths
    BY <1>2, <1>3
  <2>2. Covered(p)
    BY DEF GraphInv, GraphFollowsFiles, HasChunk
  <2>3. QED
    BY <2>1, <2>2, AckKeepsOthers
<1>5. EdgesFollowFiles'
  <2> SUFFICES ASSUME Requested, NEW r \in Refs, {r[1], r[2]} \subseteq Indexed,
                      callEdge[r] = 0 \/ importEdge[r] = 0
               PROVE  Covered(r[1])' \/ Covered(r[2])'
    BY <1>1, <1>2 DEF EdgesFollowFiles
  <2>1. r[1] \in Paths /\ r[2] \in Paths
    BY <1>2
  <2>2. CASE ~ Handled(r[1]) /\ ~ Handled(r[2])
    <3>1. Covered(r[1]) \/ Covered(r[2])
      BY DEF GraphInv, EdgesFollowFiles
    <3>2. QED
      BY <2>1, <2>2, <3>1, AckKeepsOthers
  <2>3. CASE clone[r[1]] = 0 \/ clone[r[2]] = 0
    BY <2>3, AckCoversUnseen
  <2>4. CASE r[1] \notin symbol \/ r[2] \notin symbol
    <3>1. PICK p \in {r[1], r[2]} : p \notin symbol
      BY <2>4
    <3>2. ~ Handled(p) /\ Covered(p)
      BY <1>3, <3>1 DEF GraphInv, GraphFollowsFiles
    <3>3. QED
      BY <2>1, <3>1, <3>2, AckKeepsOthers
  <2>5. CASE /\ Handled(r[1]) \/ Handled(r[2])
             /\ clone[r[1]] # 0 /\ clone[r[2]] # 0
             /\ r[1] \in symbol /\ r[2] \in symbol
    <3>1. r \in Referring
      BY <2>5 DEF Referring
    <3>2. callEdge[r] > 0 /\ importEdge[r] > 0
      BY <1>1, <2>5, <3>1 DEF GraphInv, EdgesOfRun, Working
    <3>3. QED
      BY <3>2
  <2>6. QED
    BY <2>2, <2>3, <2>4, <2>5
<1>6. OneGeneration' /\ ChunksOwned'
  BY <1>1, <1>2 DEF GraphInv, OneGeneration, ChunksOwned
<1>7. QED
  BY <1>1, <1>4, <1>5, <1>6, GraphAtRest DEF GraphInv

-----------------------------------------------------------------------------
(* AnalysisPipeline.                                                       *)

\* The steps up to the loop over the packages write no symbol, edge or chunk.
LEMMA GraphPlan ==
  TypeOK /\ FreshnessInv /\ GraphInv
    /\ (UpsertRepository \/ ListFiles \/ ReadEmbeddingIds \/ DeleteVectorBatch)
    => GraphInv'
<1> SUFFICES ASSUME TypeOK, FreshnessInv, GraphInv,
                    UpsertRepository \/ ListFiles \/ ReadEmbeddingIds
                      \/ DeleteVectorBatch
             PROVE  GraphInv'
  OBVIOUS
<1>1. /\ UNCHANGED <<file, symbol, callEdge, importEdge, events, settled, dead,
                     chunk, clone>>
      /\ \/ pc' \in {"list", "discard", "vectors", "load"}
         \/ ListFiles /\ pc' = "ack"
  BY DEF UpsertRepository, ListFiles, ReadEmbeddingIds, DeleteVectorBatch,
         storageVars, queueVars, graphVars
<1>2. /\ GraphFollowsFiles' /\ OneGeneration' /\ ChunksOwned'
      /\ EdgesFollowFiles'
  BY <1>1, GraphQuiet
<1>3. ChunksOfRun' /\ EdgesOfRun'
  <2>1. CASE pc' \in {"list", "discard", "vectors", "load"}
    BY <2>1 DEF ChunksOfRun, EdgesOfRun, Inserted
  <2>2. CASE ListFiles /\ pc' = "ack"
    <3>1. /\ ~ full' /\ todo' = {}
          /\ Event.changed = {} /\ Event.removed = {}
      BY <2>2 DEF ListFiles, Named
    <3>2. Event' = Event /\ Event \in Events
      BY <1>1, <2>2, EventIsPublished DEF Event, ListFiles, TypeOK, IndexTypeOK,
                                          Working
    <3>3. Event.type # "FULL_INDEX"
      BY <2>2 DEF ListFiles, FreshnessInv, FullRuns
    <3>4. Fresh' = {} /\ \A p : ~ Handled(p)'
      BY <3>1, <3>2, <3>3 DEF Fresh, Handled, Mentions
    <3>5. QED
      BY <2>2, <3>1, <3>4 DEF ChunksOfRun, EdgesOfRun
  <2>3. QED
    BY <1>1, <2>1, <2>2
<1>4. QED
  BY <1>2, <1>3 DEF GraphInv

\* The symbols, the edges and the chunks of the files of scope go with them.
LEMMA GraphDelete == TypeOK /\ GraphInv /\ DeleteFileRows => GraphInv'
<1> SUFFICES ASSUME TypeOK, GraphInv, DeleteFileRows PROVE GraphInv'
  OBVIOUS
<1>1. /\ \A p \in Paths : file'[p] = IF p \in scope THEN 0 ELSE file[p]
      /\ symbol' = symbol \ scope
      /\ \A r \in Paths \X Paths : r[1] \notin scope /\ r[2] \notin scope =>
           callEdge'[r] = callEdge[r] /\ importEdge'[r] = importEdge[r]
      /\ DOMAIN chunk' = {c \in DOMAIN chunk : c[1] \notin scope}
      /\ UNCHANGED <<events, settled, dead>>
      /\ pc' \in {"load", "discard"}
  BY DEF DeleteFileRows, DeleteFiles, Restrict, queueVars
<1>2. Indexed' = Indexed \ scope
  BY <1>1 DEF Indexed
<1>3. (Requested' <=> Requested) /\ \A p : Covered(p)' <=> Covered(p)
  BY <1>1, RunKeepsEvents
<1>4. GraphFollowsFiles'
  BY <1>1, <1>2, <1>3 DEF GraphInv, GraphFollowsFiles
<1>5. OneGeneration' /\ ChunksOwned'
  BY <1>1, <1>2 DEF GraphInv, OneGeneration, ChunksOwned
<1>6. EdgesFollowFiles'
  <2> SUFFICES ASSUME Requested, NEW r \in Refs, {r[1], r[2]} \subseteq Indexed',
                      callEdge'[r] = 0 \/ importEdge'[r] = 0
               PROVE  Covered(r[1]) \/ Covered(r[2])
    BY <1>3 DEF EdgesFollowFiles
  <2>1. r \in Paths \X Paths
    BY RefsAssumption
  <2>2. callEdge[r] = 0 \/ importEdge[r] = 0
    BY <1>1, <1>2, <2>1
  <2>3. QED
    BY <1>2, <2>2 DEF GraphInv, EdgesFollowFiles
<1>7. ChunksOfRun' /\ EdgesOfRun'
  BY <1>1 DEF ChunksOfRun, EdgesOfRun, Inserted
<1>8. QED
  BY <1>4, <1>5, <1>6, <1>7 DEF GraphInv

\* Before the first insert no file of the run has a row, let alone a chunk.
LEMMA GraphLoad == TypeOK /\ FreshnessInv /\ GraphInv /\ LoadPackages => GraphInv'
<1> SUFFICES ASSUME TypeOK, FreshnessInv, GraphInv, LoadPackages PROVE GraphInv'
  OBVIOUS
<1>1. /\ UNCHANGED <<file, symbol, callEdge, importEdge, events, settled, dead,
                     chunk, clone, full>>
      /\ pc = "load" /\ pc' = "files"
  BY DEF LoadPackages, storageVars, queueVars
<1>2. /\ GraphFollowsFiles' /\ OneGeneration' /\ ChunksOwned'
      /\ EdgesFollowFiles'
  BY <1>1, GraphQuiet
<1>3. Fresh' = Fresh
  BY <1>1, RunKeepsPlan
<1>4. \A p \in Fresh : ~ HasChunk(p)
  <2> SUFFICES ASSUME NEW p \in Fresh PROVE ~ HasChunk(p)
    OBVIOUS
  <2>1. Handled(p) /\ p \in Paths
    BY FreshIsHandled DEF Fresh
  <2>2. file[p] = 0
    BY <1>1, <2>1 DEF FreshnessInv, RowsOfRun
  <2>3. QED
    BY <2>2 DEF GraphInv, ChunksOwned, HasChunk, Indexed
<1>5. ChunksOfRun'
  BY <1>1, <1>3, <1>4 DEF ChunksOfRun, Inserted, HasChunk
<1>6. EdgesOfRun'
  BY <1>1 DEF EdgesOfRun
<1>7. QED
  BY <1>2, <1>5, <1>6 DEF GraphInv

\* The new row has no symbols, edges and chunks yet, and its file is owed to
\* the event in hand.
LEMMA GraphInsert == TypeOK /\ FreshnessInv /\ GraphInv /\ InsertFile => GraphInv'
<1> SUFFICES ASSUME TypeOK, FreshnessInv, GraphInv, InsertFile PROVE GraphInv'
  OBVIOUS
<1>1. PICK p \in todo : file' = [file EXCEPT ![p] = clone[p]]
  BY DEF InsertFile, InsertFileRow
<1>2. /\ UNCHANGED <<symbol, callEdge, importEdge, chunk, events, settled, dead,
                     clone, full>>
      /\ pc = "files" /\ pc' = "files"
  BY DEF InsertFile, queueVars
<1>3. p \in Fresh /\ p \in Paths /\ Handled(p)
  BY <1>2, FreshIsHandled DEF FreshnessInv, RowsOfRun, Fresh
<1>4. Indexed \subseteq Indexed' /\ Indexed' \subseteq Indexed \cup {p}
  <2>1. \A q \in Paths : q # p => file'[q] = file[q]
    BY <1>1 DEF TypeOK, StorageTypeOK
  <2>2. file'[p] # 0
    BY <1>1, <1>3 DEF TypeOK, StorageTypeOK, Fresh
  <2>3. QED
    BY <2>1, <2>2 DEF Indexed
<1>5. Requested => Covered(p)
  BY <1>2, <1>3, HandledIsCovered DEF Working
<1>6. (Requested' <=> Requested) /\ \A q : Covered(q)' <=> Covered(q)
  BY <1>2, RunKeepsEvents
<1>7. GraphFollowsFiles'
  BY <1>2, <1>4, <1>5, <1>6 DEF GraphInv, GraphFollowsFiles
<1>8. OneGeneration' /\ ChunksOwned'
  BY <1>2, <1>4 DEF GraphInv, OneGeneration, ChunksOwned
<1>9. EdgesFollowFiles'
  BY <1>2, <1>4, <1>5, <1>6 DEF GraphInv, EdgesFollowFiles
<1>10. ChunksOfRun' /\ EdgesOfRun'
  BY <1>2, RunKeepsPlan
  DEF GraphInv, ChunksOfRun, EdgesOfRun, Inserted, HasChunk
<1>11. QED
  BY <1>7, <1>8, <1>9, <1>10 DEF GraphInv

\* What the run inserts has a row by the time the symbols are written.
LEMMA FreshIsIndexed ==
  ASSUME TypeOK, FreshnessInv, pc \in Inserted \/ (pc = "files" /\ todo = {})
  PROVE  Fresh \subseteq Indexed
<1> SUFFICES ASSUME NEW p \in Fresh PROVE p \in Indexed
  OBVIOUS
<1>1. Handled(p) /\ Wanted(p) = clone[p] /\ p \in Paths /\ clone[p] # 0
  BY FreshIsHandled DEF Fresh
<1>2. file[p] = Wanted(p)
  BY <1>1 DEF FreshnessInv, RowsOfRun
<1>3. QED
  BY <1>1, <1>2 DEF Indexed

\* The symbols of every new file, in one transaction.
LEMMA GraphSymbols ==
  TypeOK /\ FreshnessInv /\ GraphInv /\ ExtractSymbols => GraphInv'
<1> SUFFICES ASSUME TypeOK, FreshnessInv, GraphInv, ExtractSymbols
             PROVE  GraphInv'
  OBVIOUS
<1>1. /\ symbol' = symbol \cup Fresh
      /\ UNCHANGED <<file, callEdge, importEdge, chunk, events, settled, dead,
                     clone, full>>
      /\ pc = "files" /\ todo = {} /\ pc' = "calls"
  BY DEF ExtractSymbols, InsertSymbols, queueVars, workVars
<1>2. (Requested' <=> Requested) /\ \A q : Covered(q)' <=> Covered(q)
  BY <1>1, RunKeepsEvents
<1>3. Indexed' = Indexed /\ Fresh' = Fresh /\ Fresh \subseteq Indexed
  BY <1>1, RunKeepsPlan, FreshIsIndexed DEF Indexed
<1>4. GraphFollowsFiles' /\ OneGeneration' /\ ChunksOwned' /\ EdgesFollowFiles'
  BY <1>1, <1>2, <1>3 DEF GraphInv, GraphFollowsFiles, OneGeneration,
                          ChunksOwned, EdgesFollowFiles
<1>5. ChunksOfRun' /\ EdgesOfRun'
  BY <1>1, <1>3 DEF GraphInv, ChunksOfRun, EdgesOfRun, Inserted, HasChunk
<1>6. QED
  BY <1>4, <1>5 DEF GraphInv

\* An INSERT per pair leaves an edge for each of them and takes none away.
LEMMA EdgesAdded ==
  ASSUME NEW edges \in [Paths \X Paths -> Nat], NEW S
  PROVE  \A r \in Paths \X Paths :
           /\ WithEdges(edges, S)[r] = 0 => edges[r] = 0
           /\ edges[r] > 0 => WithEdges(edges, S)[r] > 0
           /\ r \in S => WithEdges(edges, S)[r] > 0
BY DEF WithEdges

\* The call edges, then the import edges, of every pair of rows there is.
LEMMA GraphEdges ==
  TypeOK /\ FreshnessInv /\ GraphInv /\ (BuildCallEdges \/ BuildImportEdges)
    => GraphInv'
<1> SUFFICES ASSUME TypeOK, FreshnessInv, GraphInv,
                    BuildCallEdges \/ BuildImportEdges
             PROVE  GraphInv'
  OBVIOUS
<1> DEFINE calls == {r \in Referring : {r[1], r[2]} \subseteq symbol}
<1>1. /\ UNCHANGED <<file, symbol, chunk, events, settled, dead, clone, full>>
      /\ \/ /\ pc = "calls" /\ pc' = "imports"
            /\ callEdge' = WithEdges(callEdge, calls)
            /\ importEdge' = importEdge
         \/ /\ pc = "imports" /\ pc' = IF Fresh = {} THEN "ack" ELSE "chunk"
            /\ callEdge' = callEdge
            /\ importEdge' = WithEdges(importEdge, Referring)
            /\ todo' = Fresh
  BY DEF BuildCallEdges, BuildImportEdges, InsertCallEdges, InsertImportEdges,
         queueVars, workVars
<1>2. /\ callEdge \in [Paths \X Paths -> Nat]
      /\ importEdge \in [Paths \X Paths -> Nat]
  BY DEF TypeOK, StorageTypeOK
<1>3. /\ \A r \in Paths \X Paths :
           /\ callEdge'[r] = 0 => callEdge[r] = 0
           /\ importEdge'[r] = 0 => importEdge[r] = 0
           /\ callEdge[r] > 0 => callEdge'[r] > 0
           /\ pc' = "imports" /\ r \in calls => callEdge'[r] > 0
           /\ pc' # "imports" /\ r \in Referring => importEdge'[r] > 0
  <2>1. CASE pc = "calls"
    <3>1. /\ callEdge' = WithEdges(callEdge, calls)
          /\ importEdge' = importEdge
          /\ pc' = "imports"
      BY <1>1, <2>1
    <3> HIDE DEF calls
    <3>2. QED
      BY <1>2, <3>1, EdgesAdded
  <2>2. CASE pc = "imports"
    <3>1. /\ callEdge' = callEdge
          /\ importEdge' = WithEdges(importEdge, Referring)
          /\ pc' # "imports"
      BY <1>1, <2>2
    <3> HIDE DEF calls
    <3>2. QED
      BY <1>2, <3>1, EdgesAdded
  <2>3. QED
    BY <1>1, <2>1, <2>2
<1> HIDE DEF calls
<1>4. (Requested' <=> Requested) /\ \A q : Covered(q)' <=> Covered(q)
  BY <1>1, RunKeepsEvents
<1>5. /\ Indexed' = Indexed /\ Fresh' = Fresh /\ Referring' = Referring
      /\ \A q : Handled(q)' <=> Handled(q)
  BY <1>1, RunKeepsPlan DEF Indexed, Referring
<1>6. GraphFollowsFiles' /\ OneGeneration' /\ ChunksOwned'
  BY <1>1, <1>4, <1>5 DEF GraphInv, GraphFollowsFiles, OneGeneration,
                          ChunksOwned
<1>7. EdgesFollowFiles'
  <2> SUFFICES ASSUME Requested, NEW r \in Refs, {r[1], r[2]} \subseteq Indexed,
                      callEdge'[r] = 0 \/ importEdge'[r] = 0
               PROVE  Covered(r[1]) \/ Covered(r[2])
    BY <1>4, <1>5 DEF EdgesFollowFiles
  <2>1. callEdge[r] = 0 \/ importEdge[r] = 0
    BY <1>3, RefsAssumption
  <2>2. QED
    BY <2>1 DEF GraphInv, EdgesFollowFiles
<1>8. ChunksOfRun'
  <2>1. \A q : HasChunk(q)' <=> HasChunk(q)
    BY <1>1 DEF HasChunk
  <2>2. /\ \A q \in Fresh : ~ HasChunk(q)
        /\ Fresh \subseteq symbol
    BY <1>1 DEF GraphInv, ChunksOfRun, Inserted
  <2>3. QED
    BY <1>1, <1>5, <2>1, <2>2 DEF ChunksOfRun, Inserted
<1>9. EdgesOfRun'
  <2> SUFFICES ASSUME NEW r \in Referring, Handled(r[1]) \/ Handled(r[2])
               PROVE  /\ {r[1], r[2]} \subseteq symbol => callEdge'[r] > 0
                      /\ pc' # "imports" => importEdge'[r] > 0
    BY <1>1, <1>5 DEF EdgesOfRun
  <2>1. r \in Paths \X Paths
    BY RefsAssumption DEF Referring
  <2>2. pc = "imports" /\ {r[1], r[2]} \subseteq symbol => callEdge[r] > 0
    BY DEF GraphInv, EdgesOfRun, Working
  <2>3. pc = "calls" => pc' = "imports"
    BY <1>1
  <2>4. pc = "imports" \/ pc = "calls"
    BY <1>1
  <2>5. {r[1], r[2]} \subseteq symbol => r \in calls
    BY DEF calls
  <2>6. pc' # "imports" => importEdge'[r] > 0
    BY <1>3, <2>1
  <2>7. ASSUME {r[1], r[2]} \subseteq symbol PROVE callEdge'[r] > 0
    <3>1. CASE pc = "imports"
      BY <1>3, <2>1, <2>2, <2>7, <3>1
    <3>2. CASE pc = "calls"
      BY <1>3, <2>1, <2>3, <2>5, <2>7, <3>2
    <3>3. QED
      BY <2>4, <3>1, <3>2
  <2>8. QED
    BY <2>6, <2>7
<1>10. QED
  BY <1>6, <1>7, <1>8, <1>9 DEF GraphInv

\* One chunk row more, for a file that has none.
LEMMA GraphChunk == TypeOK /\ FreshnessInv /\ GraphInv /\ InsertChunk => GraphInv'
<1> SUFFICES ASSUME TypeOK, FreshnessInv, GraphInv, InsertChunk PROVE GraphInv'
  OBVIOUS
<1>1. PICK p \in todo : /\ DOMAIN chunk' = DOMAIN chunk \cup {<<p, Attempt>>}
                        /\ scope' = {p}
                        /\ todo' = todo \ {p}
  BY DEF InsertChunk, InsertChunks
<1>2. /\ UNCHANGED <<file, symbol, callEdge, importEdge, events, settled, dead,
                     clone, full>>
      /\ pc = "chunk" /\ pc' = "publish"
  BY DEF InsertChunk, graphVars, queueVars
<1>3. p \in Fresh /\ ~ HasChunk(p) /\ p \in Indexed
  BY <1>2, FreshIsIndexed DEF GraphInv, ChunksOfRun, Inserted
<1>4. \A q : HasChunk(q)' <=> HasChunk(q) \/ q = p
  <2> TAKE q
  <2>1. ASSUME HasChunk(q)' PROVE HasChunk(q) \/ q = p
    BY <1>1, <2>1 DEF HasChunk
  <2>2. ASSUME HasChunk(q) PROVE HasChunk(q)'
    BY <1>1, <2>2 DEF HasChunk
  <2>3. HasChunk(p)'
    <3>1. <<p, Attempt>> \in DOMAIN chunk' /\ <<p, Attempt>>[1] = p
      BY <1>1
    <3>2. QED
      BY <3>1 DEF HasChunk
  <2>4. QED
    BY <2>1, <2>2, <2>3
<1>5. (Requested' <=> Requested) /\ \A q : Covered(q)' <=> Covered(q)
  BY <1>2, RunKeepsEvents
<1>6. /\ Indexed' = Indexed /\ Fresh' = Fresh /\ Referring' = Referring
      /\ \A q : Handled(q)' <=> Handled(q)
  BY <1>2, RunKeepsPlan DEF Indexed, Referring
<1>7. GraphFollowsFiles'
  BY <1>2, <1>4, <1>5, <1>6 DEF GraphInv, GraphFollowsFiles, HasChunk
<1>8. OneGeneration' /\ ChunksOwned'
  BY <1>1, <1>2, <1>3, <1>6
  DEF GraphInv, OneGeneration, ChunksOwned, HasChunk
<1>9. EdgesFollowFiles' /\ EdgesOfRun'
  BY <1>2, <1>5, <1>6 DEF GraphInv, EdgesFollowFiles, EdgesOfRun, Working
<1>10. ChunksOfRun'
  BY <1>1, <1>2, <1>3, <1>4, <1>6 DEF GraphInv, ChunksOfRun, Inserted
<1>11. QED
  BY <1>7, <1>8, <1>9, <1>10 DEF GraphInv

\* A message more; the loop is over when every file has its chunk.
LEMMA GraphPublish == GraphInv /\ PublishChunk => GraphInv'
<1> SUFFICES ASSUME GraphInv, PublishChunk PROVE GraphInv'
  OBVIOUS
<1>1. /\ UNCHANGED <<file, symbol, callEdge, importEdge, chunk, events, settled,
                     dead, clone, full, todo>>
      /\ pc = "publish" /\ pc' = IF todo = {} THEN "ack" ELSE "chunk"
  BY DEF PublishChunk, graphVars, queueVars
<1>2. /\ GraphFollowsFiles' /\ OneGeneration' /\ ChunksOwned'
      /\ EdgesFollowFiles'
  BY <1>1, GraphQuiet
<1>3. /\ Indexed' = Indexed /\ Fresh' = Fresh /\ Referring' = Referring
      /\ \A q : Handled(q)' <=> Handled(q)
  BY <1>1, RunKeepsPlan DEF Indexed, Referring
<1>4. ChunksOfRun' /\ EdgesOfRun'
  BY <1>1, <1>3 DEF GraphInv, ChunksOfRun, EdgesOfRun, Inserted, HasChunk,
                    Working
<1>5. QED
  BY <1>2, <1>4 DEF GraphInv

-----------------------------------------------------------------------------
\* Whoever leaves the pipeline, its tables and the ids of the chunks alone
\* leaves the invariant.
LEMMA GraphKept ==
  ASSUME GraphInv, UNCHANGED <<graphVars, indexVars>>,
         DOMAIN chunk' = DOMAIN chunk
  PROVE  GraphInv'
<1>1. UNCHANGED <<file, symbol, callEdge, importEdge, events, settled, dead,
                  crashes, pc, clone, full, todo, scope>>
  BY DEF graphVars, indexVars
<1>2. /\ GraphFollowsFiles' /\ OneGeneration' /\ ChunksOwned'
      /\ EdgesFollowFiles'
  BY <1>1, GraphQuiet
<1>3. /\ Indexed' = Indexed /\ Fresh' = Fresh /\ Referring' = Referring
      /\ \A q : Handled(q)' <=> Handled(q)
  BY <1>1, RunKeepsPlan DEF Indexed, Referring
<1>4. ChunksOfRun' /\ EdgesOfRun'
  BY <1>1, <1>3 DEF GraphInv, ChunksOfRun, EdgesOfRun, HasChunk, Working
<1>5. QED
  BY <1>2, <1>4 DEF GraphInv

\* Every step preserves the invariant.
LEMMA GraphNext ==
  TypeOK /\ FreshnessInv /\ GraphInv /\ [Next]_vars => GraphInv'
<1> SUFFICES ASSUME TypeOK, FreshnessInv, GraphInv, [Next]_vars PROVE GraphInv'
  OBVIOUS
<1>1. CASE RequestFullIndex
  <2>1. FullIndexEvent \in Events
    BY DEF Events
  <2>2. QED
    BY <1>1, <2>1, GraphRequests DEF RequestFullIndex
<1>2. ASSUME NEW C \in SUBSET Paths, NEW R \in SUBSET Paths, Push(C, R)
      PROVE  GraphInv'
  <2>1. PushEvent(C, R) \in Events
    BY DEF Events
  <2>2. QED
    BY <1>2, <2>1, GraphRequests DEF Push
<1>3. CASE Reject
  <2>1. /\ UNCHANGED <<storageVars, events>>
        /\ settled' = settled + 1 /\ dead' = dead \cup {settled + 1}
        /\ pc' = "idle"
    BY <1>3 DEF Reject, queueVars
  <2>2. QED
    BY <2>1, GraphDeadLetter
<1>4. CASE Fail
  <2>1. /\ UNCHANGED <<storageVars, events>>
        /\ settled' = settled + 1 /\ dead' = dead \cup {settled + 1}
        /\ pc' = "idle"
    BY <1>4 DEF Fail, Rest, queueVars
  <2>2. QED
    BY <2>1, GraphDeadLetter
<1>5. CASE Pipeline
  BY <1>5, GraphPlan, GraphDelete, GraphLoad, GraphInsert, GraphSymbols,
     GraphEdges, GraphChunk, GraphPublish DEF Pipeline
<1>6. CASE Clone \/ Ack \/ Crash
  BY <1>6, GraphAck, GraphCrashOrClone
<1>7. CASE UNCHANGED vars
  <2>1. UNCHANGED <<graphVars, chunk, indexVars>>
    BY <1>7 DEF vars, storageVars, graphVars
  <2>2. QED
    BY <2>1, GraphKept
<1>8. QED
  <2>1. CASE Requests
    BY <1>1, <1>2, <2>1 DEF Requests
  <2>2. CASE Worker
    BY <1>4, <1>5, <1>6, <2>2 DEF Worker
  <2>3. QED
    BY <1>3, <1>6, <1>7, <2>1, <2>2 DEF Next

\* The invariant holds of every reachable state.
THEOREM GraphInvariant == Spec => []GraphInv
<1>1. Init => GraphInv
  BY GraphInit
<1>2. TypeOK /\ FreshnessInv /\ GraphInv /\ [Next]_vars => GraphInv'
  BY GraphNext
<1>3. QED
  BY <1>1, <1>2, FreshnessInvariant, PTL DEF Spec

\* An interrupted run never passes for a finished one (ExtractAndSave,
\* chunkAndPublish): a file row without its symbols or its chunk is owed to an
\* event in the queue or in the dead-letter exchange.
THEOREM GraphFollowsFilesHolds == Spec => []GraphFollowsFiles
<1>1. GraphInv => GraphFollowsFiles
  BY DEF GraphInv
<1>2. QED
  BY <1>1, GraphInvariant, PTL

\* No redelivery, failure or crash leaves two runs' chunks of one file in the
\* index.
THEOREM OneGenerationHolds == Spec => []OneGeneration
<1>1. GraphInv => OneGeneration
  BY DEF GraphInv
<1>2. QED
  BY <1>1, GraphInvariant, PTL

\* With nothing outstanding, no reference waits for its edge.
LEMMA EdgesOfIdle == TypeOK /\ GraphInv => EdgesComplete
<1> SUFFICES ASSUME TypeOK, GraphInv, Requested, Idle, dead = {},
                    NEW r \in Refs, {r[1], r[2]} \subseteq Indexed
             PROVE  callEdge[r] > 0 /\ importEdge[r] > 0
  BY DEF EdgesComplete
<1>1. \A p : ~ Covered(p)
  BY DEF Covered, Outstanding, Idle, TypeOK, IndexTypeOK
<1>2. callEdge[r] # 0 /\ importEdge[r] # 0
  BY <1>1 DEF GraphInv, EdgesFollowFiles
<1>3. callEdge[r] \in Nat /\ importEdge[r] \in Nat
  BY RefsAssumption DEF TypeOK, StorageTypeOK
<1>4. QED
  BY <1>2, <1>3

\* Once the queue is empty and nothing was dead-lettered, buildEdges has left
\* an edge for every reference between two indexed files, though each run
\* deletes the edges of the files it rebuilds with both their ends.
THEOREM EdgesCompleteHolds == Spec => []EdgesComplete
<1>1. QED
  BY EdgesOfIdle, FreshnessInvariant, GraphInvariant, PTL
=============================================================================
