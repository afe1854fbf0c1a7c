--------------------------- MODULE FreshnessProofs ---------------------------
(***************************************************************************)
(* Freshness and NoPathConflict of IndexWorker, and that it implements      *)
(* IndexContract, for every value of the constants, from the inductive      *)
(* invariant FreshnessInv.                                                  *)
(***************************************************************************)
EXTENDS IndexWorkerProofs, IndexRefinement

\* The event being handled is one of the events published.
LEMMA EventIsPublished ==
  ASSUME IndexTypeOK, settled < Len(events)
  PROVE  /\ settled + 1 \in DOMAIN events
         /\ Event \in Events
BY DEF IndexTypeOK, Event

\* A path the event in hand mentions is covered: that event is outstanding,
\* and every later one too.
LEMMA MentionedIsCovered ==
  ASSUME IndexTypeOK, settled < Len(events), NEW p, Mentions(Event, p)
  PROVE  Covered(p)
<1>1. settled + 1 \in DOMAIN events /\ settled \in Nat
  BY EventIsPublished DEF IndexTypeOK
<1>2. \A j \in DOMAIN events : j >= settled + 1 => Outstanding(j)
  BY <1>1 DEF Outstanding, IndexTypeOK
<1>3. QED
  BY <1>1, <1>2 DEF Covered, Event

\* A path a later event mentions stays covered when the event in hand settles.
LEMMA LaterIsCovered ==
  ASSUME IndexTypeOK, settled < Len(events), events' = events,
         settled' = settled + 1, NEW p, LaterMention(settled + 1, p)
  PROVE  Covered(p)'
<1>1. PICK i \in DOMAIN events : i > settled + 1 /\ Mentions(events[i], p)
  BY DEF LaterMention
<1>2. settled \in Nat
  BY DEF IndexTypeOK
<1>3. \A j \in DOMAIN events : j >= i => Outstanding(j)'
  BY <1>1, <1>2 DEF Outstanding, IndexTypeOK
<1>4. QED
  BY <1>1, <1>3 DEF Covered

\* Publishing an event keeps what is covered covered, and covers what the new
\* event mentions.
LEMMA PublishCovers ==
  ASSUME IndexTypeOK, NEW e \in Events, events' = Append(events, e),
         settled' = settled, dead' = dead, NEW p
  PROVE  /\ Covered(p) => Covered(p)'
         /\ Mentions(e, p) => Covered(p)'
<1>1. /\ DOMAIN events' = DOMAIN events \cup {Len(events) + 1}
      /\ \A i \in DOMAIN events : events'[i] = events[i]
      /\ events'[Len(events) + 1] = e
      /\ DOMAIN events = 1..Len(events)
      /\ Len(events) \in Nat
      /\ settled \in 0..Len(events)
  BY DEF IndexTypeOK
<1>2. \A j : j = Len(events) + 1 => Outstanding(j)'
  BY <1>1 DEF Outstanding
<1>3. \A j : Outstanding(j)' <=> Outstanding(j)
  BY DEF Outstanding
<1>4. ASSUME Covered(p) PROVE Covered(p)'
  <2>1. PICK i \in DOMAIN events :
          /\ Mentions(events[i], p)
          /\ \A j \in DOMAIN events :
               j >= i /\ Mentions(events[j], p) => Outstanding(j)
    BY <1>4 DEF Covered
  <2>2. ASSUME NEW j \in DOMAIN events', j >= i, Mentions(events'[j], p)
        PROVE  Outstanding(j)'
    <3>1. CASE j = Len(events) + 1
      BY <1>2, <3>1
    <3>2. CASE j \in DOMAIN events
      BY <1>1, <1>3, <2>1, <2>2, <3>2
    <3>3. QED
      BY <1>1, <3>1, <3>2
  <2>3. i \in DOMAIN events' /\ Mentions(events'[i], p)
    BY <1>1, <2>1
  <2>4. QED
    BY <2>2, <2>3 DEF Covered
<1>5. ASSUME Mentions(e, p) PROVE Covered(p)'
  <2>1. ASSUME NEW j \in DOMAIN events', j >= Len(events) + 1
        PROVE  Outstanding(j)'
    <3>1. j = Len(events) + 1
      BY <1>1, <2>1
    <3>2. QED
      BY <1>2, <3>1
  <2>2. Len(events) + 1 \in DOMAIN events'
        /\ Mentions(events'[Len(events) + 1], p)
    BY <1>1, <1>5
  <2>3. QED
    BY <2>1, <2>2 DEF Covered
<1>6. QED
  BY <1>4, <1>5

\* A dead-lettered event covers what it covered while it was queued.
LEMMA DeadLetterCovers ==
  ASSUME IndexTypeOK, events' = events, settled' = settled + 1,
         dead' = dead \cup {settled + 1}, NEW p, Covered(p)
  PROVE  Covered(p)'
<1>1. PICK i \in DOMAIN events :
        /\ Mentions(events[i], p)
        /\ \A j \in DOMAIN events :
             j >= i /\ Mentions(events[j], p) => Outstanding(j)
  BY DEF Covered
<1>2. \A j \in DOMAIN events : Outstanding(j) => Outstanding(j)'
  BY DEF Outstanding, IndexTypeOK
<1>3. QED
  BY <1>1, <1>2 DEF Covered

\* Acking an event keeps covered what the event did not mention.
LEMMA AckCovers ==
  ASSUME IndexTypeOK, settled < Len(events), events' = events,
         settled' = settled + 1, dead' = dead, NEW p, Covered(p),
         ~ Mentions(Event, p)
  PROVE  Covered(p)'
<1>1. PICK i \in DOMAIN events :
        /\ Mentions(events[i], p)
        /\ \A j \in DOMAIN events :
             j >= i /\ Mentions(events[j], p) => Outstanding(j)
  BY DEF Covered
<1>2. \A j \in DOMAIN events :
        Outstanding(j) /\ Mentions(events[j], p) => Outstanding(j)'
  BY DEF Outstanding, IndexTypeOK, Event
<1>3. QED
  BY <1>1, <1>2 DEF Covered

\* Nothing about the events changes while a run goes on.
LEMMA RunKeepsEvents ==
  ASSUME events' = events, settled' = settled, dead' = dead
  PROVE  /\ Requested' <=> Requested
         /\ \A p : Covered(p)' <=> Covered(p)
         /\ \A i, p : LaterMention(i, p)' <=> LaterMention(i, p)
         /\ Event' = Event
BY DEF Requested, Covered, Outstanding, LaterMention, Event

\* The step that reports a push adds to what later events mention.
LEMMA PublishMentions ==
  ASSUME IndexTypeOK, NEW e \in Events, events' = Append(events, e),
         NEW i \in DOMAIN events, NEW p
  PROVE  /\ LaterMention(i, p) => LaterMention(i, p)'
         /\ Mentions(e, p) => LaterMention(i, p)'
<1>1. /\ DOMAIN events' = DOMAIN events \cup {Len(events) + 1}
      /\ \A k \in DOMAIN events : events'[k] = events[k]
      /\ events'[Len(events) + 1] = e
      /\ DOMAIN events = 1..Len(events)
      /\ Len(events) \in Nat
  BY DEF IndexTypeOK
<1>2. LaterMention(i, p) => LaterMention(i, p)'
  BY <1>1 DEF LaterMention
<1>3. ASSUME Mentions(e, p) PROVE LaterMention(i, p)'
  <2>1. Len(events) + 1 > i
    BY <1>1
  <2>2. QED
    BY <1>1, <1>3, <2>1 DEF LaterMention
<1>4. QED
  BY <1>2, <1>3

\* A full index is only requested by full-index events.
LEMMA PublishRequests ==
  ASSUME IndexTypeOK, NEW e \in Events, events' = Append(events, e)
  PROVE  Requested' => Requested \/ e.type = "FULL_INDEX"
<1>1. /\ DOMAIN events' = DOMAIN events \cup {Len(events) + 1}
      /\ \A k \in DOMAIN events : events'[k] = events[k]
      /\ events'[Len(events) + 1] = e
      /\ DOMAIN events = 1..Len(events)
      /\ Len(events) \in Nat
  BY DEF IndexTypeOK
<1>2. QED
  BY <1>1 DEF Requested

-----------------------------------------------------------------------------
\* The invariant holds of a new and of a legacy database.
LEMMA FreshnessInit == Init => FreshnessInv
<1> SUFFICES ASSUME Init PROVE FreshnessInv
  OBVIOUS
<1>1. DOMAIN events = {} /\ pc = "idle" /\ ~ full
  BY DEF Init, IndexInit
<1>2. ~ Requested
  BY <1>1 DEF Requested
<1>3. Freshness /\ CloneIsRecent /\ RemovalsLast /\ FullRuns /\ RowsOfRun
  BY <1>1, <1>2 DEF Freshness, CloneIsRecent, RemovalsLast, FullRuns,
     RowsOfRun, Working, Discarding, Inserted
<1>4. RowsOwned
  <2>1. ~ repository => ~ absPaths /\ \A p \in Paths : file[p] = 0
    BY DEF Init, EmptyStorage, LegacyStorage
  <2>2. QED
    BY <1>1, <2>1 DEF RowsOwned, Discarding, Inserted
<1>5. QED
  BY <1>3, <1>4 DEF FreshnessInv

\* Pushes and requests: the new event covers what the push made stale.
LEMMA FreshnessRequests ==
  ASSUME TypeOK, FreshnessInv, NEW e \in Events,
         events' = Append(events, e),
         UNCHANGED <<storageVars, settled, dead, crashes, pc, workVars,
                     baseline>>,
         \A p \in Paths : head'[p] # head[p] => Mentions(e, p),
         \A p \in e.removed : head'[p] = 0
  PROVE  FreshnessInv'
<1> USE DEF TypeOK, storageVars, workVars
<1>1. /\ DOMAIN events' = DOMAIN events \cup {Len(events) + 1}
      /\ \A k \in DOMAIN events : events'[k] = events[k]
      /\ events'[Len(events) + 1] = e
      /\ DOMAIN events = 1..Len(events)
      /\ Len(events) \in Nat
      /\ settled \in 0..Len(events)
  BY DEF IndexTypeOK
<1>2. ASSUME NEW p \in Paths
      PROVE  /\ Covered(p) => Covered(p)'
             /\ Mentions(e, p) => Covered(p)'
  BY PublishCovers
<1>3. Requested' => Requested \/ \A p \in Paths : Mentions(e, p)
  BY PublishRequests DEF Mentions
<1>4. Working => settled + 1 \in DOMAIN events /\ Event' = Event
  BY <1>1 DEF IndexTypeOK, Working, Event
<1>5. Freshness'
  <2> SUFFICES ASSUME Requested', NEW p \in Paths, Stale(p)' PROVE Covered(p)'
    BY DEF Freshness
  <2>1. CASE Mentions(e, p)
    BY <1>2, <2>1
  <2>2. CASE ~ Mentions(e, p)
    <3>1. Requested /\ Stale(p)
      BY <1>3, <2>2 DEF Stale
    <3>2. QED
      BY <1>2, <3>1 DEF FreshnessInv, Freshness
  <2>3. QED
    BY <2>1, <2>2
<1>6. CloneIsRecent'
  <2> SUFFICES ASSUME Working', NEW p \in Paths, clone'[p] # head'[p]
               PROVE  LaterMention(settled + 1, p)'
    BY DEF CloneIsRecent
  <2>1. settled' = settled /\ settled + 1 \in DOMAIN events
    BY <1>4 DEF Working
  <2>2. \A i \in DOMAIN events :
          /\ LaterMention(i, p) => LaterMention(i, p)'
          /\ Mentions(e, p) => LaterMention(i, p)'
    BY PublishMentions
  <2>3. clone[p] # head[p] \/ Mentions(e, p)
    OBVIOUS
  <2>4. clone[p] # head[p] => LaterMention(settled + 1, p)
    BY DEF FreshnessInv, CloneIsRecent, Working
  <2>5. \A i : i = settled + 1 => LaterMention(i, p)'
    BY <2>1, <2>2, <2>3, <2>4
  <2>6. QED
    BY <2>1, <2>5
<1>7. RemovalsLast'
  <2> SUFFICES ASSUME NEW i \in DOMAIN events', NEW p \in events'[i].removed,
                      head'[p] # 0
               PROVE  LaterMention(i, p)'
    BY DEF RemovalsLast
  <2>1. i \in DOMAIN events /\ p \in events[i].removed
    BY <1>1
  <2>2. events[i] \in Events
    BY <2>1 DEF IndexTypeOK
  <2>3. p \in Paths
    BY <2>1, <2>2 DEF Events, FullIndexEvent, PushEvent
  <2>4. head[p] = 0 \/ LaterMention(i, p)
    BY <2>1 DEF FreshnessInv, RemovalsLast
  <2>5. QED
    BY <2>1, <2>3, <2>4, PublishMentions
<1>8. FullRuns'
  <2>1. full' /\ Requested' => \A p \in Paths : Covered(p)'
    BY <1>2, <1>3 DEF FreshnessInv, FullRuns
  <2>2. QED
    BY <1>4, <2>1 DEF FreshnessInv, FullRuns, Working
<1>9. RowsOwned'
  BY DEF FreshnessInv, RowsOwned
<1>10. RowsOfRun'
  <2>1. pc # "idle" => /\ Fresh' = Fresh
                       /\ \A p : Handled(p)' <=> Handled(p)
                       /\ \A p : Wanted(p)' = Wanted(p)
    BY <1>4 DEF Working, Fresh, Handled, Wanted
  <2>2. CASE pc = "idle"
    BY <2>2 DEF RowsOfRun, Discarding, Inserted
  <2>3. CASE pc # "idle"
    BY <2>1, <2>3 DEF FreshnessInv, RowsOfRun
  <2>4. QED
    BY <2>2, <2>3
<1>11. QED
  BY <1>5, <1>6, <1>7, <1>8, <1>9, <1>10 DEF FreshnessInv

-----------------------------------------------------------------------------
\* A step of a run that leaves the tip and the events alone, and makes nothing
\* stale but what the event in hand is there for.
LEMMA RunStep ==
  ASSUME TypeOK, FreshnessInv, head' = head, events' = events,
         settled' = settled, dead' = dead, Working' => Working /\ clone' = clone,
         \A p \in Paths : Stale(p)' /\ Requested => Stale(p) \/ Covered(p)
  PROVE  Freshness' /\ CloneIsRecent' /\ RemovalsLast'
<1>1. /\ Requested' <=> Requested
      /\ \A p : Covered(p)' <=> Covered(p)
      /\ \A i, p : LaterMention(i, p)' <=> LaterMention(i, p)
  BY RunKeepsEvents
<1>2. Freshness'
  BY <1>1 DEF FreshnessInv, Freshness
<1>3. CloneIsRecent'
  BY <1>1 DEF FreshnessInv, CloneIsRecent
<1>4. RemovalsLast'
  BY <1>1 DEF FreshnessInv, RemovalsLast
<1>5. QED
  BY <1>2, <1>3, <1>4

\* What a step that keeps the event, the clone and the mode keeps.
LEMMA RunKeepsPlan ==
  ASSUME events' = events, settled' = settled, clone' = clone, full' = full
  PROVE  /\ Fresh' = Fresh
         /\ \A p : Handled(p)' <=> Handled(p)
         /\ \A p : Wanted(p)' = Wanted(p)
BY DEF Fresh, Handled, Wanted, Event

\* A file of the run that is not in the clone's changed paths is not fresh;
\* every fresh file is handled.
LEMMA FreshIsHandled ==
  ASSUME NEW p \in Fresh
  PROVE  Handled(p) /\ Wanted(p) = clone[p]
BY DEF Fresh, Handled, Wanted, Mentions

\* What the run has handled is covered.
LEMMA HandledIsCovered ==
  ASSUME TypeOK, FreshnessInv, Working, Requested, NEW p \in Paths, Handled(p)
  PROVE  Covered(p)
<1>1. settled < Len(events) /\ IndexTypeOK
  BY DEF TypeOK, IndexTypeOK
<1>2. CASE full
  BY <1>2 DEF FreshnessInv, FullRuns
<1>3. CASE Mentions(Event, p)
  BY <1>1, <1>3, MentionedIsCovered
<1>4. QED
  BY <1>2, <1>3 DEF Handled

-----------------------------------------------------------------------------
(* The consumer loop.                                                      *)

\* A new clone is the branch tip itself; the run has done nothing yet.
LEMMA FreshnessClone == TypeOK /\ FreshnessInv /\ Clone => FreshnessInv'
<1> SUFFICES ASSUME TypeOK, FreshnessInv, Clone PROVE FreshnessInv'
  OBVIOUS
<1> USE DEF Clone, storageVars, queueVars
<1>1. /\ Requested' <=> Requested
      /\ \A p : Covered(p)' <=> Covered(p)
      /\ \A i, p : LaterMention(i, p)' <=> LaterMention(i, p)
  BY RunKeepsEvents
<1>2. Freshness' /\ RemovalsLast'
  BY <1>1 DEF FreshnessInv, Freshness, Stale, RemovalsLast
<1>3. CloneIsRecent'
  BY DEF CloneIsRecent
<1>4. FullRuns' /\ RowsOwned' /\ RowsOfRun'
  BY DEF FreshnessInv, FullRuns, RowsOwned, RowsOfRun, Discarding, Inserted
<1>5. QED
  BY <1>2, <1>3, <1>4 DEF FreshnessInv

\* Fail and Reject: what the event mentions is owed to the dead-letter exchange.
LEMMA FreshnessDeadLetter ==
  ASSUME TypeOK, FreshnessInv, UNCHANGED <<storageVars, queueVars>>,
         settled' = settled + 1, dead' = dead \cup {settled + 1},
         pc' = "idle", ~ full'
  PROVE  FreshnessInv'
<1> USE DEF TypeOK, storageVars, queueVars
<1>1. \A p : Covered(p) => Covered(p)'
  BY DeadLetterCovers
<1>2. Requested' <=> Requested
  BY DEF Requested
<1>3. Freshness'
  BY <1>1, <1>2 DEF FreshnessInv, Freshness, Stale
<1>4. RemovalsLast'
  BY DEF FreshnessInv, RemovalsLast, LaterMention
<1>5. CloneIsRecent'
  BY DEF CloneIsRecent, Working
<1>6. FullRuns' /\ RowsOwned' /\ RowsOfRun'
  BY DEF FreshnessInv, FullRuns, RowsOwned, RowsOfRun, Discarding, Inserted
<1>7. QED
  BY <1>3, <1>4, <1>5, <1>6 DEF FreshnessInv

\* The heart of the matter: an acked event has brought up to date what it
\* mentions, or a later event mentions it again.
LEMMA FreshnessAck == TypeOK /\ FreshnessInv /\ Ack => FreshnessInv'
<1> SUFFICES ASSUME TypeOK, FreshnessInv, Ack PROVE FreshnessInv'
  OBVIOUS
<1> USE DEF TypeOK, Ack, Rest, storageVars, queueVars
<1>1. IndexTypeOK /\ Working /\ settled < Len(events)
  BY DEF IndexTypeOK, Working
<1>2. settled + 1 \in DOMAIN events /\ Event \in Events
  BY <1>1, EventIsPublished
<1>3. Requested' <=> Requested
  BY DEF Requested
<1>4. pc \in Inserted /\ repository /\ ~ absPaths
  BY DEF Inserted, FreshnessInv, RowsOwned
<1>5. ASSUME Requested, NEW p \in Paths, file[p] # head[p], Handled(p)
      PROVE  Covered(p)'
  <2>1. file[p] = Wanted(p)
    BY <1>4, <1>5 DEF FreshnessInv, RowsOfRun
  <2>2. CASE file[p] = clone[p]
    <3>1. LaterMention(settled + 1, p)
      BY <1>1, <1>5, <2>2 DEF FreshnessInv, CloneIsRecent
    <3>2. QED
      BY <1>1, <3>1, LaterIsCovered
  <2>3. CASE file[p] # clone[p]
    <3>1. file[p] = 0 /\ p \notin Fresh /\ clone[p] # 0
      BY <2>1, <2>3 DEF Wanted
    <3>2. ~ full /\ p \notin Event.changed
      BY <3>1 DEF Fresh
    <3>3. Event.type # "FULL_INDEX"
      BY <3>2 DEF FreshnessInv, FullRuns
    <3>4. p \in Event.removed
      BY <1>5, <3>2, <3>3 DEF Handled, Mentions
    <3>5. LaterMention(settled + 1, p)
      BY <1>2, <1>5, <3>1, <3>4 DEF FreshnessInv, RemovalsLast, Event
    <3>6. QED
      BY <1>1, <3>5, LaterIsCovered
  <2>4. QED
    BY <2>2, <2>3
<1>6. ASSUME Requested, NEW p \in Paths, file[p] # head[p], ~ Handled(p)
      PROVE  Covered(p)'
  <2>1. Covered(p) /\ ~ Mentions(Event, p)
    BY <1>6 DEF FreshnessInv, Freshness, Stale, Handled
  <2>2. QED
    BY <1>1, <2>1, AckCovers
<1>7. Freshness'
  BY <1>3, <1>4, <1>5, <1>6 DEF Freshness, Stale
<1>8. RemovalsLast'
  BY DEF FreshnessInv, RemovalsLast, LaterMention
<1>9. CloneIsRecent'
  BY DEF CloneIsRecent, Working
<1>10. FullRuns' /\ RowsOwned' /\ RowsOfRun'
  BY DEF FreshnessInv, FullRuns, RowsOwned, RowsOfRun, Discarding, Inserted
<1>11. QED
  BY <1>7, <1>8, <1>9, <1>10 DEF FreshnessInv

\* A crash drops the locals; the event stays outstanding.
LEMMA FreshnessCrash == TypeOK /\ FreshnessInv /\ Crash => FreshnessInv'
<1> SUFFICES ASSUME TypeOK, FreshnessInv, Crash PROVE FreshnessInv'
  OBVIOUS
<1> USE DEF Crash, CrashIndexing, Rest, storageVars, queueVars
<1>1. Freshness' /\ CloneIsRecent' /\ RemovalsLast'
  <2>1. ~ Working'
    BY DEF Working
  <2>2. \A p \in Paths : Stale(p)' <=> Stale(p)
    BY DEF Stale
  <2>3. QED
    BY <2>1, <2>2, RunStep
<1>2. FullRuns' /\ RowsOwned' /\ RowsOfRun'
  BY DEF FreshnessInv, FullRuns, RowsOwned, RowsOfRun, Discarding, Inserted
<1>3. QED
  BY <1>1, <1>2 DEF FreshnessInv

-----------------------------------------------------------------------------
(* The pipeline.                                                           *)

\* Where a run starts, in which mode, and from which rows.
LEMMA FreshnessUpsert == TypeOK /\ FreshnessInv /\ UpsertRepository => FreshnessInv'
<1> SUFFICES ASSUME TypeOK, FreshnessInv, UpsertRepository PROVE FreshnessInv'
  OBVIOUS
<1> USE DEF UpsertRepository, UpsertRepositoryRow, queueVars
<1>1. Working /\ Working' /\ settled < Len(events) /\ IndexTypeOK
  BY DEF Working, TypeOK, IndexTypeOK
<1>2. Event \in Events /\ Event' = Event
  BY <1>1, EventIsPublished DEF Event
<1>3. /\ Requested' <=> Requested
      /\ \A p : Covered(p)' <=> Covered(p)
  BY RunKeepsEvents
<1>4. Freshness' /\ CloneIsRecent' /\ RemovalsLast'
  <2>1. \A p \in Paths : Stale(p)' => Stale(p)
    BY DEF Stale
  <2>2. QED
    BY <1>1, <2>1, RunStep
<1>5. FullRuns'
  <2>1. ASSUME full', Requested, NEW p \in Paths PROVE Covered(p)
    <3>1. CASE Event.type = "FULL_INDEX"
      BY <1>1, <3>1, MentionedIsCovered DEF Mentions
    <3>2. CASE ~ repository
      BY <2>1, <3>2 DEF FreshnessInv, Freshness, Stale
    <3>3. CASE Event.type = "INCREMENTAL_INDEX" /\ repository
      BY <2>1, <3>3 DEF FreshnessInv, FullRuns
    <3>4. QED
      BY <1>2, <3>1, <3>2, <3>3 DEF Events, FullIndexEvent, PushEvent
  <2>2. full' => pc' \notin {"idle", "upsert", "list"}
    BY DEF FreshnessInv, FullRuns
  <2>3. Event.type = "FULL_INDEX" => full'
    OBVIOUS
  <2>4. QED
    BY <1>2, <1>3, <2>1, <2>2, <2>3 DEF FullRuns
<1>6. RowsOwned'
  BY DEF FreshnessInv, RowsOwned, Discarding, Inserted
<1>7. RowsOfRun'
  <2>1. CASE pc' = "list"
    BY <2>1 DEF RowsOfRun, Discarding, Inserted
  <2>2. CASE pc' = "discard"
    BY <2>2 DEF RowsOfRun, Discarding, Inserted, Handled
  <2>3. CASE pc' = "load"
    <3>1. ~ repository
      BY <2>3
    <3>2. \A p \in Paths : file'[p] = 0
      BY <3>1 DEF FreshnessInv, RowsOwned
    <3>3. QED
      BY <2>3, <3>2 DEF RowsOfRun, Discarding, Inserted
  <2>4. QED
    BY <2>1, <2>2, <2>3
<1>8. QED
  BY <1>4, <1>5, <1>6, <1>7 DEF FreshnessInv

\* processIncremental plans to discard the known files the push names, or all.
LEMMA FreshnessList == TypeOK /\ FreshnessInv /\ ListFiles => FreshnessInv'
<1> SUFFICES ASSUME TypeOK, FreshnessInv, ListFiles PROVE FreshnessInv'
  OBVIOUS
<1> USE DEF ListFiles, Named, queueVars, storageVars
<1>1. Working /\ Working' /\ settled < Len(events) /\ IndexTypeOK
  BY DEF Working, TypeOK, IndexTypeOK
<1>2. Event \in Events /\ Event' = Event
  BY <1>1, EventIsPublished DEF Event
<1>3. /\ Requested' <=> Requested
      /\ \A p : Covered(p)' <=> Covered(p)
  BY RunKeepsEvents
<1>4. Freshness' /\ CloneIsRecent' /\ RemovalsLast'
  <2>1. \A p \in Paths : Stale(p)' => Stale(p)
    BY DEF Stale
  <2>2. QED
    BY <1>1, <2>1, RunStep
<1>5. ~ full /\ Event.type # "FULL_INDEX" /\ repository
  BY DEF FreshnessInv, FullRuns, RowsOwned
<1>6. CASE absPaths
  <2>1. full' /\ pc' = "discard" /\ todo' = Paths
    BY <1>6
  <2>2. Requested => \A p \in Paths : Covered(p)
    BY <1>6 DEF FreshnessInv, Freshness, Stale
  <2>3. FullRuns'
    BY <1>3, <2>1, <2>2 DEF FullRuns
  <2>4. RowsOwned'
    BY <1>5, <2>1 DEF RowsOwned, Discarding, Inserted
  <2>5. RowsOfRun'
    BY <2>1 DEF RowsOfRun, Discarding, Inserted, Handled
  <2>6. QED
    BY <1>4, <2>3, <2>4, <2>5 DEF FreshnessInv
<1>7. CASE ~ absPaths
  <2>1. ~ full' /\ todo' = (Event.changed \cup Event.removed) \cap Indexed
    BY <1>7
  <2>2. \A p \in Paths : Handled(p)' <=> p \in Event.changed \cup Event.removed
    BY <1>2, <1>5, <2>1 DEF Handled, Mentions
  <2>3. pc' = "ack" => \A p \in Paths : ~ Handled(p)'
    BY <1>7, <2>2
  <2>4. FullRuns'
    BY <1>2, <1>5, <2>1 DEF FullRuns
  <2>5. RowsOwned'
    BY <1>5, <1>7 DEF RowsOwned, Discarding, Inserted
  <2>6. RowsOfRun'
    <3>1. CASE pc' = "ack"
      BY <2>3, <3>1 DEF RowsOfRun, Discarding, Inserted
    <3>2. CASE pc' = "load"
      <4>1. \A p \in Paths : Handled(p)' => file[p] = 0
        BY <1>7, <2>2, <3>2 DEF Indexed
      <4>2. QED
        BY <3>2, <4>1 DEF RowsOfRun, Discarding, Inserted
    <3>3. CASE pc' = "discard"
      <4>1. \A p \in Paths : Handled(p)' => p \in todo' \/ file[p] = 0
        BY <2>1, <2>2 DEF Indexed
      <4>2. \A p \in todo' : Handled(p)'
        BY <2>1, <2>2 DEF Indexed
      <4>3. QED
        BY <3>3, <4>1, <4>2 DEF RowsOfRun, Discarding, Inserted
    <3>4. QED
      BY <1>7, <3>1, <3>2, <3>3
  <2>7. QED
    BY <1>4, <2>4, <2>5, <2>6 DEF FreshnessInv
<1>8. QED
  BY <1>6, <1>7

\* A step within a run, whatever it writes besides file rows.
LEMMA PlanStep ==
  ASSUME TypeOK, FreshnessInv, Working, pc \notin {"upsert", "list"},
         pc' \notin {"idle", "upsert", "list"},
         head' = head, events' = events, settled' = settled, dead' = dead,
         clone' = clone, full' = full, repository' = repository,
         absPaths' => absPaths,
         \A p \in Paths : file'[p] # file[p] => Handled(p)
  PROVE  /\ Freshness' /\ CloneIsRecent' /\ RemovalsLast' /\ FullRuns'
         /\ Fresh' = Fresh
         /\ \A p : Handled(p)' <=> Handled(p)
         /\ \A p : Wanted(p)' = Wanted(p)
<1>1. repository
  BY DEF FreshnessInv, RowsOwned, Working
<1>2. \A p \in Paths : Stale(p)' /\ Requested => Stale(p) \/ Covered(p)
  BY <1>1, HandledIsCovered DEF Stale
<1>3. Freshness' /\ CloneIsRecent' /\ RemovalsLast'
  BY <1>2, RunStep
<1>4. FullRuns'
  BY RunKeepsEvents DEF FreshnessInv, FullRuns, Working
<1>5. QED
  BY <1>3, <1>4, RunKeepsPlan

\* A step of the loop that reads and deletes vectors leaves the rows alone.
LEMMA FreshnessDiscard ==
  TypeOK /\ FreshnessInv /\ (ReadEmbeddingIds \/ DeleteVectorBatch)
    => FreshnessInv'
<1> SUFFICES ASSUME TypeOK, FreshnessInv, ReadEmbeddingIds \/ DeleteVectorBatch
             PROVE  FreshnessInv'
  OBVIOUS
<1> USE DEF ReadEmbeddingIds, DeleteVectorBatch, storageVars, graphVars,
            queueVars, Working
<1>1. /\ Freshness' /\ CloneIsRecent' /\ RemovalsLast' /\ FullRuns'
      /\ \A p : Handled(p)' <=> Handled(p)
  BY PlanStep
<1>2. RowsOwned'
  BY DEF FreshnessInv, RowsOwned, Discarding, Inserted
<1>3. RowsOfRun'
  <2>1. pc \in Discarding /\ pc' = "vectors" /\ todo' = todo /\ file' = file
    BY DEF Discarding
  <2>2. scope' \subseteq todo' /\ (full' => scope' = todo')
    BY DEF FreshnessInv, RowsOfRun
  <2>3. QED
    BY <1>1, <2>1, <2>2 DEF FreshnessInv, RowsOfRun, Discarding, Inserted
<1>4. QED
  BY <1>1, <1>2, <1>3 DEF FreshnessInv

\* The rows of scope go; when none is left to discard, every file the run
\* rebuilds is without a row.
LEMMA FreshnessDelete == TypeOK /\ FreshnessInv /\ DeleteFileRows => FreshnessInv'
<1> SUFFICES ASSUME TypeOK, FreshnessInv, DeleteFileRows PROVE FreshnessInv'
  OBVIOUS
<1> USE DEF DeleteFileRows, DeleteFiles, queueVars, Working
<1>1. /\ scope \subseteq todo
      /\ \A p \in todo : Handled(p)
      /\ \A p \in Paths : Handled(p) => p \in todo \/ file[p] = 0
      /\ full => scope = todo
  BY DEF FreshnessInv, RowsOfRun, Discarding
<1>2. \A p \in Paths : file'[p] # file[p] => Handled(p)
  BY <1>1
<1>3. /\ Freshness' /\ CloneIsRecent' /\ RemovalsLast' /\ FullRuns'
      /\ \A p : Handled(p)' <=> Handled(p)
  BY <1>2, PlanStep
<1>4. RowsOwned'
  <2>1. ~ full => ~ absPaths
    BY DEF FreshnessInv, RowsOwned, Discarding
  <2>2. repository /\ ~ absPaths'
    BY <2>1 DEF FreshnessInv, RowsOwned
  <2>3. QED
    BY <2>2 DEF RowsOwned
<1>5. \A p \in Paths : Handled(p) => p \in todo' \/ file'[p] = 0
  BY <1>1
<1>6. RowsOfRun'
  BY <1>1, <1>3, <1>5 DEF RowsOfRun, Discarding, Inserted
<1>7. QED
  BY <1>3, <1>4, <1>6 DEF FreshnessInv

\* The loop over the packages starts with every row it inserts missing.
LEMMA FreshnessLoad == TypeOK /\ FreshnessInv /\ LoadPackages => FreshnessInv'
<1> SUFFICES ASSUME TypeOK, FreshnessInv, LoadPackages PROVE FreshnessInv'
  OBVIOUS
<1> USE DEF LoadPackages, storageVars, queueVars, Working
<1>1. /\ Freshness' /\ CloneIsRecent' /\ RemovalsLast' /\ FullRuns'
      /\ Fresh' = Fresh
      /\ \A p : Handled(p)' <=> Handled(p)
      /\ \A p : Wanted(p)' = Wanted(p)
  BY PlanStep
<1>2. RowsOwned'
  BY DEF FreshnessInv, RowsOwned, Discarding, Inserted
<1>3. \A p \in Paths : Handled(p) => file[p] = 0
  BY DEF FreshnessInv, RowsOfRun
<1>4. \A p \in Paths : 0 = IF p \in Fresh THEN 0 ELSE Wanted(p)
  BY DEF Wanted
<1>5. RowsOfRun'
  BY <1>1, <1>3, <1>4 DEF RowsOfRun, Discarding, Inserted
<1>6. QED
  BY <1>1, <1>2, <1>5 DEF FreshnessInv

\* One file row more.
LEMMA FreshnessInsert == TypeOK /\ FreshnessInv /\ InsertFile => FreshnessInv'
<1> SUFFICES ASSUME TypeOK, FreshnessInv, InsertFile PROVE FreshnessInv'
  OBVIOUS
<1> USE DEF InsertFile, InsertFileRow, queueVars, Working
<1>1. PICK p \in todo : /\ file' = [file EXCEPT ![p] = clone[p]]
                        /\ todo' = todo \ {p}
  OBVIOUS
<1>2. /\ todo \subseteq Fresh
      /\ \A q \in Paths : Handled(q) =>
           file[q] = IF q \in todo THEN 0 ELSE Wanted(q)
  BY DEF FreshnessInv, RowsOfRun
<1>3. Handled(p) /\ Wanted(p) = clone[p] /\ p \in Paths
  BY <1>2, FreshIsHandled DEF Fresh
<1>4. file \in [Paths -> Nat]
  BY DEF TypeOK, StorageTypeOK, Versions
<1>5. \A q \in Paths : file'[q] = IF q = p THEN clone[p] ELSE file[q]
  BY <1>1, <1>4
<1>6. \A q \in Paths : file'[q] # file[q] => Handled(q)
  BY <1>3, <1>5
<1>7. /\ Freshness' /\ CloneIsRecent' /\ RemovalsLast' /\ FullRuns'
      /\ Fresh' = Fresh
      /\ \A q : Handled(q)' <=> Handled(q)
      /\ \A q : Wanted(q)' = Wanted(q)
  BY <1>6, PlanStep
<1>8. RowsOwned'
  BY DEF FreshnessInv, RowsOwned, Discarding, Inserted
<1>9. \A q \in Paths : Handled(q) =>
        file'[q] = IF q \in todo' THEN 0 ELSE Wanted(q)
  BY <1>1, <1>2, <1>3, <1>5
<1>10. RowsOfRun'
  BY <1>1, <1>2, <1>7, <1>9 DEF RowsOfRun, Discarding, Inserted
<1>11. QED
  BY <1>7, <1>8, <1>10 DEF FreshnessInv

\* After the file rows: symbols, edges, chunks and messages leave them alone.
LEMMA FreshnessTail ==
  TypeOK /\ FreshnessInv
    /\ (ExtractSymbols \/ BuildCallEdges \/ BuildImportEdges \/ InsertChunk
          \/ PublishChunk)
    => FreshnessInv'
<1> SUFFICES ASSUME TypeOK, FreshnessInv,
                    ExtractSymbols \/ BuildCallEdges \/ BuildImportEdges
                      \/ InsertChunk \/ PublishChunk
             PROVE  FreshnessInv'
  OBVIOUS
<1>1. /\ UNCHANGED <<head, events, settled, dead, clone, full, repository,
                     absPaths, file>>
      /\ pc \in Inserted \/ (pc = "files" /\ todo = {})
      /\ pc' \in Inserted
  <2> USE DEF graphVars, queueVars, workVars, Inserted
  <2>1. CASE ExtractSymbols
    BY <2>1 DEF ExtractSymbols
  <2>2. CASE BuildCallEdges
    BY <2>2 DEF BuildCallEdges
  <2>3. CASE BuildImportEdges
    BY <2>3 DEF BuildImportEdges
  <2>4. CASE InsertChunk
    BY <2>4 DEF InsertChunk
  <2>5. CASE PublishChunk
    BY <2>5 DEF PublishChunk
  <2>6. QED
    BY <2>1, <2>2, <2>3, <2>4, <2>5
<1>2. /\ Freshness' /\ CloneIsRecent' /\ RemovalsLast' /\ FullRuns'
      /\ \A p : Handled(p)' <=> Handled(p)
      /\ \A p : Wanted(p)' = Wanted(p)
  BY <1>1, PlanStep DEF Working, Inserted
<1>3. RowsOwned'
  BY <1>1 DEF FreshnessInv, RowsOwned, Discarding, Inserted
<1>4. \A p \in Paths : Handled(p) => file[p] = Wanted(p)
  BY <1>1 DEF FreshnessInv, RowsOfRun
<1>5. RowsOfRun'
  BY <1>1, <1>2, <1>4 DEF RowsOfRun, Discarding, Inserted
<1>6. QED
  BY <1>2, <1>3, <1>5 DEF FreshnessInv

-----------------------------------------------------------------------------
\* Whoever leaves the pipeline and its file rows alone leaves the invariant.
LEMMA FreshnessKept ==
  ASSUME TypeOK, FreshnessInv,
         UNCHANGED <<repository, file, absPaths, indexVars>>
  PROVE  FreshnessInv'
<1>1. UNCHANGED <<repository, file, absPaths, head, events, settled, dead, pc,
                  clone, full, todo, scope>>
  BY DEF indexVars
<1>2. Freshness' /\ CloneIsRecent' /\ RemovalsLast'
  BY <1>1, RunStep DEF Working, Stale
<1>3. /\ Requested' <=> Requested
      /\ \A p : Covered(p)' <=> Covered(p)
      /\ Event' = Event
  BY <1>1, RunKeepsEvents
<1>4. /\ Fresh' = Fresh
      /\ \A p : Handled(p)' <=> Handled(p)
      /\ \A p : Wanted(p)' = Wanted(p)
  BY <1>1, RunKeepsPlan
<1>5. FullRuns' /\ RowsOwned'
  BY <1>1, <1>3 DEF FreshnessInv, FullRuns, RowsOwned
<1>6. RowsOfRun'
  BY <1>1, <1>4 DEF FreshnessInv, RowsOfRun
<1>7. QED
  BY <1>2, <1>5, <1>6 DEF FreshnessInv

\* Every step preserves the invariant.
LEMMA FreshnessNext == TypeOK /\ FreshnessInv /\ [Next]_vars => FreshnessInv'
<1> SUFFICES ASSUME TypeOK, FreshnessInv, [Next]_vars PROVE FreshnessInv'
  OBVIOUS
<1>1. CASE RequestFullIndex
  <2>1. FullIndexEvent \in Events /\ FullIndexEvent.removed = {}
    BY DEF Events, FullIndexEvent
  <2>2. \A p \in Paths : head'[p] # head[p] => Mentions(FullIndexEvent, p)
    BY <1>1 DEF RequestFullIndex
  <2>3. QED
    BY <1>1, <2>1, <2>2, FreshnessRequests DEF RequestFullIndex
<1>2. ASSUME NEW C \in SUBSET Paths, NEW R \in SUBSET Paths, Push(C, R)
      PROVE  FreshnessInv'
  <2>1. PushEvent(C, R) \in Events /\ PushEvent(C, R).removed = R
    BY DEF Events, PushEvent
  <2>2. \A p \in Paths : head'[p] # head[p] => Mentions(PushEvent(C, R), p)
    BY <1>2 DEF Push, PushEvent, Mentions
  <2>3. \A p \in R : head'[p] = 0
    BY <1>2 DEF Push
  <2>4. QED
    BY <1>2, <2>1, <2>2, <2>3, FreshnessRequests DEF Push
<1>3. CASE Reject
  <2>1. ~ full'
    BY <1>3 DEF Reject, FreshnessInv, FullRuns, workVars
  <2>2. QED
    BY <1>3, <2>1, FreshnessDeadLetter DEF Reject
<1>4. CASE Fail
  BY <1>4, FreshnessDeadLetter DEF Fail, Rest
<1>5. CASE Pipeline
  BY <1>5, FreshnessUpsert, FreshnessList, FreshnessDiscard, FreshnessDelete,
     FreshnessLoad, FreshnessInsert, FreshnessTail DEF Pipeline
<1>6. CASE Clone \/ Ack \/ Crash
  BY <1>6, FreshnessClone, FreshnessAck, FreshnessCrash
<1>7. CASE UNCHANGED vars
  <2>1. UNCHANGED <<repository, file, absPaths, indexVars>>
    BY <1>7 DEF vars, storageVars
  <2>2. QED
    BY <2>1, FreshnessKept
<1>8. QED
  <2>1. CASE Requests
    BY <1>1, <1>2, <2>1 DEF Requests
  <2>2. CASE Worker
    BY <1>4, <1>5, <1>6, <2>2 DEF Worker
  <2>3. QED
    BY <1>3, <1>6, <1>7, <2>1, <2>2 DEF Next

\* The inductive invariant holds of every reachable state.
THEOREM FreshnessInvariant == Spec => [](TypeOK /\ FreshnessInv)
<1>1. Spec => []TypeOK
  BY TypeCorrect
<1>2. Init => FreshnessInv
  BY FreshnessInit
<1>3. TypeOK /\ FreshnessInv /\ [Next]_vars => FreshnessInv'
  BY FreshnessNext
<1>4. QED
  BY <1>1, <1>2, <1>3, PTL DEF Spec

\* No push is absorbed without effect (handle, ProcessRepository,
\* processIncremental): a file row that differs from the branch tip is owed to
\* an event in the queue or in the dead-letter exchange, for any number of
\* files, pushes, crashes and failures.
THEOREM FreshnessHolds == Spec => []Freshness
<1>1. FreshnessInv => Freshness
  BY DEF FreshnessInv
<1>2. QED
  BY <1>1, FreshnessInvariant, PTL

\* A file that a run is about to insert is one it handles, and has no row.
LEMMA InsertsAreNew == TypeOK /\ FreshnessInv => NoPathConflict
<1> SUFFICES ASSUME TypeOK, FreshnessInv, pc = "files", NEW p \in todo
             PROVE  file[p] = 0
  BY DEF NoPathConflict, PathConflict
<1>1. p \in Fresh /\ p \in Paths
  BY DEF FreshnessInv, RowsOfRun, Fresh
<1>2. Handled(p)
  BY <1>1, FreshIsHandled
<1>3. QED
  BY <1>1, <1>2 DEF FreshnessInv, RowsOfRun

\* UNIQUE (repository_id, path) is never violated by ProcessFiles: a run, even
\* one that is redelivered after a crash, inserts only rows that are not there.
THEOREM NoPathConflictHolds == Spec => []NoPathConflict
<1>1. QED
  BY InsertsAreNew, FreshnessInvariant, PTL

-----------------------------------------------------------------------------
(* The contract.  FreshnessInv does the work: whatever a step makes stale,  *)
(* or makes fresh again, is covered by an event before and after it.        *)

\* An event covers nothing but what it mentions.
LEMMA PublishCoversOnly ==
  ASSUME IndexTypeOK, NEW e \in Events, events' = Append(events, e),
         settled' = settled, dead' = dead, NEW p, Covered(p)',
         ~ Mentions(e, p)
  PROVE  Covered(p)
<1>1. /\ DOMAIN events' = DOMAIN events \cup {Len(events) + 1}
      /\ \A k \in DOMAIN events : events'[k] = events[k]
      /\ events'[Len(events) + 1] = e
  BY DEF IndexTypeOK
<1>2. PICK i \in DOMAIN events' :
        /\ Mentions(events'[i], p)
        /\ \A j \in DOMAIN events' :
             j >= i /\ Mentions(events'[j], p) => Outstanding(j)'
  BY DEF Covered
<1>3. i \in DOMAIN events /\ Mentions(events[i], p)
  BY <1>1, <1>2
<1>4. \A j \in DOMAIN events :
        j >= i /\ Mentions(events[j], p) => Outstanding(j)
  BY <1>1, <1>2 DEF Outstanding
<1>5. QED
  BY <1>3, <1>4 DEF Covered

\* An event that is settled, either way, makes nobody owe more.
LEMMA SettleCoversOnly ==
  ASSUME IndexTypeOK, events' = events, settled' = settled + 1,
         dead' \subseteq dead \cup {settled + 1}, NEW p, Covered(p)'
  PROVE  Covered(p)
<1>1. \A j \in DOMAIN events : Outstanding(j)' => Outstanding(j)
  BY DEF Outstanding, IndexTypeOK
<1>2. QED
  BY <1>1 DEF Covered

\* Publishing an event requests the repository if it is a full-index event, and
\* never takes a request back.
LEMMA RequestedAfterPublish ==
  ASSUME IndexTypeOK, NEW e \in Events, events' = Append(events, e)
  PROVE  Requested' <=> Requested \/ e.type = "FULL_INDEX"
<1>1. /\ DOMAIN events' = DOMAIN events \cup {Len(events) + 1}
      /\ \A k \in DOMAIN events : events'[k] = events[k]
      /\ events'[Len(events) + 1] = e
  BY DEF IndexTypeOK
<1>2. QED
  BY <1>1 DEF Requested

-----------------------------------------------------------------------------
\* Initially nobody asked, so everything is owed.
LEMMA ContractInit == Init => Contract!Init
<1> SUFFICES ASSUME Init PROVE Contract!Init
  OBVIOUS
<1>1. DOMAIN events = {}
  BY DEF Init, IndexInit
<1>2. ~ Requested
  BY <1>1 DEF Requested
<1>3. QED
  BY <1>2 DEF Contract!Init, Owed, Current

\* A step that publishes and settles nothing is rework: what it makes stale, or
\* current, is owed.
LEMMA ContractRework ==
  ASSUME FreshnessInv, FreshnessInv', UNCHANGED <<events, settled, dead>>
  PROVE  Contract!Rework
<1>1. /\ Requested' <=> Requested
      /\ \A p : Covered(p)' <=> Covered(p)
  BY RunKeepsEvents
<1>2. Owed' = Owed
  BY <1>1 DEF Owed
<1>3. \A p \in Paths : Stale(p) => p \in Owed
  BY DEF FreshnessInv, Freshness, Owed
<1>4. \A p \in Paths : Stale(p)' => p \in Owed
  BY <1>1 DEF FreshnessInv, Freshness, Owed
<1>5. Current' \ Owed = Current \ Owed
  BY <1>3, <1>4 DEF Current
<1>6. QED
  BY <1>2, <1>5 DEF Contract!Rework, Current

\* A push is a push.
LEMMA ContractPush ==
  ASSUME TypeOK, NEW C \in SUBSET Paths, NEW R \in SUBSET Paths, Push(C, R)
  PROVE  Contract!Push(C \cup R)
<1> DEFINE e == PushEvent(C, R)
<1>1. /\ e \in Events /\ e.type = "INCREMENTAL_INDEX"
      /\ \A p : Mentions(e, p) <=> p \in C \cup R
  BY DEF PushEvent, Events, Mentions
<1>2. /\ events' = Append(events, e) /\ settled' = settled /\ dead' = dead
      /\ IndexTypeOK
  BY DEF Push, TypeOK
<1> HIDE DEF e
<1>3. Requested' <=> Requested
  BY <1>1, <1>2, RequestedAfterPublish
<1>4. \A p \in Paths : Covered(p)' <=> Covered(p) \/ p \in C \cup R
  BY <1>1, <1>2, PublishCovers, PublishCoversOnly
<1>5. Owed' = Owed \cup (C \cup R)
  BY <1>3, <1>4 DEF Owed
<1>6. \A p \in Paths \ (C \cup R) : Stale(p)' <=> Stale(p)
  BY DEF Push, Stale, storageVars
<1>7. Current' \ (C \cup R) = Current \ (C \cup R)
  BY <1>6 DEF Current
<1>8. QED
  BY <1>5, <1>7 DEF Contract!Push, Current

\* A full-index event covers every file.
LEMMA ContractRequest ==
  ASSUME TypeOK, RequestFullIndex
  PROVE  Contract!Request
<1>1. /\ FullIndexEvent \in Events
      /\ \A p : Mentions(FullIndexEvent, p)
  BY DEF FullIndexEvent, Events, Mentions
<1>2. \A p \in Paths : Covered(p)'
  BY <1>1, PublishCovers DEF RequestFullIndex, TypeOK
<1>3. Owed' = Paths
  BY <1>2 DEF Owed
<1>4. Current' = Current
  BY DEF RequestFullIndex, Current, Stale, storageVars
<1>5. QED
  BY <1>3, <1>4 DEF Contract!Request

\* An ack frees only files that are current; a rejection frees none.
LEMMA ContractSettle ==
  ASSUME TypeOK, FreshnessInv', Ack \/ Fail \/ Reject
  PROVE  Contract!Settle
<1>1. /\ events' = events /\ settled' = settled + 1
      /\ dead' \subseteq dead \cup {settled + 1}
      /\ UNCHANGED <<repository, file, absPaths, head>>
  BY DEF Ack, Fail, Reject, storageVars, queueVars
<1>2. Requested' <=> Requested
  BY <1>1 DEF Requested
<1>3. \A p \in Paths : Covered(p)' => Covered(p)
  BY <1>1, SettleCoversOnly DEF TypeOK
<1>4. Owed' \subseteq Owed
  BY <1>2, <1>3 DEF Owed
<1>5. Current' = Current
  BY <1>1 DEF Current, Stale
<1>6. Owed \ Owed' \subseteq Current'
  BY <1>2 DEF Owed, Current, FreshnessInv, Freshness
<1>7. QED
  BY <1>4, <1>5, <1>6 DEF Contract!Settle

\* Every step of the index worker is a step of its contract.
LEMMA ContractNext ==
  ASSUME TypeOK, FreshnessInv, FreshnessInv', [Next]_vars
  PROVE  [Contract!Next]_(Contract!vars)
<1>1. CASE RequestFullIndex
  BY <1>1, ContractRequest DEF Contract!Next
<1>2. ASSUME NEW C \in SUBSET Paths, NEW R \in SUBSET Paths, Push(C, R)
      PROVE  Contract!Next
  <2>1. C \cup R \in SUBSET Paths
    OBVIOUS
  <2>2. QED
    BY <1>2, <2>1, ContractPush DEF Contract!Next
<1>3. CASE Ack \/ Fail \/ Reject
  BY <1>3, ContractSettle DEF Contract!Next
<1>4. CASE Clone \/ Pipeline \/ Crash \/ UNCHANGED vars
  <2>1. UNCHANGED <<events, settled, dead>>
    <3>1. CASE Clone \/ Crash \/ UNCHANGED vars
      BY <3>1 DEF Clone, Crash, CrashIndexing, vars, indexVars, queueVars
    <3>2. CASE Pipeline
      BY <3>2 DEF Pipeline, UpsertRepository, ListFiles, ReadEmbeddingIds,
         DeleteVectorBatch, DeleteFileRows, LoadPackages, InsertFile,
         ExtractSymbols, BuildCallEdges, BuildImportEdges, InsertChunk,
         PublishChunk, queueVars
    <3>3. QED
      BY <1>4, <3>1, <3>2
  <2>2. QED
    BY <2>1, ContractRework DEF Contract!Next
<1>5. QED
  BY <1>1, <1>2, <1>3, <1>4 DEF Next, Requests, Worker

\* The index worker implements its contract (handle, ProcessRepository and all
\* it calls): for any number of files, pushes, crashes and failures, a run
\* changes what the index shows of a file only while an event that names it is
\* outstanding, and an ack frees only files that match the branch tip.
THEOREM KeepsContractHolds == Spec => KeepsContract
<1>1. Init => Contract!Init
  BY ContractInit
<1>2. TypeOK /\ FreshnessInv /\ FreshnessInv' /\ [Next]_vars
        => [Contract!Next]_(Contract!vars)
  BY ContractNext
<1>3. QED
  BY <1>1, <1>2, FreshnessInvariant, PTL DEF Spec, KeepsContract, Contract!Spec
=============================================================================
