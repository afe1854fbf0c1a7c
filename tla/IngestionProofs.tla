--------------------------- MODULE IngestionProofs ---------------------------
(***************************************************************************)
(* Theorems about Ingestion, for any organizations, installations,          *)
(* repositories and bounds: no event slips through the queue or is rejected *)
(* without a cause, and no private repository comes to a stranger.          *)
(***************************************************************************)
EXTENDS Ingestion, FiniteSetTheorems, TLAPS

(* What the queue's operations do to the messages in it.                   *)

\* A message added at the end.
LEMMA AppendQueue ==
  ASSUME NEW S, NEW q \in Seq(S), NEW m \in S, IsInjective(q), m \notin Range(q)
  PROVE  /\ Append(q, m) \in Seq(S)
         /\ IsInjective(Append(q, m))
         /\ Range(Append(q, m)) = Range(q) \cup {m}
<1>1. /\ Append(q, m) \in Seq(S)
      /\ Len(Append(q, m)) = Len(q) + 1
      /\ \A i \in 1..Len(q) : Append(q, m)[i] = q[i]
      /\ Append(q, m)[Len(q) + 1] = m
  OBVIOUS
<1>2. DOMAIN Append(q, m) = 1..(Len(q) + 1) /\ DOMAIN q = 1..Len(q)
  BY <1>1
<1>3. Range(Append(q, m)) = Range(q) \cup {m}
  BY <1>1, <1>2 DEF Range
<1>4. IsInjective(Append(q, m))
  BY <1>1, <1>2 DEF Range, IsInjective
<1>5. QED
  BY <1>1, <1>3, <1>4

\* A message taken from the head.
LEMMA TakeHead ==
  ASSUME NEW S, NEW q \in Seq(S), q # <<>>, IsInjective(q)
  PROVE  /\ Tail(q) \in Seq(S)
         /\ IsInjective(Tail(q))
         /\ Head(q) \in S
         /\ Head(q) \notin Range(Tail(q))
         /\ Range(q) = Range(Tail(q)) \cup {Head(q)}
<1>1. /\ Tail(q) \in Seq(S) /\ Head(q) \in S /\ Head(q) = q[1]
      /\ Len(q) \in Nat \ {0}
      /\ Len(Tail(q)) = Len(q) - 1
      /\ \A i \in 1..(Len(q) - 1) : Tail(q)[i] = q[i + 1]
  OBVIOUS
<1>2. DOMAIN Tail(q) = 1..(Len(q) - 1) /\ DOMAIN q = 1..Len(q)
  BY <1>1
<1>3. Head(q) \notin Range(Tail(q))
  BY <1>1, <1>2 DEF Range, IsInjective
<1>4. IsInjective(Tail(q))
  BY <1>1, <1>2 DEF IsInjective
<1>5. Range(q) \subseteq Range(Tail(q)) \cup {Head(q)}
  <2>1. SUFFICES ASSUME NEW i \in 1..Len(q), i # 1
                 PROVE  q[i] \in Range(Tail(q))
    BY <1>1, <1>2 DEF Range
  <2>2. i - 1 \in 1..(Len(q) - 1) /\ Tail(q)[i - 1] = q[i]
    BY <1>1, <2>1
  <2>3. QED
    BY <1>2, <2>2 DEF Range
<1>6. Range(Tail(q)) \cup {Head(q)} \subseteq Range(q)
  BY <1>1, <1>2 DEF Range
<1>7. QED
  BY <1>1, <1>3, <1>4, <1>5, <1>6

\* A message put back at the head.
LEMMA PutBack ==
  ASSUME NEW S, NEW q \in Seq(S), NEW m \in S, IsInjective(q), m \notin Range(q)
  PROVE  /\ <<m>> \o q \in Seq(S)
         /\ IsInjective(<<m>> \o q)
         /\ Range(<<m>> \o q) = Range(q) \cup {m}
<1>1. /\ <<m>> \o q \in Seq(S)
      /\ Len(<<m>> \o q) = Len(q) + 1
      /\ (<<m>> \o q)[1] = m
      /\ \A i \in 1..Len(q) : (<<m>> \o q)[i + 1] = q[i]
  OBVIOUS
<1>2. DOMAIN (<<m>> \o q) = 1..(Len(q) + 1) /\ DOMAIN q = 1..Len(q)
  BY <1>1
<1>3. \A i \in 2..(Len(q) + 1) : i - 1 \in 1..Len(q) /\ (<<m>> \o q)[i] = q[i - 1]
  <2>1. TAKE i \in 2..(Len(q) + 1)
  <2>2. i - 1 \in 1..Len(q) /\ (i - 1) + 1 = i
    OBVIOUS
  <2>3. QED
    BY <1>1, <2>2
<1>4. Range(<<m>> \o q) \subseteq Range(q) \cup {m}
  <2>1. SUFFICES ASSUME NEW i \in 1..(Len(q) + 1), i # 1
                 PROVE  (<<m>> \o q)[i] \in Range(q)
    BY <1>1, <1>2 DEF Range
  <2>2. QED
    BY <1>2, <1>3, <2>1 DEF Range
<1>5. Range(q) \cup {m} \subseteq Range(<<m>> \o q)
  <2>1. \A i \in 1..Len(q) : i + 1 \in 1..(Len(q) + 1)
    OBVIOUS
  <2>2. 1 \in 1..(Len(q) + 1)
    OBVIOUS
  <2>3. \A i \in 1..Len(q) : q[i] \in Range(<<m>> \o q)
    BY <1>1, <1>2, <2>1 DEF Range
  <2>4. m \in Range(<<m>> \o q)
    BY <1>1, <1>2, <2>2 DEF Range
  <2>5. QED
    BY <1>2, <2>3, <2>4 DEF Range
<1>6. IsInjective(<<m>> \o q)
  <2>1. SUFFICES ASSUME NEW i \in 1..(Len(q) + 1), NEW j \in 1..(Len(q) + 1),
                        (<<m>> \o q)[i] = (<<m>> \o q)[j]
                 PROVE  i = j
    BY <1>2 DEF IsInjective
  <2>2. CASE i = 1 /\ j # 1
    BY <1>1, <1>2, <1>3, <2>1, <2>2 DEF Range
  <2>3. CASE i # 1 /\ j = 1
    BY <1>1, <1>2, <1>3, <2>1, <2>3 DEF Range
  <2>4. CASE i # 1 /\ j # 1
    BY <1>2, <1>3, <2>1, <2>4 DEF IsInjective
  <2>5. QED
    BY <2>2, <2>3, <2>4
<1>7. QED
  BY <1>1, <1>4, <1>5, <1>6

\* What a restart of the broker leaves of the queue.
LEMMA WithoutQueue ==
  ASSUME NEW T, NEW q \in Seq(T), NEW S, IsInjective(q), NEW r \in Without(S, q)
  PROVE  r \in Seq(T) /\ IsInjective(r) /\ Range(r) = Range(q) \ S
<1>1. PICK n \in 0..Len(q) : r \in [1..n -> Range(q) \ S]
  BY DEF Without
<1>2. /\ Range(r) = Range(q) \ S
      /\ \A i, j \in DOMAIN r : i < j =>
           \E k, l \in DOMAIN q : k < l /\ q[k] = r[i] /\ q[l] = r[j]
  BY DEF Without
<1>3. Range(q) \subseteq T
  BY DEF Range
<1>4. n \in Nat /\ r \in [1..n -> T]
  BY <1>1, <1>3
<1>5. r \in Seq(T)
  BY <1>4
<1>6. IsInjective(r)
  <2>1. SUFFICES ASSUME NEW i \in 1..n, NEW j \in 1..n, i < j, r[i] = r[j]
                 PROVE  FALSE
    BY <1>1, <1>4 DEF IsInjective
  <2>2. PICK k \in DOMAIN q, l \in DOMAIN q : k < l /\ q[k] = r[i] /\ q[l] = r[j]
    BY <1>1, <1>2, <2>1
  <2>3. DOMAIN q \subseteq Nat
    OBVIOUS
  <2>4. QED
    BY <2>1, <2>2, <2>3 DEF IsInjective
<1>7. QED
  BY <1>2, <1>5, <1>6
-----------------------------------------------------------------------------
(* The queue and the process.                                              *)

\* Each message is in one place, named pairwise for the provers.
Placed ==
  /\ IsInjective(ready)
  /\ Messages = Range(ready) \cup ({unacked} \ {0}) \cup acked \cup rejected
                   \cup lost
  /\ unacked \notin Range(ready) \cup acked \cup rejected \cup lost
  /\ \A m \in Range(ready) : m \notin acked \cup rejected \cup lost
  /\ \A m \in acked : m \notin rejected \cup lost
  /\ \A m \in rejected : m \notin lost

\* What the process holds: as long as its channel is open, the message in hand
\* is the one the broker waits for; a message to be acked has been handled.
SubscriptionInv ==
  /\ published \in Nat
  /\ ready \in Seq(Messages)
  /\ hand \in Messages \cup {0}
  /\ channelOpen \in BOOLEAN
  /\ at = "none" <=> hand = 0
  /\ unacked = IF channelOpen THEN hand ELSE 0
  /\ process = "down" => ~ channelOpen /\ hand = 0
  /\ at = "ack" => hand \in handled
  /\ acked \subseteq handled
  /\ Placed

\* The handler returns while it has a message.
HandlerStep == at = "handler" /\ \E ok \in BOOLEAN : HandlerReturns(ok)

SubscriptionStep ==
  \/ Publish \/ Deliver \/ Take \/ TakeGarbled \/ HandOver \/ GiveBack
  \/ DropBuffered \/ EndLoop \/ HandlerStep \/ Ack \/ Fail
  \/ Shutdown \/ CloseChannel \/ Exit \/ Crash \/ Restart \/ ConnectionLost
  \/ \E S \in SUBSET Waiting : BrokerRestart(S)

\* At the start nothing is published.
LEMMA SubscriptionStarts == SubscriptionInit => SubscriptionInv
<1>1. SUFFICES ASSUME SubscriptionInit PROVE SubscriptionInv
  OBVIOUS
<1>2. Messages = {}
  BY <1>1 DEF SubscriptionInit, Messages
<1>3. ready = <<>> /\ DOMAIN ready = {}
  BY <1>1 DEF SubscriptionInit
<1>4. Range(ready) = {} /\ IsInjective(ready)
  BY <1>3 DEF Range, IsInjective
<1>5. ready \in Seq(Messages)
  BY <1>3
<1>6. QED
  BY <1>1, <1>2, <1>4, <1>5 DEF SubscriptionInit, SubscriptionInv, Placed

\* Requeueing brings the unsettled message back and no other.
LEMMA RequeuedQueue ==
  ASSUME SubscriptionInv
  PROVE  /\ Requeued \in Seq(Messages)
         /\ IsInjective(Requeued)
         /\ Range(Requeued) = Range(ready) \cup ({unacked} \ {0})
<1>1. CASE unacked = 0
  BY <1>1 DEF Requeued, SubscriptionInv, Placed
<1>2. CASE unacked # 0
  <2>1. unacked \in Messages /\ unacked \notin Range(ready)
    BY <1>2 DEF SubscriptionInv, Placed
  <2>2. ready \in Seq(Messages) /\ IsInjective(ready)
    BY DEF SubscriptionInv, Placed
  <2>3. Requeued = <<unacked>> \o ready
    BY <1>2 DEF Requeued
  <2>4. QED
    BY <1>2, <2>1, <2>2, <2>3, PutBack
<1>3. QED
  BY <1>1, <1>2

\* A settlement empties the hand of the process.
LEMMA Settlement ==
  ASSUME SubscriptionInv, at # "none", NEW verdict \in {"ack", "reject", "requeue"},
         Settle(verdict), EmptyHand, verdict = "ack" => at = "ack",
         UNCHANGED <<published, processVars, handled>>
  PROVE  SubscriptionInv'
<1>1. hand \in Messages /\ Messages' = Messages /\ hand' = 0 /\ at' = "none"
  BY DEF SubscriptionInv, EmptyHand, Messages
<1>2. CASE ~ channelOpen
  BY <1>1, <1>2 DEF SubscriptionInv, Placed, Settle, brokerVars, processVars
<1>3. CASE channelOpen
  <2>1. unacked = hand /\ hand # 0 /\ unacked' = 0 /\ lost' = lost
    BY <1>1, <1>3 DEF SubscriptionInv, Settle
  <2>2. 0 \notin Messages
    BY DEF Messages
  <2>3. CASE verdict = "requeue"
    <3>1. ready' = Requeued /\ acked' = acked /\ rejected' = rejected
      BY <1>3, <2>1, <2>3 DEF Settle, Requeued
    <3>2. /\ ready' \in Seq(Messages) /\ IsInjective(ready)'
          /\ Range(ready)' = Range(ready) \cup {hand}
      BY <3>1, <2>1, RequeuedQueue
    <3>3. QED
      BY <1>1, <2>1, <2>2, <3>1, <3>2
      DEF SubscriptionInv, Placed, processVars
  <2>4. CASE verdict = "ack"
    <3>1. ready' = ready /\ acked' = acked \cup {hand} /\ rejected' = rejected
      BY <1>3, <2>4 DEF Settle
    <3>2. QED
      BY <1>1, <2>1, <2>2, <2>4, <3>1 DEF SubscriptionInv, Placed, processVars
  <2>5. CASE verdict = "reject"
    <3>1. ready' = ready /\ acked' = acked /\ rejected' = rejected \cup {hand}
      BY <1>3, <2>5 DEF Settle
    <3>2. QED
      BY <1>1, <2>1, <2>2, <3>1 DEF SubscriptionInv, Placed, processVars
  <2>6. QED
    BY <2>3, <2>4, <2>5
<1>4. QED
  BY <1>2, <1>3

\* No step of the queue, the loops or the process breaks the invariant.
LEMMA SubscriptionKept ==
  ASSUME SubscriptionInv, SubscriptionStep \/ UNCHANGED subscriptionVars
  PROVE  SubscriptionInv'
<1> USE DEF countVars, brokerVars, processVars
<1>0. 0 \notin Messages /\ published \in Nat
  BY DEF Messages, SubscriptionInv
<1>1. CASE Publish
  <2>1. published' = published + 1 /\ ready' = Append(ready, published')
    BY <1>1 DEF Publish
  <2>2. Messages' = Messages \cup {published'} /\ published' \notin Messages
        /\ published' # 0 /\ published' \in Nat
    BY <1>0, <2>1 DEF Messages
  <2>3. ready \in Seq(Messages') /\ IsInjective(ready)
    <3>1. Messages \subseteq Messages' /\ ready \in Seq(Messages)
      BY <2>2 DEF SubscriptionInv
    <3>2. QED
      BY <3>1 DEF SubscriptionInv, Placed
  <2>4. published' \notin Range(ready)
    BY <2>2 DEF SubscriptionInv, Placed
  <2>5. /\ ready' \in Seq(Messages') /\ IsInjective(ready)'
        /\ Range(ready)' = Range(ready) \cup {published'}
    BY <2>1, <2>2, <2>3, <2>4, AppendQueue
  <2>6. unacked # published'
    BY <2>2 DEF SubscriptionInv
  <2>7. UNCHANGED <<unacked, acked, rejected, lost, process, ctxDone, connected,
                    channelOpen, hand, at, handled>>
    BY <1>1 DEF Publish
  <2>8. published' \notin acked \cup rejected \cup lost
    BY <2>2 DEF SubscriptionInv, Placed
  <2>9. Placed'
    BY <2>2, <2>5, <2>6, <2>7, <2>8 DEF SubscriptionInv, Placed
  <2>10. QED
    BY <2>2, <2>5, <2>7, <2>9 DEF SubscriptionInv
<1>2. CASE Deliver
  <2>1. /\ channelOpen /\ at = "none" /\ unacked = 0 /\ ready # <<>>
        /\ unacked' = Head(ready) /\ hand' = Head(ready) /\ ready' = Tail(ready)
        /\ at' = "wire"
        /\ UNCHANGED <<published, acked, rejected, lost, process, channelOpen,
                        handled>>
    BY <1>2 DEF Deliver
  <2>2. /\ Tail(ready) \in Seq(Messages) /\ IsInjective(Tail(ready))
        /\ Head(ready) \in Messages /\ Head(ready) \notin Range(Tail(ready))
        /\ Range(ready) = Range(Tail(ready)) \cup {Head(ready)}
    BY <2>1, TakeHead DEF SubscriptionInv, Placed
  <2>3. Messages' = Messages
    BY <2>1 DEF Messages
  <2>4. Placed'
    BY <1>0, <2>1, <2>2, <2>3 DEF SubscriptionInv, Placed
  <2>5. process # "down" /\ process' = process
    BY <1>2, <2>1 DEF SubscriptionInv, Deliver
  <2>6. QED
    BY <1>0, <2>1, <2>2, <2>3, <2>4, <2>5 DEF SubscriptionInv
<1>3. CASE Take \/ HandOver
  <2>1. /\ at \in {"wire", "offer"} /\ at' \in {"offer", "handler"}
        /\ UNCHANGED <<published, ready, unacked, acked, rejected, lost, process,
                        channelOpen, hand, handled>>
    BY <1>3 DEF Take, HandOver
  <2>2. QED
    BY <2>1 DEF SubscriptionInv, Placed, Messages
<1>4. CASE EndLoop \/ Shutdown
  <2>1. /\ process' \in {process, "stopping"}
        /\ UNCHANGED <<published, ready, unacked, acked, rejected, lost,
                        channelOpen, hand, at, handled>>
    BY <1>4 DEF EndLoop, Shutdown, Interrupt
  <2>2. QED
    BY <2>1 DEF SubscriptionInv, Placed, Messages
<1>5. CASE HandlerStep
  <2>1. PICK ok \in BOOLEAN : HandlerReturns(ok)
    BY <1>5 DEF HandlerStep
  <2>2. /\ at = "handler" /\ at' \in {"ack", "nack"}
        /\ at' = "ack" => handled' = handled \cup {hand}
        /\ handled \subseteq handled'
        /\ UNCHANGED <<published, ready, unacked, acked, rejected, lost, process,
                        channelOpen, hand>>
    BY <1>5, <2>1 DEF HandlerStep, HandlerReturns
  <2>3. QED
    BY <2>2 DEF SubscriptionInv, Placed, Messages
<1>6. CASE TakeGarbled
  BY <1>6, Settlement DEF TakeGarbled
<1>7. CASE GiveBack
  BY <1>7, Settlement DEF GiveBack
<1>8. CASE Ack
  BY <1>8, Settlement DEF Ack
<1>9. CASE Fail
  BY <1>9, Settlement DEF Fail
<1>10. CASE DropBuffered
  <2>1. /\ ~ channelOpen /\ hand' = 0 /\ at' = "none"
        /\ UNCHANGED <<published, ready, unacked, acked, rejected, lost, process,
                        channelOpen, handled>>
    BY <1>10 DEF DropBuffered, EmptyHand
  <2>2. QED
    BY <2>1 DEF SubscriptionInv, Placed, Messages
<1>11. CASE CloseChannel \/ ConnectionLost \/ Exit \/ Crash
  <2>1. /\ Requeue /\ channelOpen' = FALSE
        /\ \/ UNCHANGED <<process, hand, at>>
           \/ hand' = 0 /\ at' = "none"
        /\ UNCHANGED <<published, handled>>
    BY <1>11
    DEF CloseChannel, ConnectionLost, Exit, Crash, Dead, EmptyHand, Interrupt
  <2>2. /\ ready' = Requeued /\ unacked' = 0
        /\ UNCHANGED <<acked, rejected, lost>>
    BY <2>1 DEF Requeue
  <2>3. /\ ready' \in Seq(Messages) /\ IsInjective(ready)'
        /\ Range(ready)' = Range(ready) \cup ({unacked} \ {0})
    BY <2>2, RequeuedQueue
  <2>4. Messages' = Messages
    BY <2>1 DEF Messages
  <2>5. Placed'
    BY <1>0, <2>2, <2>3, <2>4 DEF SubscriptionInv, Placed
  <2>6. QED
    BY <1>0, <2>1, <2>2, <2>3, <2>4, <2>5 DEF SubscriptionInv
<1>12. CASE Restart
  <2>1. /\ hand = 0 /\ process' = "up" /\ channelOpen' = TRUE
        /\ UNCHANGED <<published, ready, unacked, acked, rejected, lost, hand, at,
                        handled>>
    BY <1>12 DEF Restart, SubscriptionInv
  <2>2. unacked = 0
    BY <2>1 DEF SubscriptionInv
  <2>3. QED
    BY <2>1, <2>2 DEF SubscriptionInv, Placed, Messages
<1>13. CASE \E S \in SUBSET Waiting : BrokerRestart(S)
  <2>1. PICK S \in SUBSET Waiting : BrokerRestart(S)
    BY <1>13
  <2>2. /\ channelOpen' = FALSE /\ ready' \in Without(S, Requeued)
        /\ unacked' = 0 /\ lost' = lost \cup S
        /\ UNCHANGED <<published, acked, rejected, process, hand, at, handled>>
    BY <2>1 DEF BrokerRestart, Interrupt
  <2>3. /\ Requeued \in Seq(Messages) /\ IsInjective(Requeued)
        /\ Range(Requeued) = Range(ready) \cup ({unacked} \ {0})
    BY RequeuedQueue
  <2>4. /\ ready' \in Seq(Messages) /\ IsInjective(ready)'
        /\ Range(ready)' = Range(Requeued) \ S
    BY <2>2, <2>3, WithoutQueue
  <2>5. Messages' = Messages /\ S \subseteq Range(Requeued)
    BY <2>2 DEF Messages, Waiting
  <2>6. Placed'
    BY <1>0, <2>2, <2>3, <2>4, <2>5 DEF SubscriptionInv, Placed
  <2>7. QED
    BY <1>0, <2>2, <2>4, <2>5, <2>6 DEF SubscriptionInv
<1>14. CASE UNCHANGED subscriptionVars
  BY <1>14 DEF subscriptionVars, SubscriptionInv, Placed, Messages
<1>15. QED
  BY <1>1, <1>2, <1>3, <1>4, <1>5, <1>6, <1>7, <1>8, <1>9, <1>10, <1>11, <1>12,
     <1>13, <1>14 DEF SubscriptionStep

\* Every step of Ingestion is a step of its queue, or leaves the queue alone.
LEMMA StepsOfTheQueue ==
  ASSUME [Next]_vars
  PROVE  SubscriptionStep \/ UNCHANGED subscriptionVars
<1>1. CASE Github
  BY <1>1 DEF Github, Disconnect, StartRequest, Connect, Uninstall
<1>2. CASE Publisher
  BY <1>2 DEF Publisher, PublishNext, EndRequest, PublishEvent, PublishBody,
              SubscriptionStep
<1>3. CASE Receive
  BY <1>3 DEF Receive, SubscriptionStep
<1>4. CASE Handle
  <2>1. CASE InstallationToken \/ ResolveOrganization \/ Clone \/ UpsertRepository
    BY <2>1 DEF InstallationToken, ResolveOrganization, Clone, UpsertRepository,
                GoOn
  <2>2. CASE IndexRepository \/ HandleFails
    BY <2>2 DEF IndexRepository, HandleFails, Handling, SubscriptionStep,
                HandlerStep
  <2>3. QED
    BY <1>4, <2>1, <2>2 DEF Handle
<1>5. CASE Loops
  BY <1>5 DEF Loops, SubscriptionStep
<1>6. CASE Process
  BY <1>6 DEF Process, SubscriptionStep
<1>7. CASE UNCHANGED vars
  BY <1>7 DEF vars
<1>8. QED
  BY <1>1, <1>2, <1>3, <1>4, <1>5, <1>6, <1>7 DEF Next, Consumer

\* The queue's invariant holds of the composition.
THEOREM QueueInvariant == Spec => []SubscriptionInv
<1>1. IngestionInit => SubscriptionInv
  BY SubscriptionStarts DEF IngestionInit
<1>2. SubscriptionInv /\ [Next]_vars => SubscriptionInv'
  BY StepsOfTheQueue, SubscriptionKept
<1>3. QED
  BY <1>1, <1>2, PTL DEF Spec

\* Every published message is in one place - queue, consumer, acked, rejected
\* or lost - and an ack means that its run returned nil, for any number of
\* messages, shutdowns, crashes and lost connections.
THEOREM NoEventSlipsHolds == Spec => []NoEventSlips
<1>1. SubscriptionInv => NoEventSlips
  <2>1. SUFFICES ASSUME SubscriptionInv PROVE NoEventSlips
    OBVIOUS
  <2> DEFINE place == <<Range(ready), {unacked} \ {0}, acked, rejected, lost>>
  <2>2. DOMAIN place = {1, 2, 3, 4, 5}
    OBVIOUS
  <2>3. /\ place[1] = Range(ready) /\ place[2] = {unacked} \ {0}
        /\ place[3] = acked /\ place[4] = rejected /\ place[5] = lost
    OBVIOUS
  <2> HIDE DEF place
  <2>4. Messages = UNION Range(place)
    <3>1. Range(place) = {place[1], place[2], place[3], place[4], place[5]}
      BY <2>2 DEF Range
    <3>2. UNION {place[1], place[2], place[3], place[4], place[5]}
            = place[1] \cup place[2] \cup place[3] \cup place[4] \cup place[5]
      OBVIOUS
    <3>3. QED
      BY <2>1, <2>3, <3>1, <3>2 DEF SubscriptionInv, Placed
  <2>5. \A v, w \in DOMAIN place : v # w => place[v] \cap place[w] = {}
    BY <2>1, <2>2, <2>3 DEF SubscriptionInv, Placed
  <2>6. IsInjective(ready) /\ acked \subseteq handled
    BY <2>1 DEF SubscriptionInv, Placed
  <2>7. QED
    BY <2>4, <2>5, <2>6 DEF NoEventSlips, place
<1>2. QED
  BY <1>1, QueueInvariant, PTL

-----------------------------------------------------------------------------
(* How often a handler starts.                                             *)

\* A shutdown has been counted whose requeueing is still to come.
Early == IF process = "stopping" /\ channelOpen THEN 1 ELSE 0

\* A message that is still to be handed over has been started at most once per
\* interruption; one that is handed over once more - unless a closed channel
\* has already given it back to the queue.
StartsOf(m) ==
  /\ m > published => runs[m] = 0
  /\ runs[m] <= 1 + interruptions
  /\ m \in Range(ready) => runs[m] + Early <= interruptions
  /\ m = hand /\ at \in {"wire", "offer"} =>
       runs[m] + (IF channelOpen THEN Early ELSE 1) <= interruptions
  /\ m = hand /\ at \in {"handler", "ack", "nack"} =>
       runs[m] + (IF channelOpen THEN Early ELSE 1) <= 1 + interruptions

RunsInv ==
  /\ published <= MaxMessages
  /\ interruptions \in Nat
  /\ Early <= interruptions
  /\ at \in {"none", "wire", "offer", "handler", "ack", "nack"}
  /\ runs \in [1..MaxMessages -> Nat]
  /\ \A m \in 1..MaxMessages : StartsOf(m)

\* Nothing has been started.
LEMMA RunsStart == SubscriptionInit => RunsInv
<1>1. SUFFICES ASSUME SubscriptionInit PROVE RunsInv
  OBVIOUS
<1>2. Range(ready) = {}
  <2>1. ready = <<>> /\ DOMAIN ready = {}
    BY <1>1 DEF SubscriptionInit
  <2>2. QED
    BY <2>1 DEF Range
<1>3. QED
  BY <1>1, <1>2, SubscriptionAssumption
  DEF SubscriptionInit, RunsInv, StartsOf, Early

\* The queue gives back what the process holds, after an interruption.
LEMMA RunsRequeued ==
  ASSUME SubscriptionInv, RunsInv, channelOpen' = FALSE,
         Range(ready)' \subseteq Range(Requeued),
         \/ interruptions' = interruptions + 1
         \/ interruptions' = interruptions /\ (Early = 1 \/ ~ channelOpen),
         UNCHANGED <<published, runs>>,
         UNCHANGED <<hand, at>> \/ (hand' = 0 /\ at' = "none")
  PROVE  RunsInv'
<1>1. Range(Requeued) = Range(ready) \cup ({unacked} \ {0})
  BY RequeuedQueue
<1>2. unacked # 0 => channelOpen /\ unacked = hand /\ at # "none"
  BY DEF SubscriptionInv
<1>3. Early \in {0, 1} /\ Early' = 0
  BY DEF Early
<1>4. interruptions \in Nat /\ interruptions' \in Nat
  BY DEF RunsInv
<1>5. ASSUME NEW m \in 1..MaxMessages
      PROVE  StartsOf(m)'
  <2>1. StartsOf(m) /\ runs[m] \in Nat
    BY DEF RunsInv
  <2>2. /\ m > published' => runs'[m] = 0
        /\ runs'[m] <= 1 + interruptions'
    BY <1>4, <2>1 DEF StartsOf
  <2>3. m \in Range(ready)' => runs'[m] + Early' <= interruptions'
    <3>1. CASE m \in Range(ready)
      BY <1>3, <1>4, <2>1, <3>1 DEF StartsOf
    <3>2. CASE m = unacked /\ m # 0
      BY <1>2, <1>3, <1>4, <2>1, <3>2 DEF StartsOf, RunsInv
    <3>3. QED
      BY <1>1, <3>1, <3>2
  <2>4. m = hand' /\ at' \in {"wire", "offer"} => runs'[m] + 1 <= interruptions'
    BY <1>3, <1>4, <2>1 DEF StartsOf
  <2>5. m = hand' /\ at' \in {"handler", "ack", "nack"} =>
          runs'[m] + 1 <= 1 + interruptions'
    BY <1>3, <1>4, <2>1 DEF StartsOf
  <2>6. QED
    BY <2>2, <2>3, <2>4, <2>5 DEF StartsOf
<1>6. QED
  BY <1>3, <1>4, <1>5 DEF RunsInv

\* The message in hand is settled or dropped.
LEMMA RunsSettled ==
  ASSUME SubscriptionInv, RunsInv, EmptyHand,
         \/ Range(ready)' = Range(ready)
         \/ Range(ready)' = Range(Requeued) /\ at = "offer",
         UNCHANGED <<published, runs, interruptions, process, channelOpen>>
  PROVE  RunsInv'
<1>1. Range(Requeued) = Range(ready) \cup ({unacked} \ {0})
  BY RequeuedQueue
<1>2. unacked # 0 => channelOpen /\ unacked = hand
  BY DEF SubscriptionInv
<1>3. Early' = Early /\ Early \in {0, 1} /\ at' = "none"
  BY DEF Early, EmptyHand
<1>4. ASSUME NEW m \in 1..MaxMessages
      PROVE  StartsOf(m)'
  <2>1. StartsOf(m)
    BY DEF RunsInv
  <2>2. m \in Range(ready)' => runs'[m] + Early' <= interruptions'
    BY <1>1, <1>2, <1>3, <2>1 DEF StartsOf
  <2>3. QED
    BY <1>3, <2>1, <2>2 DEF StartsOf
<1>5. QED
  BY <1>3, <1>4 DEF RunsInv

\* No step of the queue, the loops or the process starts a handler once more
\* than it may.
LEMMA RunsKept ==
  ASSUME SubscriptionInv, RunsInv, SubscriptionStep \/ UNCHANGED subscriptionVars
  PROVE  RunsInv'
<1> USE DEF countVars, brokerVars, processVars
<1>1. CASE Publish
  <2>1. /\ published < MaxMessages /\ published' = published + 1
        /\ ready' = Append(ready, published')
        /\ UNCHANGED <<interruptions, runs, process, channelOpen, hand, at>>
    BY <1>1 DEF Publish
  <2>2. Range(ready') = Range(ready) \cup {published'}
    <3>1. published' \notin Messages /\ Messages \subseteq Messages' /\ published' \in Messages'
      BY <2>1 DEF Messages, SubscriptionInv
    <3>2. published' \notin Range(ready)
      BY <3>1 DEF SubscriptionInv, Placed
    <3>3. ready \in Seq(Messages') /\ IsInjective(ready)
      BY <3>1 DEF SubscriptionInv, Placed
    <3>4. QED
      BY <2>1, <3>1, <3>2, <3>3, AppendQueue
  <2>3. Early' = Early /\ Early \in {0, 1} /\ published \in Nat
    BY <2>1 DEF Early, SubscriptionInv
  <2>4. ASSUME NEW m \in 1..MaxMessages
        PROVE  StartsOf(m)'
    <3>1. StartsOf(m)
      BY DEF RunsInv
    <3>2. m \in Range(ready)' => runs'[m] + Early' <= interruptions'
      BY <2>1, <2>2, <2>3, <3>1 DEF StartsOf, RunsInv
    <3>3. m > published' => m > published
      BY <2>1, <2>3
    <3>4. QED
      BY <2>1, <2>3, <3>1, <3>2, <3>3 DEF StartsOf
  <2>5. QED
    BY <2>1, <2>3, <2>4, SubscriptionAssumption DEF RunsInv
<1>2. CASE Deliver
  <2>1. /\ channelOpen /\ ready # <<>>
        /\ hand' = Head(ready) /\ ready' = Tail(ready) /\ at' = "wire"
        /\ UNCHANGED <<published, interruptions, runs, process, channelOpen>>
    BY <1>2 DEF Deliver
  <2>2. Range(ready) = Range(Tail(ready)) \cup {Head(ready)}
    BY <2>1, TakeHead DEF SubscriptionInv, Placed
  <2>3. Early' = Early
    BY <2>1 DEF Early
  <2>4. QED
    BY <2>1, <2>2, <2>3 DEF RunsInv, StartsOf
<1>3. CASE HandOver
  <2>1. /\ at = "offer" /\ at' = "handler"
        /\ runs' = [runs EXCEPT ![hand] = @ + 1]
        /\ UNCHANGED <<published, interruptions, ready, unacked, process,
                        channelOpen, hand>>
    BY <1>3 DEF HandOver
  <2>2. Early' = Early /\ Early \in {0, 1}
    BY <2>1 DEF Early
  <2>3. hand \in 1..published /\ published \in Nat /\ hand \in 1..MaxMessages
    BY <2>1, SubscriptionAssumption DEF SubscriptionInv, RunsInv, Messages
  <2>4. hand \in Range(ready) => ~ channelOpen
    BY <2>1 DEF SubscriptionInv, Placed
  <2>5. runs' \in [1..MaxMessages -> Nat] /\ interruptions \in Nat
    BY <2>1, <2>3 DEF RunsInv
  <2>6. ASSUME NEW m \in 1..MaxMessages
        PROVE  StartsOf(m)'
    <3>1. StartsOf(m) /\ runs[m] \in Nat
      BY DEF RunsInv
    <3>2. CASE m # hand
      BY <2>1, <2>2, <3>1, <3>2 DEF StartsOf, RunsInv
    <3>3. CASE m = hand
      <4>1. runs'[m] = runs[m] + 1
        BY <2>1, <2>3, <3>3 DEF RunsInv
      <4>2. runs[m] + (IF channelOpen THEN Early ELSE 1) <= interruptions
        BY <2>1, <3>1, <3>3 DEF StartsOf
      <4>3. ~ channelOpen => Early = 0
        BY DEF Early
      <4>4. ~ (m > published)
        BY <2>3, <3>3
      <4>5. QED
        BY <2>1, <2>2, <2>4, <2>5, <3>1, <3>3, <4>1, <4>2, <4>3, <4>4 DEF StartsOf
    <3>4. QED
      BY <3>2, <3>3
  <2>7. QED
    BY <2>1, <2>2, <2>5, <2>6 DEF RunsInv
<1>4. CASE Take \/ EndLoop \/ HandlerStep \/ UNCHANGED subscriptionVars
  <2>1. /\ \/ at' = at
           \/ at = "wire" /\ at' = "offer"
           \/ at = "handler" /\ at' \in {"ack", "nack"}
        /\ UNCHANGED <<published, interruptions, runs, ready, process, channelOpen,
                        hand>>
    BY <1>4 DEF Take, EndLoop, HandlerStep, HandlerReturns, subscriptionVars
  <2>2. Early' = Early
    BY <2>1 DEF Early
  <2>3. ASSUME NEW m \in 1..MaxMessages
        PROVE  StartsOf(m)'
    BY <2>1, <2>2 DEF StartsOf, RunsInv
  <2>4. QED
    BY <2>1, <2>2, <2>3 DEF RunsInv
<1>5. CASE Ack \/ Fail \/ TakeGarbled \/ DropBuffered
  <2>1. EmptyHand /\ UNCHANGED <<published, runs, interruptions, process, channelOpen>>
    BY <1>5 DEF Ack, Fail, TakeGarbled, DropBuffered
  <2>2. ready' = ready
    BY <1>5 DEF Ack, Fail, TakeGarbled, DropBuffered, Settle
  <2>3. QED
    BY <2>1, <2>2, RunsSettled
<1>6. CASE GiveBack
  <2>1. /\ at = "offer" /\ Settle("requeue") /\ EmptyHand
        /\ UNCHANGED <<published, runs, interruptions, process, channelOpen>>
    BY <1>6 DEF GiveBack
  <2>2. channelOpen => unacked = hand /\ hand # 0
    BY <2>1 DEF SubscriptionInv
  <2>3. ready' = ready \/ ready' = Requeued
    BY <2>1, <2>2 DEF Settle, Requeued
  <2>4. QED
    BY <2>1, <2>3, RunsSettled
<1>7. CASE Shutdown
  <2>1. /\ interruptions' = interruptions + 1
        /\ process = "up"
        /\ UNCHANGED <<published, runs, ready, channelOpen, hand, at>>
    BY <1>7 DEF Shutdown, Interrupt
  <2>2. Early = 0 /\ Early' \in {0, 1}
    BY <2>1 DEF Early
  <2>3. ASSUME NEW m \in 1..MaxMessages
        PROVE  StartsOf(m)'
    BY <2>1, <2>2 DEF StartsOf, RunsInv
  <2>4. QED
    BY <2>1, <2>2, <2>3 DEF RunsInv
<1>8. CASE CloseChannel
  <2>1. /\ Early = 1 /\ Requeue /\ channelOpen' = FALSE
        /\ UNCHANGED <<published, runs, interruptions, hand, at>>
    BY <1>8 DEF CloseChannel, Early
  <2>2. Range(ready)' \subseteq Range(Requeued)
    BY <2>1 DEF Requeue, Range
  <2>3. QED
    BY <2>1, <2>2, RunsRequeued
<1>9. CASE ConnectionLost \/ Crash \/ Exit
  <2>1. /\ Requeue /\ channelOpen' = FALSE
        /\ \/ interruptions' = interruptions + 1
           \/ interruptions' = interruptions /\ ~ channelOpen
        /\ UNCHANGED <<published, runs>>
        /\ UNCHANGED <<hand, at>> \/ (hand' = 0 /\ at' = "none")
    BY <1>9 DEF ConnectionLost, Crash, Exit, Dead, EmptyHand, Interrupt
  <2>2. Range(ready)' \subseteq Range(Requeued)
    BY <2>1 DEF Requeue, Range
  <2>3. QED
    BY <2>1, <2>2, RunsRequeued
<1>10. CASE Restart
  <2>1. /\ process' = "up" /\ hand = 0
        /\ UNCHANGED <<published, runs, interruptions, ready, hand, at>>
    BY <1>10 DEF Restart, SubscriptionInv
  <2>2. Early' = 0 /\ Early \in {0, 1} /\ (~ channelOpen => Early = 0)
    BY <2>1 DEF Early
  <2>3. ASSUME NEW m \in 1..MaxMessages
        PROVE  StartsOf(m)'
    BY <2>1, <2>2 DEF StartsOf, RunsInv
  <2>4. QED
    BY <2>1, <2>2, <2>3 DEF RunsInv
<1>11. CASE \E S \in SUBSET Waiting : BrokerRestart(S)
  <2>1. PICK S \in SUBSET Waiting : BrokerRestart(S)
    BY <1>11
  <2>2. /\ channelOpen' = FALSE /\ ready' \in Without(S, Requeued)
        /\ interruptions' = interruptions + 1
        /\ UNCHANGED <<published, runs, hand, at>>
    BY <2>1 DEF BrokerRestart, Interrupt
  <2>3. Requeued \in Seq(Messages) /\ IsInjective(Requeued)
    BY RequeuedQueue
  <2>4. Range(ready') = Range(Requeued) \ S
    BY <2>2, <2>3, WithoutQueue
  <2>5. Range(ready)' \subseteq Range(Requeued)
    BY <2>4 DEF Range
  <2>6. QED
    BY <2>2, <2>5, RunsRequeued
<1>12. QED
  BY <1>1, <1>2, <1>3, <1>4, <1>5, <1>6, <1>7, <1>8, <1>9, <1>10, <1>11
  DEF SubscriptionStep

\* The counts of the starts follow the interruptions.
THEOREM RunsInvariant == Spec => []RunsInv
<1>1. IngestionInit => RunsInv
  BY RunsStart DEF IngestionInit
<1>2. SubscriptionInv /\ RunsInv /\ [Next]_vars => RunsInv'
  BY StepsOfTheQueue, RunsKept
<1>3. QED
  BY <1>1, <1>2, QueueInvariant, PTL DEF Spec

\* A handler starts again only for an interruption, for any number of
\* messages, shutdowns, crashes and lost connections: the loops never hand a
\* failing message back to themselves.
THEOREM RunsBoundedHolds == Spec => []RunsBounded
<1>1. SubscriptionInv /\ RunsInv => RunsBounded
  BY SubscriptionAssumption
  DEF RunsInv, StartsOf, RunsBounded, Messages, SubscriptionInv
<1>2. QED
  BY <1>1, QueueInvariant, RunsInvariant, PTL

-----------------------------------------------------------------------------
(* Whose repository it is.                                                 *)

\* A message names an organization only with an installation it had connected,
\* unless it is a tokenless job, and a repository only with the installation
\* that can access it.
Sound(b) ==
  \/ b = Unreadable
  \/ b = Malformed
  \/ \E r \in Repos : b = Webhook(r)
  \/ \E o \in Orgs, r \in Repos :
       /\ b = FullIndex(o, InstallationOf[r], r)
       /\ <<o, InstallationOf[r]>> \in connectedOnce
  \/ \E o \in Orgs, r \in Repos : <<o, r>> \in Jobs /\ b = Tokenless(o, r)

\* The organization o had connected the installation of the event's repository,
\* or the event is a tokenless job of its own.
EntitledBy(b, o) ==
  \E r \in Repos :
    /\ b.repo = r
    /\ \/ /\ b.installation = InstallationOf[r]
          /\ <<o, b.installation>> \in connectedOnce
       \/ b = Tokenless(o, r)

\* What holds of the message being handled: the tenant is entitled to it, and
\* without a token only a public repository is cloned.
HandlerInv ==
  /\ at \in {"offer", "handler"} => Event # Unreadable
  /\ at = "handler" /\ tenant # NoOrg =>
       tenant \in Orgs /\ EntitledBy(Event, tenant)
  /\ at = "handler" /\ step \in {"upsert", "index"} =>
       (Event.installation = None => Event.repo \in Public)

\* The same of connections, messages, the request being served and the rows.
TenancyInv ==
  /\ installation \in [Orgs -> Installations \cup {None}]
  /\ installed \subseteq Installations
  /\ \A o \in Orgs :
       installation[o] # None => <<o, installation[o]>> \in connectedOnce
  /\ request.todo \subseteq Repos
  /\ \A r \in request.todo :
       /\ request.org \in Orgs
       /\ request.installation = InstallationOf[r]
       /\ <<request.org, request.installation>> \in connectedOnce
  /\ body \in Seq(Bodies) /\ Len(body) = published
  /\ \A m \in Messages : Sound(body[m])
  /\ HandlerInv
  /\ owner \in [Repos -> Orgs \cup {NoOrg}]
  /\ OwnerWasConnected

\* What the fields of a sound message are.
LEMMA SoundFields ==
  ASSUME NEW b, Sound(b), b # Unreadable
  PROVE  /\ b.org \in Orgs \cup {NoOrg}
         /\ b.installation # None =>
              \E r \in Repos : b.repo = r /\ b.installation = InstallationOf[r]
         /\ b.org # NoOrg => EntitledBy(b, b.org)
<1>1. \A r \in Repos : InstallationOf[r] # None
  BY IngestionAssumption
<1>2. CASE b = Malformed
  <2>1. b.org = NoOrg /\ b.installation = None
    BY <1>2 DEF Malformed
  <2>2. QED
    BY <2>1
<1>3. CASE \E r \in Repos : b = Webhook(r)
  <2>1. PICK r \in Repos : b = Webhook(r)
    BY <1>3
  <2>2. b.org = NoOrg /\ b.installation = InstallationOf[r] /\ b.repo = r
    BY <2>1 DEF Webhook
  <2>3. QED
    BY <2>2
<1>4. CASE \E o \in Orgs, r \in Repos :
             /\ b = FullIndex(o, InstallationOf[r], r)
             /\ <<o, InstallationOf[r]>> \in connectedOnce
  <2>1. PICK o \in Orgs, r \in Repos :
          /\ b = FullIndex(o, InstallationOf[r], r)
          /\ <<o, InstallationOf[r]>> \in connectedOnce
    BY <1>4
  <2>2. b.org = o /\ b.installation = InstallationOf[r] /\ b.repo = r
    BY <2>1 DEF FullIndex
  <2>3. QED
    BY <2>1, <2>2 DEF EntitledBy
<1>5. CASE \E o \in Orgs, r \in Repos : <<o, r>> \in Jobs /\ b = Tokenless(o, r)
  <2>1. PICK o \in Orgs, r \in Repos : b = Tokenless(o, r)
    BY <1>5
  <2>2. b.org = o /\ b.installation = None /\ b.repo = r
    BY <2>1 DEF Tokenless
  <2>3. QED
    BY <2>1, <2>2 DEF EntitledBy
<1>6. QED
  BY <1>2, <1>3, <1>4, <1>5 DEF Sound

\* The first state: an organization that is connected was once.
LEMMA TenancyStarts == IngestionInit => TenancyInv
<1>1. SUFFICES ASSUME IngestionInit PROVE TenancyInv
  OBVIOUS
<1>2. /\ installation \in Tables /\ installed = Installations
      /\ connectedOnce = {c \in Orgs \X Installations : installation[c[1]] = c[2]}
      /\ owner = [r \in Repos |-> NoOrg]
      /\ body = <<>> /\ request = NoRequest /\ published = 0 /\ at = "none"
  BY <1>1 DEF IngestionInit, SubscriptionInit
<1>3. installation \in [Orgs -> Installations \cup {None}]
  BY <1>2 DEF Tables
<1>4. \A o \in Orgs :
        installation[o] # None => <<o, installation[o]>> \in connectedOnce
  BY <1>2, <1>3
<1>5. request.todo = {}
  BY <1>2 DEF NoRequest
<1>6. Messages = {} /\ body \in Seq(Bodies) /\ Len(body) = published
  BY <1>2 DEF Messages
<1>7. OwnerWasConnected /\ owner \in [Repos -> Orgs \cup {NoOrg}]
  BY <1>2 DEF OwnerWasConnected
<1>8. HandlerInv
  BY <1>2 DEF HandlerInv
<1>9. QED
  BY <1>2, <1>3, <1>4, <1>5, <1>6, <1>7, <1>8 DEF TenancyInv

\* What has been connected stays so in the history.
LEMMA SoundStays ==
  ASSUME NEW b, Sound(b), connectedOnce \subseteq connectedOnce'
  PROVE  Sound(b)'
BY DEF Sound

\* So does what entitles an organization, and what is known of the message in
\* hand while the handler rests.
LEMMA HandlerStays ==
  ASSUME HandlerInv, connectedOnce \subseteq connectedOnce',
         at # "none" => Event' = Event,
         UNCHANGED <<at, step, tenant>>
  PROVE  HandlerInv'
<1>1. ASSUME at = "handler", EntitledBy(Event, tenant)
      PROVE  EntitledBy(Event, tenant)'
  BY <1>1 DEF EntitledBy
<1>2. QED
  BY <1>1 DEF HandlerInv

\* And a row that no step touches belongs to whom it did.
LEMMA OwnerStays ==
  ASSUME OwnerWasConnected, connectedOnce \subseteq connectedOnce',
         owner' = owner,
         \A m \in Messages : m \in Messages' /\ body'[m] = body[m]
  PROVE  OwnerWasConnected'
<1>1. ASSUME NEW r \in Repos, owner[r] # NoOrg,
             \E m \in Messages : body[m] = Tokenless(owner[r], r)
      PROVE  \E m \in Messages' : body'[m] = Tokenless(owner'[r], r)
  BY <1>1
<1>2. QED
  BY <1>1 DEF OwnerWasConnected

\* A change on the side of GitHub.
LEMMA TenancyGithub ==
  ASSUME SubscriptionInv, TenancyInv, Github
  PROVE  TenancyInv'
<1>1. CASE \E o \in Orgs, i \in Installations : Connect(o, i)
  <2>1. PICK o \in Orgs, i \in Installations : Connect(o, i)
    BY <1>1
  <2>2. /\ installation' = [installation EXCEPT ![o] = i]
        /\ connectedOnce' = connectedOnce \cup {<<o, i>>}
        /\ UNCHANGED <<published, at, hand, installed, owner, body, request, step,
                        tenant>>
    BY <2>1 DEF Connect, UpsertInstallation, subscriptionVars, countVars, handlerVars
  <2>3. \A m \in Messages : Sound(body[m])'
    BY <2>2, SoundStays DEF TenancyInv
  <2>4. HandlerInv' /\ OwnerWasConnected'
    BY <2>2, HandlerStays, OwnerStays DEF TenancyInv, Messages, Event
  <2>5. QED
    BY <2>2, <2>3, <2>4 DEF TenancyInv, Messages
<1>2. CASE \E o \in Orgs : Disconnect(o)
  <2>1. PICK o \in Orgs : Disconnect(o)
    BY <1>2
  <2>2. /\ installation' = [installation EXCEPT ![o] = None]
        /\ UNCHANGED <<published, at, hand, connectedOnce, installed, owner, body,
                        request, step, tenant>>
    BY <2>1 DEF Disconnect, DeleteByOrganization, subscriptionVars, countVars, handlerVars
  <2>3. \A m \in Messages : Sound(body[m])'
    BY <2>2, SoundStays DEF TenancyInv
  <2>4. HandlerInv' /\ OwnerWasConnected'
    BY <2>2, HandlerStays, OwnerStays DEF TenancyInv, Messages, Event
  <2>5. QED
    BY <2>2, <2>3, <2>4 DEF TenancyInv, Messages
<1>3. CASE \E i \in Installations : Uninstall(i)
  <2>1. PICK i \in Installations : Uninstall(i)
    BY <1>3
  <2>2. /\ installed' \subseteq installed
        /\ UNCHANGED <<published, at, hand, connectedOnce, installation, owner,
                        body, request, step, tenant>>
    BY <2>1 DEF Uninstall, subscriptionVars, countVars, handlerVars
  <2>3. \A m \in Messages : Sound(body[m])'
    BY <2>2, SoundStays DEF TenancyInv
  <2>4. HandlerInv' /\ OwnerWasConnected'
    BY <2>2, HandlerStays, OwnerStays DEF TenancyInv, Messages, Event
  <2>5. QED
    BY <2>2, <2>3, <2>4 DEF TenancyInv, Messages
<1>4. CASE \E o \in Orgs : StartRequest(o)
  <2>1. PICK o \in Orgs : StartRequest(o)
    BY <1>4
  <2>2. /\ installation[o] \in installed
        /\ request' = [org |-> o, installation |-> installation[o],
                       todo |-> {r \in Repos : InstallationOf[r] = installation[o]}]
        /\ UNCHANGED <<published, at, hand, connectedOnce, installation, installed,
                        owner, body, step, tenant>>
    BY <2>1 DEF StartRequest, ListRepositories, subscriptionVars, countVars, handlerVars, githubVars
  <2>3. \A m \in Messages : Sound(body[m])'
    BY <2>2, SoundStays DEF TenancyInv
  <2>4. <<o, installation[o]>> \in connectedOnce
    BY <2>2, IngestionAssumption DEF TenancyInv
  <2>5. HandlerInv' /\ OwnerWasConnected'
    BY <2>2, HandlerStays, OwnerStays DEF TenancyInv, Messages, Event
  <2>6. QED
    BY <2>2, <2>3, <2>4, <2>5 DEF TenancyInv, Messages
<1>5. QED
  BY <1>1, <1>2, <1>3, <1>4 DEF Github

\* What is published names an organization as it should.
LEMMA SoundPublished ==
  ASSUME TenancyInv, PublishEvent \/ PublishNext
  PROVE  \E b \in Bodies : Sound(b) /\ PublishBody(b)
<1>1. CASE \E b \in {Unreadable, Malformed} : PublishBody(b)
  BY <1>1 DEF Bodies, Sound
<1>2. CASE \E r \in Repos : PublishBody(Webhook(r))
  BY <1>2 DEF Bodies, Sound
<1>3. CASE \E job \in Jobs : PublishBody(Tokenless(job[1], job[2]))
  <2>1. PICK job \in Jobs : PublishBody(Tokenless(job[1], job[2]))
    BY <1>3
  <2>2. job[1] \in Orgs /\ job[2] \in Repos /\ <<job[1], job[2]>> = job
    BY IngestionAssumption
  <2>3. QED
    BY <2>1, <2>2 DEF Bodies, Sound
<1>4. CASE PublishNext
  <2>1. PICK r \in request.todo :
          PublishBody(FullIndex(request.org, request.installation, r))
    BY <1>4 DEF PublishNext
  <2>2. /\ r \in Repos /\ request.org \in Orgs
        /\ request.installation = InstallationOf[r]
        /\ <<request.org, request.installation>> \in connectedOnce
    BY <2>1 DEF TenancyInv
  <2>3. QED
    BY <2>1, <2>2 DEF Bodies, Sound
<1>5. QED
  BY <1>1, <1>2, <1>3, <1>4 DEF PublishEvent

\* A message is published, or a request answered.
LEMMA TenancyPublisher ==
  ASSUME SubscriptionInv, TenancyInv, Publisher
  PROVE  TenancyInv'
<1> DEFINE Kept == UNCHANGED <<at, hand, connectedOnce, installation, installed,
                               owner, step, tenant>>
<1>1. ASSUME NEW b \in Bodies, Sound(b), PublishBody(b),
             \/ request' = NoRequest
             \/ /\ request'.todo \subseteq request.todo
                /\ UNCHANGED <<request.org, request.installation>>
      PROVE  TenancyInv'
  <2>1. /\ published' = published + 1 /\ body' = Append(body, b)
        /\ Kept
    BY <1>1 DEF PublishBody, Publish, githubVars, handlerVars
  <2>2. Len(body) = published /\ body \in Seq(Bodies) /\ published \in Nat
    BY DEF TenancyInv, SubscriptionInv
  <2>3. /\ body' \in Seq(Bodies) /\ Len(body') = published'
        /\ body'[published'] = b
        /\ \A m \in 1..published : body'[m] = body[m]
    BY <1>1, <2>1, <2>2
  <2>4. Messages' = Messages \cup {published'}
    BY <2>1, <2>2 DEF Messages
  <2>5. (\A m \in Messages : Sound(body[m]))'
    <3>1. \A m \in Messages' : Sound(body'[m])
      BY <1>1, <2>3, <2>4 DEF TenancyInv, Messages
    <3>2. connectedOnce' = connectedOnce
      BY <2>1
    <3>3. QED
      BY <3>1, <3>2 DEF Sound
  <2>6. at # "none" => Event' = Event
    BY <2>1, <2>3 DEF SubscriptionInv, Event, Messages
  <2>7. \A m \in Messages : m \in Messages' /\ body'[m] = body[m]
    BY <2>3, <2>4 DEF Messages
  <2>8. HandlerInv' /\ OwnerWasConnected'
    BY <2>1, <2>6, <2>7, HandlerStays, OwnerStays DEF TenancyInv
  <2>9. \A r \in request'.todo : r \in request.todo /\ request' # NoRequest
    BY <1>1 DEF NoRequest
  <2>10. QED
    BY <1>1, <2>1, <2>3, <2>5, <2>8, <2>9 DEF TenancyInv
<1>2. CASE PublishEvent \/ PublishNext
  <2>1. PICK b \in Bodies : Sound(b) /\ PublishBody(b)
    BY <1>2, SoundPublished
  <2>2. \/ request' = NoRequest
        \/ /\ request'.todo \subseteq request.todo
           /\ UNCHANGED <<request.org, request.installation>>
    <3>1. CASE PublishEvent
      BY <3>1 DEF PublishEvent
    <3>2. CASE PublishNext
      BY <3>2 DEF PublishNext
    <3>3. QED
      BY <1>2, <3>1, <3>2
  <2>3. QED
    BY <1>1, <2>1, <2>2
<1>3. CASE EndRequest
  <2>1. request' = NoRequest /\ UNCHANGED <<published, body>> /\ Kept
    BY <1>3 DEF EndRequest, subscriptionVars, countVars, githubVars, handlerVars
  <2>2. \A m \in Messages : Sound(body[m])'
    BY <2>1, SoundStays DEF TenancyInv
  <2>3. QED
    <3>1. HandlerInv' /\ OwnerWasConnected'
      BY <2>1, HandlerStays, OwnerStays DEF TenancyInv, Messages, Event
    <3>2. QED
      BY <2>1, <2>2, <3>1 DEF TenancyInv, Messages, NoRequest
<1>4. QED
  BY <1>2, <1>3 DEF Publisher

\* The message goes from the wire into the hands of the handler.
LEMMA TenancyReceive ==
  ASSUME SubscriptionInv, TenancyInv, Receive
  PROVE  TenancyInv'
<1>1. UNCHANGED <<published, connectedOnce, installation, installed, owner, body,
                  request>>
  BY DEF Receive, githubVars, TakeGarbled, Take, HandOver, countVars
<1>2. \A m \in Messages : Sound(body[m])'
  BY <1>1, SoundStays DEF TenancyInv
<1>3. OwnerWasConnected'
  BY <1>1, OwnerStays DEF TenancyInv, Messages
<1>4. CASE TakeGarbled
  <2>1. at' = "none"
    BY <1>4 DEF TakeGarbled, EmptyHand
  <2>2. QED
    BY <1>1, <1>2, <1>3, <2>1 DEF TenancyInv, HandlerInv, Messages
<1>5. CASE Take /\ Event # Unreadable
  <2>1. at' = "offer" /\ hand' = hand
    BY <1>5 DEF Take
  <2>2. HandlerInv'
    BY <1>1, <1>5, <2>1 DEF HandlerInv, Event
  <2>3. QED
    BY <1>1, <1>2, <1>3, <2>2 DEF TenancyInv, Messages
<1>6. CASE HandOver /\ step' = "token" /\ tenant' = Event.org
  <2>1. at = "offer" /\ hand' = hand
    BY <1>6 DEF HandOver
  <2>2. Sound(Event) /\ Event # Unreadable
    BY <2>1 DEF TenancyInv, HandlerInv, SubscriptionInv, Event
  <2>3. tenant' # NoOrg => tenant' \in Orgs /\ EntitledBy(Event, tenant')
    BY <1>6, <2>2, SoundFields
  <2>4. Event' = Event
    BY <1>1, <2>1 DEF Event
  <2>5. HandlerInv'
    BY <1>1, <1>6, <2>2, <2>3, <2>4 DEF HandlerInv, EntitledBy
  <2>6. QED
    BY <1>1, <1>2, <1>3, <2>5 DEF TenancyInv, Messages
<1>7. QED
  BY <1>4, <1>5, <1>6 DEF Receive

\* The handler resolves the organization and records it.
LEMMA TenancyHandle ==
  ASSUME SubscriptionInv, TenancyInv, Handle
  PROVE  TenancyInv'
<1>1. UNCHANGED <<published, connectedOnce, installation, installed, body,
                  request, hand>>
  BY DEF Handle, githubVars, InstallationToken, ResolveOrganization, Clone,
         UpsertRepository, IndexRepository, HandleFails, GoOn, HandlerReturns,
         subscriptionVars, countVars
<1>2. /\ \A m \in Messages : Sound(body[m])'
      /\ Event' = Event /\ Messages' = Messages
  BY <1>1, SoundStays DEF TenancyInv, Event, Messages
<1>3. ASSUME owner' = owner PROVE OwnerWasConnected'
  BY <1>1, <1>3, OwnerStays DEF TenancyInv, Messages
<1>4. CASE InstallationToken
  <2>1. at = "handler" /\ step' = "resolve" /\ UNCHANGED <<at, tenant, owner>>
    BY <1>4 DEF InstallationToken, Handling, GoOn, subscriptionVars
  <2>2. HandlerInv'
    BY <1>1, <1>2, <2>1 DEF TenancyInv, HandlerInv, EntitledBy
  <2>3. QED
    BY <1>1, <1>2, <1>3, <2>1, <2>2 DEF TenancyInv
<1>5. CASE ResolveOrganization
  <2>1. at = "handler" /\ step' = "clone" /\ UNCHANGED <<at, owner>>
    BY <1>5 DEF ResolveOrganization, Handling, GoOn, subscriptionVars
  <2>2. tenant' # NoOrg => tenant' \in Orgs /\ EntitledBy(Event, tenant')
    <3>1. CASE tenant' = tenant
      BY <2>1, <3>1 DEF TenancyInv, HandlerInv
    <3>2. CASE tenant' \in OrgsOf(Event.installation)
      <4>1. /\ tenant' \in Orgs /\ Event.installation # None
            /\ installation[tenant'] = Event.installation
        BY <3>2 DEF OrgsOf
      <4>2. <<tenant', Event.installation>> \in connectedOnce
        BY <4>1 DEF TenancyInv
      <4>3. Sound(Event) /\ Event # Unreadable
        BY <2>1 DEF TenancyInv, HandlerInv, SubscriptionInv, Event
      <4>4. \E r \in Repos : Event.repo = r /\ Event.installation = InstallationOf[r]
        BY <4>1, <4>3, SoundFields
      <4>5. QED
        BY <4>1, <4>2, <4>4 DEF EntitledBy
    <3>3. QED
      BY <1>5, <3>1, <3>2 DEF ResolveOrganization
  <2>3. HandlerInv'
    BY <1>1, <1>2, <2>1, <2>2 DEF TenancyInv, HandlerInv, EntitledBy
  <2>4. QED
    BY <1>1, <1>2, <1>3, <2>1, <2>3 DEF TenancyInv
<1>6. CASE Clone
  <2>1. /\ at = "handler" /\ step' = "upsert" /\ UNCHANGED <<at, tenant, owner>>
        /\ Event.installation = None => Event.repo \in Public
    BY <1>6 DEF Clone, CanClone, Handling, GoOn, subscriptionVars
  <2>2. HandlerInv'
    BY <1>1, <1>2, <2>1 DEF TenancyInv, HandlerInv, EntitledBy
  <2>3. QED
    BY <1>1, <1>2, <1>3, <2>1, <2>2 DEF TenancyInv
<1>7. CASE UpsertRepository
  <2>1. /\ at = "handler" /\ step = "upsert" /\ step' = "index"
        /\ UNCHANGED <<at, tenant>>
    BY <1>7 DEF UpsertRepository, Handling, GoOn, subscriptionVars
  <2>2. owner' \in {owner, [owner EXCEPT ![Event.repo] = tenant]}
    BY <1>7 DEF UpsertRepository
  <2>3. owner' \in [Repos -> Orgs \cup {NoOrg}]
    BY <2>1, <2>2 DEF TenancyInv, HandlerInv
  <2>4. OwnerWasConnected'
    <3>1. CASE owner' = owner
      BY <1>3, <3>1
    <3>2. CASE owner' = [owner EXCEPT ![Event.repo] = tenant]
      <4>1. SUFFICES ASSUME NEW r \in Repos, owner'[r] # NoOrg
                     PROVE  \/ <<owner'[r], InstallationOf[r]>> \in connectedOnce
                            \/ /\ r \in Public
                               /\ \E m \in Messages : body[m] = Tokenless(owner'[r], r)
        BY <1>1, <1>2 DEF OwnerWasConnected
      <4>2. CASE owner'[r] = owner[r]
        BY <4>1, <4>2 DEF TenancyInv, OwnerWasConnected
      <4>3. CASE owner'[r] # owner[r]
        <5>1. r = Event.repo /\ owner'[r] = tenant
          BY <3>2, <4>1, <4>3 DEF TenancyInv
        <5>2. EntitledBy(Event, tenant) /\ hand \in Messages
          BY <2>1, <4>1, <5>1 DEF TenancyInv, HandlerInv, SubscriptionInv
        <5>3. CASE Event = Tokenless(tenant, r)
          <6>1. Event.installation = None
            BY <5>3 DEF Tokenless
          <6>2. r \in Public
            BY <2>1, <5>1, <6>1 DEF TenancyInv, HandlerInv
          <6>3. QED
            BY <5>1, <5>2, <5>3, <6>2 DEF Event
        <5>4. CASE /\ Event.installation = InstallationOf[r]
                   /\ <<tenant, Event.installation>> \in connectedOnce
          BY <5>1, <5>4
        <5>5. QED
          BY <5>1, <5>2, <5>3, <5>4 DEF EntitledBy
      <4>4. QED
        BY <4>2, <4>3
    <3>3. QED
      BY <2>2, <3>1, <3>2
  <2>5. HandlerInv'
    BY <1>1, <1>2, <2>1 DEF TenancyInv, HandlerInv, EntitledBy
  <2>6. QED
    BY <1>1, <1>2, <2>3, <2>4, <2>5 DEF TenancyInv
<1>8. CASE IndexRepository \/ HandleFails
  <2>1. at' \in {"ack", "nack"} /\ owner' = owner
    BY <1>8 DEF IndexRepository, HandleFails, HandlerReturns
  <2>2. QED
    BY <1>1, <1>2, <1>3, <2>1 DEF TenancyInv, HandlerInv
<1>9. QED
  BY <1>4, <1>5, <1>6, <1>7, <1>8 DEF Handle

\* The rest of the loops and of the process.
LEMMA TenancyProcess ==
  ASSUME SubscriptionInv, TenancyInv, Loops \/ Process
  PROVE  TenancyInv'
<1>1. /\ UNCHANGED <<published, connectedOnce, installation, installed, owner,
                     body>>
      /\ request' = request \/ request' = NoRequest
  BY DEF Loops, Process, githubVars, Deliver, GiveBack, DropBuffered, EndLoop, Ack,
         Fail, Shutdown, CloseChannel, Exit, Crash, Restart, ConnectionLost,
         BrokerRestart, Interrupt, countVars
<1>2. at' \in {"none", "wire"} \/ UNCHANGED <<at, hand, step, tenant>>
  <2>1. CASE Loops
    BY <2>1 DEF Loops, Deliver, GiveBack, DropBuffered, EndLoop, Ack, Fail,
                EmptyHand, handlerVars
  <2>2. CASE Process /\ Running'
    BY <2>2 DEF Process, Running, Shutdown, CloseChannel, Exit, Crash, Dead,
                Restart, ConnectionLost, BrokerRestart
  <2>3. CASE Process /\ ~ Running'
    <3>1. process' = "down"
      BY <2>3 DEF Running
    <3>2. \/ at' = "none"
          \/ process = "down" /\ UNCHANGED <<at, hand>>
      BY <2>3, <3>1 DEF Process, Shutdown, CloseChannel, Exit, Crash, Dead,
                        EmptyHand, Restart, ConnectionLost, BrokerRestart
    <3>3. QED
      BY <3>2 DEF SubscriptionInv
  <2>4. QED
    BY <2>1, <2>2, <2>3
<1>3. \A m \in Messages : Sound(body[m])'
  BY <1>1, SoundStays DEF TenancyInv
<1>4. /\ request'.todo \subseteq Repos
      /\ \A r \in request'.todo :
           /\ request'.org \in Orgs
           /\ request'.installation = InstallationOf[r]
           /\ <<request'.org, request'.installation>> \in connectedOnce
  BY <1>1 DEF TenancyInv, NoRequest
<1>5. OwnerWasConnected'
  BY <1>1, OwnerStays DEF TenancyInv, Messages
<1>6. CASE at' \in {"none", "wire"}
  BY <1>1, <1>3, <1>4, <1>5, <1>6 DEF TenancyInv, HandlerInv, Messages
<1>7. CASE UNCHANGED <<at, hand, step, tenant>>
  <2>1. HandlerInv'
    BY <1>1, <1>7, HandlerStays DEF TenancyInv, Event
  <2>2. QED
    BY <1>1, <1>3, <1>4, <1>5, <2>1 DEF TenancyInv, Messages
<1>8. QED
  BY <1>2, <1>6, <1>7

\* Connections, requests, messages and rows name organizations together with
\* what these had connected.
THEOREM TenancyInvariant == Spec => []TenancyInv
<1>1. IngestionInit => TenancyInv
  BY TenancyStarts
<1>2. SubscriptionInv /\ TenancyInv /\ [Next]_vars => TenancyInv'
  <2>1. SUFFICES ASSUME SubscriptionInv, TenancyInv, [Next]_vars PROVE TenancyInv'
    OBVIOUS
  <2>2. CASE UNCHANGED vars
    <3>1. \A m \in Messages : Sound(body[m])'
      BY <2>1, <2>2, SoundStays DEF TenancyInv, vars, githubVars
    <3>2. HandlerInv' /\ OwnerWasConnected'
      BY <2>1, <2>2, HandlerStays, OwnerStays
      DEF TenancyInv, Messages, Event, vars, githubVars, handlerVars,
          subscriptionVars, countVars
    <3>3. QED
      BY <2>1, <2>2, <3>1, <3>2
      DEF TenancyInv, Messages, vars, githubVars, subscriptionVars, countVars
  <2>3. QED
    BY <2>1, <2>2, TenancyGithub, TenancyPublisher, TenancyReceive,
       TenancyHandle, TenancyProcess DEF Next, Consumer
<1>3. QED
  BY <1>1, <1>2, QueueInvariant, PTL DEF Spec

\* No repository is ever indexed for an organization that had not connected an
\* installation which can access it, but a public one for which a tokenless job
\* named the organization; for any number of organizations, installations,
\* repositories and messages.
THEOREM OwnerWasConnectedHolds == Spec => []OwnerWasConnected
<1>1. TenancyInv => OwnerWasConnected
  BY DEF TenancyInv
<1>2. QED
  BY <1>1, TenancyInvariant, PTL
-----------------------------------------------------------------------------
(* The history.                                                            *)

\* What was ever published keeps its number and its body.
LEMMA HistoryKept ==
  ASSUME SubscriptionInv, TenancyInv, [Next]_vars
  PROVE  /\ Messages \subseteq Messages'
         /\ \A m \in Messages : body'[m] = body[m]
<1>1. CASE PublishEvent \/ PublishNext
  <2>1. PICK b \in Bodies : PublishBody(b)
    BY <1>1, SoundPublished
  <2>2. /\ body \in Seq(Bodies) /\ Len(body) = published /\ published \in Nat
        /\ body' = Append(body, b) /\ published' = published + 1
    BY <2>1 DEF PublishBody, Publish, TenancyInv, SubscriptionInv
  <2>3. \A m \in 1..published : body'[m] = body[m]
    BY <2>2
  <2>4. QED
    BY <2>2, <2>3 DEF Messages
<1>2. CASE EndRequest
  BY <1>2 DEF EndRequest, subscriptionVars, countVars, Messages
<1>3. CASE Github
  BY <1>3 DEF Github, Connect, Disconnect, Uninstall, StartRequest,
              subscriptionVars, countVars, Messages
<1>4. CASE Receive \/ Handle
  BY <1>4 DEF Receive, Handle, TakeGarbled, Take, HandOver, countVars,
              InstallationToken, ResolveOrganization, Clone, UpsertRepository,
              IndexRepository, HandleFails, GoOn, HandlerReturns,
              subscriptionVars, Messages
<1>5. CASE Loops \/ Process
  BY <1>5 DEF Loops, Process, countVars, Deliver, GiveBack, DropBuffered,
              EndLoop, Ack, Fail, Shutdown, CloseChannel, Exit, Crash, Restart,
              ConnectionLost, BrokerRestart, Interrupt, Messages
<1>6. CASE UNCHANGED vars
  BY <1>6 DEF vars, subscriptionVars, countVars, Messages
<1>7. QED
  BY <1>1, <1>2, <1>3, <1>4, <1>5, <1>6 DEF Next, Consumer, Publisher

\* What makes an event hopeless notes it.
LEMMA ExcuseSteps ==
  ASSUME [Next]_vars
  PROVE  \/ Excuse
         \/ UNCHANGED <<excused, published, body, installation, installed>>
<1>1. CASE Github
  BY <1>1 DEF Github, Connect, Disconnect, Uninstall, StartRequest,
              subscriptionVars, countVars, githubVars
<1>2. CASE Publisher
  BY <1>2 DEF Publisher, PublishNext, PublishEvent, PublishBody, EndRequest,
              subscriptionVars, countVars, githubVars
<1>3. CASE Receive \/ Handle
  BY <1>3 DEF Receive, Handle, TakeGarbled, Take, HandOver, countVars,
              InstallationToken, ResolveOrganization, Clone, UpsertRepository,
              IndexRepository, HandleFails, GoOn, HandlerReturns,
              subscriptionVars, githubVars
<1>4. CASE Loops \/ Process
  BY <1>4 DEF Loops, Process, countVars, githubVars, Deliver, GiveBack,
              DropBuffered, EndLoop, Ack, Fail, Shutdown, CloseChannel, Exit,
              Crash, Restart, ConnectionLost, BrokerRestart, Interrupt
<1>5. CASE UNCHANGED vars
  BY <1>5 DEF vars, subscriptionVars, countVars, githubVars
<1>6. QED
  BY <1>1, <1>2, <1>3, <1>4, <1>5 DEF Next, Consumer

\* It keeps to the messages, and what it notes stays.
LEMMA ExcusedKept ==
  ASSUME SubscriptionInv, TenancyInv, [Next]_vars, excused \subseteq Messages
  PROVE  (excused \subseteq Messages)' /\ excused \subseteq excused'
<1>1. HopelessMessages' \subseteq Messages'
  BY DEF HopelessMessages
<1>2. QED
  BY <1>1, HistoryKept, ExcuseSteps DEF Excuse

-----------------------------------------------------------------------------
(* Types.                                                                  *)

\* What the invariants of the queue leave open.
QueueTypes ==
  /\ handled \subseteq Messages
  /\ process \in {"up", "stopping", "down"}
  /\ {ctxDone, connected, loopRuns} \subseteq BOOLEAN
  /\ interruptions \in 0..MaxInterruptions
  /\ shutdowns \in 0..interruptions
  /\ ctxDone => shutdowns # 0

\* What the handlers of the dashboard and of the events write.
HandlerTypes ==
  /\ installation \in Tables
  /\ changes \in 0..MaxChanges
  /\ request \in [org : Orgs \cup {NoOrg},
                  installation : Installations \cup {None},
                  todo : SUBSET Repos]
  /\ step \in {"token", "resolve", "clone", "upsert", "index"}
  /\ tenant \in Orgs \cup {NoOrg}
  /\ faults \in 0..MaxFaults
  /\ connectedOnce \subseteq Orgs \X Installations

\* At the start.
LEMMA TypesStart == IngestionInit => QueueTypes /\ HandlerTypes
<1> SUFFICES ASSUME IngestionInit PROVE QueueTypes /\ HandlerTypes
  OBVIOUS
<1>1. QueueTypes
  <2>1. /\ handled = {} /\ process = "up" /\ ctxDone = FALSE
        /\ connected = TRUE /\ loopRuns = TRUE
        /\ interruptions = 0 /\ shutdowns = 0
    BY DEF IngestionInit, SubscriptionInit
  <2>2. {ctxDone, connected, loopRuns} \subseteq BOOLEAN /\ ~ ctxDone
    BY <2>1
  <2>3. interruptions \in 0..MaxInterruptions /\ shutdowns \in 0..interruptions
    BY <2>1, SubscriptionAssumption
  <2>4. QED
    BY <2>1, <2>2, <2>3 DEF QueueTypes
<1>2. HandlerTypes
  BY IngestionAssumption
  DEF IngestionInit, HandlerTypes, NoRequest
<1>3. QED
  BY <1>1, <1>2

\* The loops and the process.
LEMMA QueueTypesKept ==
  ASSUME SubscriptionInv, QueueTypes,
         SubscriptionStep \/ UNCHANGED subscriptionVars
  PROVE  QueueTypes'
<1> USE DEF countVars, brokerVars, processVars
<1>1. CASE Publish
  <2>1. /\ published' = published + 1 /\ published \in Nat
        /\ UNCHANGED <<handled, process, ctxDone, connected, loopRuns,
                       interruptions, shutdowns>>
    BY <1>1 DEF Publish, SubscriptionInv
  <2>2. Messages \subseteq Messages'
    BY <2>1 DEF Messages
  <2>3. QED
    BY <2>1, <2>2 DEF QueueTypes
<1>2. CASE \/ Deliver \/ Take \/ TakeGarbled \/ HandOver \/ GiveBack
           \/ DropBuffered \/ EndLoop \/ Ack \/ Fail
           \/ UNCHANGED subscriptionVars
  <2>1. /\ UNCHANGED <<published, handled, process, ctxDone, connected,
                       interruptions, shutdowns>>
        /\ loopRuns' \in {loopRuns, FALSE}
    BY <1>2 DEF Deliver, Take, TakeGarbled, HandOver, GiveBack, DropBuffered,
                EndLoop, Ack, Fail, subscriptionVars
  <2>2. QED
    BY <2>1 DEF QueueTypes, Messages
<1>3. CASE HandlerStep
  <2>1. PICK ok \in BOOLEAN : at = "handler" /\ HandlerReturns(ok)
    BY <1>3 DEF HandlerStep
  <2>2. /\ hand \in Messages /\ handled' \subseteq handled \cup {hand}
        /\ UNCHANGED <<published, process, ctxDone, connected, loopRuns,
                       interruptions, shutdowns>>
    BY <2>1 DEF HandlerReturns, SubscriptionInv
  <2>3. QED
    BY <2>2 DEF QueueTypes, Messages
<1>4. CASE \/ Shutdown \/ CloseChannel \/ Exit \/ Crash \/ Restart
           \/ ConnectionLost \/ \E S \in SUBSET Waiting : BrokerRestart(S)
  <2>1. /\ UNCHANGED <<published, handled>>
        /\ process' \in {process, "up", "stopping", "down"}
        /\ connected' \in {connected, TRUE, FALSE}
        /\ loopRuns' \in {loopRuns, TRUE, FALSE}
    BY <1>4 DEF Shutdown, CloseChannel, Exit, Crash, Restart, ConnectionLost,
                BrokerRestart, Dead, Interrupt
  <2>2. \/ UNCHANGED <<interruptions, shutdowns>>
        \/ /\ interruptions < MaxInterruptions
           /\ interruptions' = interruptions + 1
           /\ shutdowns' \in {shutdowns, shutdowns + 1}
    BY <1>4 DEF Shutdown, CloseChannel, Exit, Crash, Restart, ConnectionLost,
                BrokerRestart, Dead, Interrupt
  <2>3. \/ ctxDone' = FALSE
        \/ ctxDone' = ctxDone /\ shutdowns' \in {shutdowns, shutdowns + 1}
        \/ ctxDone' = TRUE /\ shutdowns' = shutdowns + 1
    BY <1>4 DEF Shutdown, CloseChannel, Exit, Crash, Restart, ConnectionLost,
                BrokerRestart, Dead, Interrupt
  <2>4. interruptions \in Nat /\ shutdowns \in Nat
    BY SubscriptionAssumption DEF QueueTypes
  <2>5. /\ interruptions' \in 0..MaxInterruptions
        /\ shutdowns' \in 0..(interruptions')
    BY <2>2, <2>4, SubscriptionAssumption DEF QueueTypes
  <2>6. /\ {ctxDone', connected', loopRuns'} \subseteq BOOLEAN
        /\ ctxDone' => shutdowns' # 0
    <3>1. /\ ctxDone \in BOOLEAN /\ connected \in BOOLEAN
          /\ loopRuns \in BOOLEAN
          /\ ctxDone => shutdowns # 0
      BY DEF QueueTypes
    <3>2. connected' \in BOOLEAN /\ loopRuns' \in BOOLEAN
      BY <2>1, <3>1
    <3>3. ctxDone' \in BOOLEAN
      BY <2>3, <3>1
    <3>4. shutdowns + 1 # 0
      BY <2>4
    <3>5. ctxDone' => shutdowns' # 0
      <4>1. CASE ctxDone' = FALSE
        BY <4>1
      <4>2. CASE ctxDone' = ctxDone /\ shutdowns' \in {shutdowns, shutdowns + 1}
        BY <4>2, <3>1, <3>4
      <4>3. CASE ctxDone' = TRUE /\ shutdowns' = shutdowns + 1
        BY <4>3, <3>4
      <4>4. QED
        BY <2>3, <4>1, <4>2, <4>3
    <3>6. QED
      BY <3>2, <3>3, <3>5
  <2>7. QED
    BY <2>1, <2>5, <2>6 DEF QueueTypes, Messages
<1>5. QED
  BY <1>1, <1>2, <1>3, <1>4 DEF SubscriptionStep

\* The dashboard: the indexes on both columns keep the table one to one.
LEMMA TypesGithub ==
  ASSUME TenancyInv, HandlerTypes, Github
  PROVE  HandlerTypes'
<1>1. changes' \in 0..MaxChanges \/ changes' = changes
  BY IngestionAssumption
  DEF Github, Connect, Disconnect, Uninstall, StartRequest, Change, githubVars,
      HandlerTypes
<1>2. installation \in [Orgs -> Installations \cup {None}]
  BY DEF TenancyInv
<1>3. CASE \E o \in Orgs, i \in Installations : Connect(o, i)
  <2>1. PICK o \in Orgs, i \in Installations : Connect(o, i)
    BY <1>3
  <2>2. /\ \A other \in Orgs \ {o} : installation[other] # i
        /\ installation' = [installation EXCEPT ![o] = i]
        /\ connectedOnce' = connectedOnce \cup {<<o, i>>}
        /\ UNCHANGED <<request, step, tenant, faults>>
    BY <2>1 DEF Connect, UpsertInstallation, handlerVars
  <2>3. installation' \in Tables
    BY <1>2, <2>2 DEF HandlerTypes, Tables
  <2>4. QED
    BY <1>1, <2>2, <2>3 DEF HandlerTypes
<1>4. CASE \E o \in Orgs : Disconnect(o)
  <2>1. PICK o \in Orgs : Disconnect(o)
    BY <1>4
  <2>2. /\ installation' = [installation EXCEPT ![o] = None]
        /\ UNCHANGED <<request, step, tenant, faults, connectedOnce>>
    BY <2>1 DEF Disconnect, DeleteByOrganization, handlerVars
  <2>3. installation' \in Tables
    BY <1>2, <2>2 DEF HandlerTypes, Tables
  <2>4. QED
    BY <1>1, <2>2, <2>3 DEF HandlerTypes
<1>5. CASE \E i \in Installations : Uninstall(i)
  <2>1. UNCHANGED <<installation, request, step, tenant, faults, connectedOnce>>
    BY <1>5 DEF Uninstall, handlerVars
  <2>2. QED
    BY <1>1, <2>1 DEF HandlerTypes
<1>6. CASE \E o \in Orgs : StartRequest(o)
  <2>1. PICK o \in Orgs : StartRequest(o)
    BY <1>6
  <2>2. /\ request' = [org |-> o, installation |-> installation[o],
                       todo |-> ListRepositories(installation[o])]
        /\ UNCHANGED <<installation, step, tenant, faults, connectedOnce>>
    BY <2>1 DEF StartRequest, handlerVars, githubVars
  <2>3. ListRepositories(installation[o]) \subseteq Repos
    BY DEF ListRepositories
  <2>4. QED
    BY <1>1, <1>2, <2>2, <2>3 DEF HandlerTypes
<1>7. QED
  BY <1>3, <1>4, <1>5, <1>6 DEF Github

\* Every step of Ingestion keeps the types.
LEMMA TypesKept ==
  ASSUME SubscriptionInv, TenancyInv, HandlerTypes, [Next]_vars
  PROVE  HandlerTypes'
<1>1. CASE Github
  BY <1>1, TypesGithub
<1>2. CASE Publisher
  <2>1. UNCHANGED <<githubVars, handlerVars>>
    BY <1>2 DEF Publisher, PublishNext, EndRequest, PublishEvent, PublishBody
  <2>2. \/ UNCHANGED request
        \/ request' = NoRequest
        \/ \E r \in request.todo :
             request' = [request EXCEPT !.todo = request.todo \ {r}]
    BY <1>2 DEF Publisher, PublishNext, EndRequest, PublishEvent
  <2>3. request' \in [org : Orgs \cup {NoOrg},
                      installation : Installations \cup {None},
                      todo : SUBSET Repos]
    BY <2>2 DEF HandlerTypes, NoRequest
  <2>4. QED
    BY <2>1, <2>3 DEF HandlerTypes, githubVars, handlerVars
<1>3. CASE Receive
  <2>1. UNCHANGED <<githubVars, request, faults>>
    BY <1>3 DEF Receive
  <2>2. \/ UNCHANGED <<step, tenant>>
        \/ HandOver /\ step' = "token" /\ tenant' = Event.org
    BY <1>3 DEF Receive
  <2>3. CASE HandOver /\ step' = "token" /\ tenant' = Event.org
    <3>1. Sound(Event) /\ Event # Unreadable
      BY <2>3 DEF HandOver, TenancyInv, HandlerInv, SubscriptionInv, Event
    <3>2. tenant' \in Orgs \cup {NoOrg}
      BY <2>3, <3>1, SoundFields
    <3>3. QED
      BY <2>1, <2>3, <3>2 DEF HandlerTypes, githubVars
  <2>4. CASE UNCHANGED <<step, tenant>>
    BY <2>1, <2>4 DEF HandlerTypes, githubVars
  <2>5. QED
    BY <2>2, <2>3, <2>4
<1>4. CASE Handle
  <2>1. UNCHANGED <<githubVars, request>>
    BY <1>4 DEF Handle
  <2>2. step' \in {"token", "resolve", "clone", "upsert", "index"}
    BY <1>4 DEF Handle, InstallationToken, ResolveOrganization, Clone,
                UpsertRepository, IndexRepository, HandleFails, GoOn, HandlerIdle
  <2>3. tenant' \in Orgs \cup {NoOrg}
    BY <1>4 DEF Handle, InstallationToken, ResolveOrganization, Clone,
                UpsertRepository, IndexRepository, HandleFails, GoOn,
                HandlerIdle, OrgsOf, HandlerTypes
  <2>4. \/ UNCHANGED faults
        \/ faults < MaxFaults /\ faults' = faults + 1
    BY <1>4 DEF Handle, InstallationToken, ResolveOrganization, Clone,
                UpsertRepository, IndexRepository, HandleFails, GoOn
  <2>5. faults' \in 0..MaxFaults
    BY <2>4, IngestionAssumption DEF HandlerTypes
  <2>6. QED
    BY <2>1, <2>2, <2>3, <2>5 DEF HandlerTypes, githubVars
<1>5. CASE Loops \/ Process
  <2>1. /\ UNCHANGED <<githubVars, faults>>
        /\ request' \in {request, NoRequest}
        /\ step' \in {step, "token"} /\ tenant' \in {tenant, NoOrg}
    BY <1>5 DEF Loops, Process, HandlerIdle, handlerVars
  <2>2. QED
    BY <2>1 DEF HandlerTypes, githubVars, NoRequest
<1>6. CASE UNCHANGED vars
  BY <1>6 DEF vars, githubVars, handlerVars, HandlerTypes
<1>7. QED
  BY <1>1, <1>2, <1>3, <1>4, <1>5, <1>6 DEF Next, Consumer

\* What the loops, the connections, the requests and the handler write has its
\* type: one organization per installation, a request for the repositories of
\* one installation, and every count within its bound, for any number of
\* messages, organizations and interruptions.
THEOREM IngestionTypeOKHolds == Spec => []IngestionTypeOK
<1>1. IngestionInit => QueueTypes /\ HandlerTypes
  BY TypesStart
<1>2. SubscriptionInv /\ QueueTypes /\ [Next]_vars => QueueTypes'
  BY StepsOfTheQueue, QueueTypesKept
<1>3. /\ SubscriptionInv /\ TenancyInv /\ HandlerTypes
      /\ [Next]_vars
      => HandlerTypes'
  BY TypesKept
<1>4. /\ SubscriptionInv /\ RunsInv /\ TenancyInv /\ QueueTypes /\ HandlerTypes
      /\ excused \subseteq Messages
      => IngestionTypeOK
  <2> SUFFICES ASSUME SubscriptionInv, RunsInv, TenancyInv, QueueTypes,
                      HandlerTypes, excused \subseteq Messages
               PROVE  IngestionTypeOK
    OBVIOUS
  <2>1. SubscriptionTypeOK
    <3>1. published \in 0..MaxMessages /\ ready \in Seq(Messages)
      BY SubscriptionAssumption DEF SubscriptionInv, RunsInv
    <3>2. /\ hand \in Messages \cup {0}
          /\ unacked \in Messages \cup {0}
          /\ at = "none" <=> hand = 0
          /\ unacked # 0 => hand = unacked
      BY DEF SubscriptionInv
    <3>3. acked \cup rejected \cup lost \cup handled \subseteq Messages
      BY DEF SubscriptionInv, Placed, QueueTypes
    <3>4. {ctxDone, connected, channelOpen, loopRuns} \subseteq BOOLEAN
      BY DEF SubscriptionInv, QueueTypes
    <3>5. /\ process \in {"up", "stopping", "down"}
          /\ interruptions \in 0..MaxInterruptions
          /\ shutdowns \in 0..interruptions
      BY DEF QueueTypes
    <3>6. at \in {"none", "wire", "offer", "handler", "ack", "nack"}
      BY DEF RunsInv
    <3>7. runs \in [1..MaxMessages -> 0..(MaxInterruptions + 1)]
      <4>1. /\ runs \in [1..MaxMessages -> Nat]
            /\ \A m \in 1..MaxMessages : runs[m] <= 1 + interruptions
        BY DEF RunsInv, StartsOf
      <4>2. \A m \in 1..MaxMessages : runs[m] \in 0..(MaxInterruptions + 1)
        BY <3>5, <4>1, SubscriptionAssumption
      <4>3. QED
        BY <4>1, <4>2
    <3>8. QED
      BY <3>1, <3>2, <3>3, <3>4, <3>5, <3>6, <3>7 DEF SubscriptionTypeOK
  <2>2. /\ installed \subseteq Installations
        /\ owner \in [Repos -> Orgs \cup {NoOrg}]
    BY DEF TenancyInv
  <2>3. body \in [Messages -> Bodies]
    BY DEF TenancyInv, Messages
  <2>4. QED
    BY <2>1, <2>2, <2>3 DEF IngestionTypeOK, HandlerTypes
<1>5. IngestionInit => excused \subseteq Messages
  BY DEF IngestionInit
<1>6. /\ SubscriptionInv /\ TenancyInv /\ excused \subseteq Messages
      /\ [Next]_vars
      => (excused \subseteq Messages)'
  BY ExcusedKept
<1>7. QED
  BY <1>1, <1>2, <1>3, <1>4, <1>5, <1>6, QueueInvariant, RunsInvariant,
     TenancyInvariant, PTL
  DEF Spec
-----------------------------------------------------------------------------
(* Why an event is dead-lettered.                                          *)

\* On its way to the dead-letter exchange, or there.
Condemned(m) == m \in rejected \/ (at = "nack" /\ m = hand)

\* The messages that a failed call has to answer for.
Charged == {m \in Messages \ excused : Condemned(m)}

\* What is hopeless is in the history; the handler has kept the organization
\* its event names; and what is condemned without an excuse has cost one fault
\* each.
CauseInv ==
  /\ excused \subseteq Messages
  /\ HopelessMessages \subseteq excused
  /\ at = "handler" /\ step \in {"token", "resolve"} => tenant = Event.org
  /\ shutdowns = 0 => Cardinality(Charged) <= faults

\* At the start.
LEMMA CauseStarts == IngestionInit => CauseInv
<1> SUFFICES ASSUME IngestionInit PROVE CauseInv
  OBVIOUS
<1>1. published = 0 /\ at = "none" /\ faults = 0 /\ excused = {}
  BY DEF IngestionInit, SubscriptionInit
<1>2. Charged = {}
  BY <1>1 DEF Charged, Messages
<1>3. Cardinality(Charged) = 0
  BY <1>2, FS_EmptySet
<1>4. HopelessMessages = {}
  BY <1>1 DEF HopelessMessages, Messages
<1>5. QED
  BY <1>1, <1>3, <1>4 DEF CauseInv

\* What condemns a message: it cannot be read, or its handler fails.
LEMMA Condemning ==
  ASSUME SubscriptionInv, TenancyInv, [Next]_vars,
         NEW m, Condemned(m)'
  PROVE  \/ Condemned(m)
         \/ m = hand /\ TakeGarbled /\ Event = Unreadable
         \/ m = hand /\ HandleFails
<1> USE DEF brokerVars
<1>1. CASE Github \/ Publisher \/ UNCHANGED vars
  <2>1. UNCHANGED <<rejected, at, hand>>
    BY <1>1 DEF Github, Connect, Disconnect, Uninstall, StartRequest, Publisher,
                PublishNext, EndRequest, PublishEvent, PublishBody, Publish,
                vars, subscriptionVars
  <2>2. QED
    BY <2>1 DEF Condemned
<1>2. CASE Receive
  <2>1. CASE TakeGarbled /\ Event = Unreadable
    <3>1. rejected' \subseteq rejected \cup {hand} /\ at' = "none"
      BY <2>1 DEF TakeGarbled, Settle, EmptyHand
    <3>2. QED
      BY <2>1, <3>1 DEF Condemned
  <2>2. CASE Take \/ HandOver
    BY <2>2 DEF Take, HandOver, Condemned
  <2>3. QED
    BY <1>2, <2>1, <2>2 DEF Receive
<1>3. CASE Handle
  <2>1. CASE HandleFails
    <3>1. UNCHANGED <<rejected, hand>>
      BY <2>1 DEF HandleFails, HandlerReturns
    <3>2. QED
      BY <2>1, <3>1 DEF Condemned
  <2>2. CASE IndexRepository
    BY <2>2 DEF IndexRepository, HandlerReturns, Condemned
  <2>3. CASE InstallationToken \/ ResolveOrganization \/ Clone \/ UpsertRepository
    BY <2>3 DEF InstallationToken, ResolveOrganization, Clone, UpsertRepository,
                GoOn, subscriptionVars, Condemned
  <2>4. QED
    BY <1>3, <2>1, <2>2, <2>3 DEF Handle
<1>4. CASE Loops
  <2>1. CASE Fail
    <3>1. /\ at = "nack" /\ at' = "none"
          /\ rejected' \subseteq rejected \cup {hand}
      BY <2>1 DEF Fail, Settle, EmptyHand
    <3>2. QED
      BY <3>1 DEF Condemned
  <2>2. CASE Deliver \/ GiveBack \/ DropBuffered \/ Ack
    <3>1. rejected' = rejected /\ at' \in {"none", "wire"}
      BY <2>2 DEF Deliver, GiveBack, DropBuffered, Ack, Settle, EmptyHand
    <3>2. QED
      BY <3>1 DEF Condemned
  <2>3. CASE EndLoop
    BY <2>3 DEF EndLoop, Condemned
  <2>4. QED
    BY <1>4, <2>1, <2>2, <2>3 DEF Loops
<1>5. CASE Process
  <2>1. rejected' = rejected /\ (at' = "none" \/ UNCHANGED <<at, hand>>)
    BY <1>5 DEF Process, Shutdown, CloseChannel, Exit, Crash, Restart,
                ConnectionLost, BrokerRestart, Dead, Requeue, EmptyHand
  <2>2. QED
    BY <2>1 DEF Condemned
<1>6. QED
  BY <1>1, <1>2, <1>3, <1>4, <1>5 DEF Next, Consumer

\* A handler that fails for a cause in the event or in the connections fails
\* for an event that is excused, unless the context is cancelled.
LEMMA CauseExcuses ==
  ASSUME SubscriptionInv, CauseInv, at = "handler", Cause, ~ ctxDone,
         hand \notin rejected
  PROVE  hand \in Messages /\ hand \in excused
<1>1. hand \in Messages
  BY DEF SubscriptionInv
<1>2. Hopeless(hand)
  <2>1. CASE step = "token" /\ Event.installation \notin installed \cup {None}
    BY <2>1 DEF Hopeless, Event
  <2>2. CASE step = "clone" /\ ~ CanClone
    BY <2>2 DEF Hopeless, CanClone, Event
  <2>3. CASE step = "resolve" /\ tenant = NoOrg /\ OrgsOf(Event.installation) = {}
    BY <2>3 DEF CauseInv, Hopeless, Event
  <2>4. QED
    BY <2>1, <2>2, <2>3 DEF Cause
<1>3. QED
  BY <1>1, <1>2 DEF CauseInv, HopelessMessages

\* A message that is in the dead-letter exchange stays there.
LEMMA RejectedStay ==
  ASSUME [Next]_vars
  PROVE  rejected \subseteq rejected'
<1> USE DEF brokerVars
<1>1. CASE SubscriptionStep
  BY <1>1 DEF SubscriptionStep, Publish, Deliver, Take, TakeGarbled, HandOver,
              GiveBack, DropBuffered, EndLoop, HandlerStep, HandlerReturns, Ack,
              Fail, Settle, Shutdown, CloseChannel, Exit, Crash, Dead, Requeue,
              Restart, ConnectionLost, BrokerRestart
<1>2. CASE UNCHANGED subscriptionVars
  BY <1>2 DEF subscriptionVars
<1>3. QED
  BY <1>1, <1>2, StepsOfTheQueue

\* Every hopeless message that waits is noted.
LEMMA HopelessNoted ==
  ASSUME CauseInv, [Next]_vars
  PROVE  HopelessMessages' \subseteq excused'
<1>1. CASE Excuse
  BY <1>1 DEF Excuse
<1>2. CASE UNCHANGED <<excused, published, body, installation, installed>>
  <2>1. \A m : Hopeless(m)' => Hopeless(m)
    BY <1>2 DEF Hopeless, OrgsOf
  <2>2. HopelessMessages' \subseteq HopelessMessages
    BY <1>2, <2>1, RejectedStay DEF HopelessMessages, Messages
  <2>3. QED
    BY <1>2, <2>2 DEF CauseInv
<1>3. QED
  BY <1>1, <1>2, ExcuseSteps

\* Until it resolves the organization, the handler keeps the event's.
LEMMA TenantKept ==
  ASSUME SubscriptionInv, TenancyInv, CauseInv, [Next]_vars,
         at' = "handler", step' \in {"token", "resolve"}
  PROVE  tenant' = (Event.org)'
<1>1. CASE UNCHANGED <<at, hand, step, tenant>>
  <2>1. hand \in Messages /\ body'[hand] = body[hand]
    BY <1>1, HistoryKept DEF SubscriptionInv
  <2>2. QED
    BY <1>1, <2>1 DEF CauseInv, Event
<1>2. CASE Github \/ Publisher \/ UNCHANGED vars
  <2>1. UNCHANGED <<at, hand, step, tenant>>
    BY <1>2 DEF Github, Connect, Disconnect, Uninstall, StartRequest, Publisher,
                PublishNext, EndRequest, PublishEvent, PublishBody, Publish,
                vars, subscriptionVars, handlerVars
  <2>2. QED
    BY <1>1, <2>1
<1>3. CASE Receive
  <2>1. HandOver /\ tenant' = Event.org /\ body' = body
    BY <1>3 DEF Receive, TakeGarbled, Take, EmptyHand
  <2>2. QED
    BY <2>1 DEF HandOver, Event
<1>4. CASE Handle
  <2>1. InstallationToken
    BY <1>4 DEF Handle, InstallationToken, ResolveOrganization, Clone,
                UpsertRepository, IndexRepository, HandleFails, GoOn,
                HandlerReturns
  <2>2. /\ at = "handler" /\ step = "token"
        /\ UNCHANGED <<hand, tenant, body>>
    BY <1>4, <2>1 DEF Handle, InstallationToken, Handling, GoOn, subscriptionVars
  <2>3. QED
    BY <2>2 DEF CauseInv, Event
<1>5. CASE Loops
  <2>1. UNCHANGED <<at, hand, step, tenant>>
    BY <1>5 DEF Loops, Deliver, GiveBack, DropBuffered, EndLoop, Ack, Fail,
                EmptyHand, handlerVars
  <2>2. QED
    BY <1>1, <2>1
<1>6. CASE Process
  <2>1. UNCHANGED <<at, hand>>
    BY <1>6 DEF Process, Shutdown, CloseChannel, Exit, Crash, Restart,
                ConnectionLost, BrokerRestart, Dead, EmptyHand
  <2>2. Running'
    <3>1. hand # 0
      BY <2>1 DEF SubscriptionInv
    <3>2. process # "down"
      BY <3>1 DEF SubscriptionInv
    <3>3. process' # "down"
      BY <1>6, <3>2 DEF Process, Shutdown, CloseChannel, Exit, Crash, Restart,
                        ConnectionLost, BrokerRestart, Dead, EmptyHand
    <3>4. QED
      BY <3>3 DEF Running
  <2>3. UNCHANGED <<step, tenant>>
    BY <1>6, <2>2 DEF Process
  <2>4. QED
    BY <1>1, <2>1, <2>3
<1>7. QED
  BY <1>2, <1>3, <1>4, <1>5, <1>6 DEF Next, Consumer

\* A step that condemns without an excuse is a handler that failed by itself,
\* and it condemns the message in its hands.
LEMMA ChargedSteps ==
  ASSUME SubscriptionInv, TenancyInv, QueueTypes, HandlerTypes, CauseInv,
         [Next]_vars,
         shutdowns' = 0
  PROVE  \/ Charged' \subseteq Charged /\ faults' \in {faults, faults + 1}
         \/ /\ Charged' \subseteq Charged \cup {hand}
            /\ faults' = faults + 1
<1>1. faults' = faults \/ (HandleFails /\ faults' = faults + 1)
  <2>1. CASE Github \/ Publisher \/ UNCHANGED vars
    BY <2>1 DEF Github, Connect, Disconnect, Uninstall, StartRequest, Publisher,
                PublishNext, EndRequest, PublishEvent, PublishBody, handlerVars,
                vars
  <2>2. CASE Receive \/ Loops \/ Process
    BY <2>2 DEF Receive, Loops, Process, handlerVars
  <2>3. CASE Handle
    <3>1. CASE HandleFails
      BY <3>1 DEF HandleFails
    <3>2. CASE ~ HandleFails
      BY <2>3, <3>2 DEF Handle, InstallationToken, ResolveOrganization, Clone,
                        UpsertRepository, IndexRepository, GoOn
    <3>3. QED
      BY <3>1, <3>2
  <2>4. QED
    BY <2>1, <2>2, <2>3 DEF Next, Consumer
<1>2. ASSUME NEW m \in Charged', m \notin Charged
      PROVE  m = hand /\ HandleFails /\ faults' = faults + 1
  <2>0. faults # faults + 1
    BY IngestionAssumption DEF HandlerTypes
  <2>1. m \in Messages' /\ m \notin excused' /\ Condemned(m)'
    BY <1>2 DEF Charged
  <2>2. m \notin excused
    BY <2>1, ExcusedKept DEF CauseInv
  <2>3. ~ Condemned(m)
    <3>1. CASE m \in Messages
      BY <1>2, <2>2, <3>1 DEF Charged
    <3>2. CASE m \notin Messages
      BY <3>2 DEF Condemned, SubscriptionInv, Placed
    <3>3. QED
      BY <3>1, <3>2
  <2>4. ~ (m = hand /\ TakeGarbled /\ Event = Unreadable)
    <3>1. TakeGarbled => hand \in Messages
      BY DEF TakeGarbled, SubscriptionInv
    <3>2. hand \in Messages \ rejected /\ Event = Unreadable => hand \in excused
      BY DEF CauseInv, HopelessMessages, Hopeless, Event
    <3>3. QED
      BY <2>2, <2>3, <3>1, <3>2 DEF Condemned
  <2>5. m = hand /\ HandleFails
    BY <2>1, <2>3, <2>4, Condemning
  <2>6. CASE faults' = faults
    <3>1. at = "handler" /\ Cause /\ shutdowns' = shutdowns
      <4>1. at = "handler" /\ shutdowns' = shutdowns
        BY <2>5 DEF HandleFails, HandlerReturns, countVars
      <4>2. Cause
        BY <2>5, <2>6, <2>0 DEF HandleFails
      <4>3. QED
        BY <4>1, <4>2
    <3>2. ~ ctxDone
      BY <3>1 DEF QueueTypes
    <3>3. hand \notin rejected
      BY <2>3, <2>5 DEF Condemned
    <3>4. QED
      BY <2>2, <2>5, <3>1, <3>2, <3>3, CauseExcuses
  <2>8. QED
    BY <1>1, <2>5, <2>6
<1>3. QED
  BY <1>1, <1>2

\* The count of the shutdowns never falls.
LEMMA ShutdownsGrow ==
  ASSUME [Next]_vars
  PROVE  shutdowns' \in {shutdowns, shutdowns + 1}
<1> USE DEF countVars
<1>1. CASE SubscriptionStep
  BY <1>1 DEF SubscriptionStep, Publish, Deliver, Take, TakeGarbled, HandOver,
              GiveBack, DropBuffered, EndLoop, HandlerStep, HandlerReturns, Ack,
              Fail, Shutdown, CloseChannel, Exit, Crash, Restart, ConnectionLost,
              BrokerRestart
<1>2. CASE UNCHANGED subscriptionVars
  BY <1>2 DEF subscriptionVars
<1>3. QED
  BY <1>1, <1>2, StepsOfTheQueue

\* Every step of Ingestion keeps the account.
LEMMA CauseKept ==
  ASSUME SubscriptionInv, TenancyInv, QueueTypes, HandlerTypes, CauseInv,
         [Next]_vars
  PROVE  CauseInv'
<1>1. (excused \subseteq Messages)' /\ HopelessMessages' \subseteq excused'
  BY ExcusedKept, HopelessNoted DEF CauseInv
<1>2. at' = "handler" /\ step' \in {"token", "resolve"} => tenant' = (Event.org)'
  BY TenantKept
<1>3. ASSUME shutdowns' = 0
      PROVE  Cardinality(Charged') <= faults'
  <2>1. shutdowns = 0
    <3>1. shutdowns' \in {shutdowns, shutdowns + 1} /\ shutdowns \in Nat
      BY ShutdownsGrow, SubscriptionAssumption DEF QueueTypes
    <3>2. QED
      BY <1>3, <3>1
  <2>2. /\ Cardinality(Charged) <= faults
        /\ faults \in Nat
    BY <2>1, IngestionAssumption DEF CauseInv, HandlerTypes
  <2>3. IsFiniteSet(Charged) /\ Cardinality(Charged) \in Nat
    <3>1. IsFiniteSet(1..published)
      BY FS_Interval DEF SubscriptionInv
    <3>2. Charged \subseteq 1..published
      BY DEF Charged, Messages
    <3>3. QED
      BY <3>1, <3>2, FS_Subset, FS_CardinalityType
  <2>4. CASE Charged' \subseteq Charged /\ faults' \in {faults, faults + 1}
    <3>1. Cardinality(Charged') <= Cardinality(Charged)
      BY <2>3, <2>4, FS_Subset
    <3>2. IsFiniteSet(Charged') /\ Cardinality(Charged') \in Nat
      BY <2>3, <2>4, FS_Subset, FS_CardinalityType
    <3>3. QED
      BY <2>2, <2>3, <2>4, <3>1, <3>2
  <2>5. CASE Charged' \subseteq Charged \cup {hand} /\ faults' = faults + 1
    <3>1. /\ IsFiniteSet(Charged \cup {hand})
          /\ Cardinality(Charged \cup {hand}) <= Cardinality(Charged) + 1
          /\ Cardinality(Charged \cup {hand}) \in Nat
      <4>1. /\ IsFiniteSet(Charged \cup {hand})
            /\ Cardinality(Charged \cup {hand}) = Cardinality(Charged)
               \/ Cardinality(Charged \cup {hand}) = Cardinality(Charged) + 1
        BY <2>3, FS_AddElement
      <4>2. QED
        BY <2>3, <4>1
    <3>2. /\ Cardinality(Charged') <= Cardinality(Charged \cup {hand})
          /\ Cardinality(Charged') \in Nat
      BY <2>5, <3>1, FS_Subset, FS_CardinalityType
    <3>3. QED
      BY <2>2, <2>3, <2>5, <3>1, <3>2
  <2>6. QED
    BY <1>3, <2>4, <2>5, ChargedSteps
<1>4. QED
  BY <1>1, <1>2, <1>3 DEF CauseInv

\* No event is dead-lettered without a cause: while no shutdown cancels a run,
\* an event that could have been handled at every moment since it was published
\* reaches the dead-letter exchange only for a call that failed by itself, and
\* each such failure costs one event at most - whatever is connected,
\* disconnected or uninstalled while it waits.
THEOREM RejectedForCauseHolds == Spec => []RejectedForCause
<1>1. IngestionInit => QueueTypes /\ HandlerTypes /\ CauseInv
  BY TypesStart, CauseStarts
<1>2. SubscriptionInv /\ QueueTypes /\ [Next]_vars => QueueTypes'
  BY StepsOfTheQueue, QueueTypesKept
<1>3. /\ SubscriptionInv /\ TenancyInv /\ HandlerTypes
      /\ [Next]_vars
      => HandlerTypes'
  BY TypesKept
<1>4. /\ SubscriptionInv /\ TenancyInv /\ QueueTypes /\ HandlerTypes /\ CauseInv
      /\ [Next]_vars
      => CauseInv'
  BY CauseKept
<1>5. SubscriptionInv /\ HandlerTypes /\ CauseInv => RejectedForCause
  <2> SUFFICES ASSUME SubscriptionInv, HandlerTypes, CauseInv, shutdowns = 0
               PROVE  Cardinality(rejected \ excused) <= faults
    BY DEF RejectedForCause
  <2> DEFINE Unexcused == rejected \ excused
  <2>1. Unexcused \subseteq Charged
    BY DEF Charged, Condemned, SubscriptionInv, Placed
  <2>2. IsFiniteSet(Charged)
    <3>1. IsFiniteSet(1..published)
      BY FS_Interval DEF SubscriptionInv
    <3>2. Charged \subseteq 1..published
      BY DEF Charged, Messages
    <3>3. QED
      BY <3>1, <3>2, FS_Subset
  <2>3. /\ Cardinality(Unexcused) <= Cardinality(Charged)
        /\ Cardinality(Unexcused) \in Nat /\ Cardinality(Charged) \in Nat
    BY <2>1, <2>2, FS_Subset, FS_CardinalityType
  <2>4. Cardinality(Charged) <= faults /\ faults \in Nat
    BY IngestionAssumption DEF CauseInv, HandlerTypes
  <2>5. QED
    BY <2>3, <2>4
<1>6. QED
  BY <1>1, <1>2, <1>3, <1>4, <1>5, QueueInvariant, TenancyInvariant, PTL
  DEF Spec
=============================================================================
