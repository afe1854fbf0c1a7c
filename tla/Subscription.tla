----------------------------- MODULE Subscription -----------------------------
(***************************************************************************)
(* One queue and the goroutines that drain it: the subscriber loop of an    *)
(* adapter of infra/rabbimq, which hands deliveries over an unbuffered Go   *)
(* channel to the controller loop of interface/mq.  The three adapters are  *)
(* the same; Ingestion adds the handler of the repository events.           *)
(*                                                                          *)
(* RabbitMQ, as the code uses it: prefetch 1, manual acks, a message whose  *)
(* channel closes goes back to the head of its queue.  The AMQP connection  *)
(* is dialled once at start-up and never again.  Messages are numbered in   *)
(* the order they were published.                                           *)
(***************************************************************************)
EXTENDS Naturals, Sequences, FiniteSets, Functions

CONSTANTS MaxMessages,       \* bound: messages ever published
          MaxInterruptions   \* bound: shutdowns, crashes and lost connections

ASSUME SubscriptionAssumption ==
  /\ MaxMessages \in Nat
  /\ MaxInterruptions \in Nat

VARIABLES
  published,      \* number of messages published so far
  ready,          \* the queue: messages to be delivered, in order
  unacked,        \* the message delivered and not settled, 0 for none
  acked,          \* messages settled by an ack
  rejected,       \* messages nacked without requeue, so dead-lettered
  lost,           \* messages a restart of the broker forgot
  process,        \* "up", "stopping" once the stop hooks run, or "down"
  ctxDone,        \* the context of the two loops is cancelled
  connected,      \* the AMQP connection of the process
  channelOpen,    \* the channel the deliveries come by
  loopRuns,       \* the subscriber goroutine runs
  hand,           \* the message in the hands of the process, 0 for none
  at,             \* where in the process it is
  runs,           \* how many times the handler was started, per message
  handled,        \* messages for which the handler returned nil
  interruptions,  \* shutdowns, crashes and lost connections so far
  shutdowns       \* the shutdowns among them

brokerVars == <<ready, unacked, acked, rejected, lost>>
processVars == <<process, ctxDone, connected, channelOpen>>
countVars == <<published, interruptions, shutdowns>>
subscriptionVars == <<countVars, brokerVars, processVars, loopRuns, hand, at,
                      runs, handled>>

Messages == 1..published

SubscriptionTypeOK ==
  /\ published \in 0..MaxMessages
  /\ ready \in Seq(Messages)
  /\ unacked \in Messages \cup {0}
  /\ acked \cup rejected \cup lost \cup handled \subseteq Messages
  /\ process \in {"up", "stopping", "down"}
  /\ {ctxDone, connected, channelOpen, loopRuns} \subseteq BOOLEAN
  /\ hand \in Messages \cup {0}
  /\ at \in {"none", "wire", "offer", "handler", "ack", "nack"}
  /\ at = "none" <=> hand = 0
  /\ unacked # 0 => hand = unacked
  /\ runs \in [1..MaxMessages -> 0..(MaxInterruptions + 1)]
  /\ interruptions \in 0..MaxInterruptions
  /\ shutdowns \in 0..interruptions

SubscriptionInit ==
  /\ published = 0
  /\ ready = <<>>
  /\ unacked = 0
  /\ acked = {} /\ rejected = {} /\ lost = {}
  /\ process = "up"
  /\ ctxDone = FALSE
  /\ connected = TRUE
  /\ channelOpen = TRUE
  /\ loopRuns = TRUE
  /\ hand = 0
  /\ at = "none"
  /\ runs = [m \in 1..MaxMessages |-> 0]
  /\ handled = {}
  /\ interruptions = 0
  /\ shutdowns = 0

-----------------------------------------------------------------------------
(* The broker.                                                             *)

Publish ==
  /\ published < MaxMessages
  /\ published' = published + 1
  /\ ready' = Append(ready, published')
  /\ UNCHANGED <<unacked, acked, rejected, lost, processVars, loopRuns, hand,
                 at, runs, handled, interruptions, shutdowns>>

\* Mutant: the queue is consumed with autoAck.
DeliverAutoAck ==
  /\ channelOpen /\ at = "none" /\ unacked = 0 /\ ready # <<>>
  /\ acked' = acked \cup {Head(ready)}
  /\ hand' = Head(ready)
  /\ ready' = Tail(ready)
  /\ at' = "wire"
  /\ UNCHANGED <<countVars, unacked, rejected, lost, processVars, loopRuns,
                 runs, handled>>

\* Prefetch 1: nothing is delivered while a delivery is unsettled.
Deliver ==
  /\ channelOpen /\ at = "none" /\ unacked = 0 /\ ready # <<>>
  /\ unacked' = Head(ready)
  /\ hand' = Head(ready)
  /\ ready' = Tail(ready)
  /\ at' = "wire"
  /\ UNCHANGED <<countVars, acked, rejected, lost, processVars, loopRuns,
                 runs, handled>>

\* The broker's side of a channel that closes.
Requeued == IF unacked = 0 THEN ready ELSE <<unacked>> \o ready

Requeue ==
  /\ ready' = Requeued
  /\ unacked' = 0
  /\ UNCHANGED <<acked, rejected, lost>>

\* A settlement of the message in hand; on a closed channel the call returns
\* an error, which is logged, and the broker hears nothing.
Settle(verdict) ==
  IF ~ channelOpen
  THEN UNCHANGED brokerVars
  ELSE /\ unacked' = 0
       /\ acked' = IF verdict = "ack" THEN acked \cup {hand} ELSE acked
       /\ rejected' = IF verdict = "reject" THEN rejected \cup {hand}
                                            ELSE rejected
       /\ ready' = IF verdict = "requeue" THEN <<hand>> \o ready ELSE ready
       /\ UNCHANGED lost

EmptyHand == hand' = 0 /\ at' = "none"

-----------------------------------------------------------------------------
(* The subscriber goroutine.                                               *)

Running == process # "down"

\* The outer select takes the delivery; it may do so though the context is
\* done, because select chooses freely between two ready cases.
Take ==
  /\ Running /\ loopRuns /\ at = "wire"
  /\ at' = "offer"
  /\ UNCHANGED <<countVars, brokerVars, processVars, loopRuns, hand, runs,
                 handled>>

\* proto.Unmarshal fails: Nack(false, false) and the next delivery.
TakeGarbled ==
  /\ Running /\ loopRuns /\ at = "wire"
  /\ Settle("reject")
  /\ EmptyHand
  /\ UNCHANGED <<countVars, processVars, loopRuns, runs, handled>>

\* The controller receives the message and starts its handler.
HandOver ==
  /\ Running /\ at = "offer"
  /\ at' = "handler"
  /\ runs' = [runs EXCEPT ![hand] = @ + 1]
  /\ UNCHANGED <<countVars, brokerVars, processVars, loopRuns, hand, handled>>

\* The inner select sees the context done: requeued, and the loop ends.
GiveBack ==
  /\ Running /\ at = "offer" /\ ctxDone
  /\ Settle("requeue")
  /\ EmptyHand
  /\ loopRuns' = FALSE
  /\ UNCHANGED <<countVars, processVars, runs, handled>>

\* A channel that closes drops what the client library had buffered.
DropBuffered ==
  /\ Running /\ at = "wire" /\ ~ channelOpen
  /\ EmptyHand
  /\ UNCHANGED <<countVars, brokerVars, processVars, loopRuns, runs, handled>>

\* The outer select sees the context done or the delivery channel closed.
EndLoop ==
  /\ Running /\ loopRuns /\ at # "offer"
  /\ ctxDone \/ (~ channelOpen /\ at # "wire")
  /\ loopRuns' = FALSE
  /\ UNCHANGED <<countVars, brokerVars, processVars, hand, at, runs, handled>>

-----------------------------------------------------------------------------
(* The controller, after its handler.                                      *)

HandlerReturns(ok) ==
  /\ at' = IF ok THEN "ack" ELSE "nack"
  /\ handled' = IF ok THEN handled \cup {hand} ELSE handled
  /\ UNCHANGED <<countVars, brokerVars, processVars, loopRuns, hand, runs>>

Ack ==
  /\ Running /\ at = "ack"
  /\ Settle("ack")
  /\ EmptyHand
  /\ UNCHANGED <<countVars, processVars, loopRuns, runs, handled>>

\* Mutant: a failed event is requeued.
FailRequeues ==
  /\ Running /\ at = "nack"
  /\ Settle("requeue")
  /\ EmptyHand
  /\ UNCHANGED <<countVars, processVars, loopRuns, runs, handled>>

\* Mutant: a failed event is only logged.
FailLogs ==
  /\ Running /\ at = "nack"
  /\ EmptyHand
  /\ UNCHANGED <<countVars, brokerVars, processVars, loopRuns, runs, handled>>

\* fail(): Nack(false), and an error of it is only logged.
Fail ==
  /\ Running /\ at = "nack"
  /\ Settle("reject")
  /\ EmptyHand
  /\ UNCHANGED <<countVars, processVars, loopRuns, runs, handled>>

-----------------------------------------------------------------------------
(* The process and its connection.                                         *)

Interrupt ==
  /\ interruptions < MaxInterruptions
  /\ interruptions' = interruptions + 1
  /\ UNCHANGED published

\* A stop signal: the OnStop hook cancels the context ...
Shutdown ==
  /\ process = "up"
  /\ Interrupt
  /\ shutdowns' = shutdowns + 1
  /\ process' = "stopping"
  /\ ctxDone' = TRUE
  /\ UNCHANGED <<brokerVars, connected, channelOpen, loopRuns, hand, at, runs,
                 handled>>

\* ... and Stop closes the channel, whatever the loops are doing.
CloseChannel ==
  /\ process = "stopping" /\ channelOpen
  /\ channelOpen' = FALSE
  /\ Requeue
  /\ UNCHANGED <<countVars, process, ctxDone, connected, loopRuns, hand, at,
                 runs, handled>>

\* The process is gone, with its goroutines and its connection.
Dead ==
  /\ process' = "down"
  /\ ctxDone' = FALSE
  /\ connected' = FALSE
  /\ channelOpen' = FALSE
  /\ loopRuns' = FALSE
  /\ EmptyHand
  /\ Requeue
  /\ UNCHANGED <<runs, handled>>

\* main returns once the hooks have run; nothing waits for the goroutines.
Exit ==
  /\ process = "stopping" /\ ~ channelOpen
  /\ Dead
  /\ UNCHANGED countVars

Crash ==
  /\ Running
  /\ Interrupt
  /\ Dead
  /\ UNCHANGED shutdowns

Restart ==
  /\ process = "down"
  /\ process' = "up"
  /\ connected' = TRUE
  /\ channelOpen' = TRUE
  /\ loopRuns' = TRUE
  /\ UNCHANGED <<countVars, brokerVars, ctxDone, hand, at, runs, handled>>

\* The network or the broker ends the connection.  The process stays up and
\* what it holds in its hands it still works on.
ConnectionLost ==
  /\ connected
  /\ Interrupt
  /\ connected' = FALSE
  /\ channelOpen' = FALSE
  /\ Requeue
  /\ UNCHANGED <<shutdowns, process, ctxDone, loopRuns, hand, at, runs,
                 handled>>

Waiting == Range(Requeued)

\* The sequences of the other messages of a queue, in the order they had.
Without(S, q) ==
  LET kept == Range(q) \ S
      before(a, b) == \E i, j \in DOMAIN q : i < j /\ q[i] = a /\ q[j] = b
  IN {r \in UNION {[1..n -> kept] : n \in 0..Len(q)} :
        /\ Range(r) = kept
        /\ \A i, j \in DOMAIN r : i < j => before(r[i], r[j])}

\* The broker restarts and forgets the messages of S.
BrokerRestart(S) ==
  /\ Interrupt
  /\ connected' = FALSE
  /\ channelOpen' = FALSE
  /\ ready' \in Without(S, Requeued)
  /\ unacked' = 0
  /\ lost' = lost \cup S
  /\ UNCHANGED <<acked, rejected, shutdowns, process, ctxDone, loopRuns, hand,
                 at, runs, handled>>

-----------------------------------------------------------------------------
\* Every published message is in the queue, with the consumer, settled or lost
\* - in one of these and once - and an ack means that its handler returned
\* nil.  No interleaving of a shutdown, a lost connection and a settlement
\* makes a message slip through or stand twice in the queue.
NoEventSlips ==
  LET place == <<Range(ready), {unacked} \ {0}, acked, rejected, lost>>
  IN /\ IsInjective(ready)
     /\ Messages = UNION Range(place)
     /\ \A v, w \in DOMAIN place : v # w => place[v] \cap place[w] = {}
     /\ acked \subseteq handled

\* A handler starts a second time only for an interruption: a message that
\* fails is not handed back in a loop.
RunsBounded == \A m \in Messages : runs[m] <= 1 + interruptions

\* The process lives, but no delivery will reach it any more.
Deaf == process = "up" /\ ~ channelOpen

Settled(m) == m \in acked \cup rejected \cup lost

\* Again and again every message published is settled, through shutdowns,
\* crashes and restarts - unless the connection is lost, after which the
\* process stays up, deaf, until something else ends it.
Settles == []<>(Deaf \/ \A m \in Messages : Settled(m))
=============================================================================
