----------------------------- MODULE RealtimeSse -----------------------------
(***************************************************************************)
(* One API process and the streams of one transaction (server-sent         *)
(* events): a stream subscribes, reads the transaction, sends what it read *)
(* and then every event the process forwards.  The process takes events    *)
(* from Kafka under a group of its own that starts at the latest offset,   *)
(* and publishes TransactionPending itself.  The feed is what the          *)
(* partition of the transaction holds for it.  JavaScript runs one         *)
(* callback at a time, so an action is what happens between two awaits.    *)
(*                                                                         *)
(* A second copy of an event and the events that change no status are left *)
(* out: they are forwarded like the others.                                *)
(***************************************************************************)
EXTENDS Integers, FiniteSets, Sequences, Functions

CONSTANTS Streams,      \* requests for the events of the transaction
          Permitted     \* those of its owner or of an administrator

ASSUME SseAssumption == Permitted \subseteq Streams

VARIABLES post,         \* POST of the transaction: none, running or done
          status,       \* Transaction.status, NONE before the row exists
          outbox,       \* events not yet published to the topic
          consumer,     \* the realtime consumer: starting, joined or stopped
          feed,         \* published messages it has not passed yet, in order
          missed,       \* events that were published while it had no place for them
          forwarded,    \* events it has emitted
          pc,           \* where the handler of a stream stands
          found,        \* the status the stream has read
          sent,         \* event types written to the stream
          listeners,    \* streams subscribed to the emitter
          heartbeats,   \* streams with a running interval
          connected,    \* streams whose client is there
          server        \* up, closing or stopped

txn == <<post, status, outbox>>
kafka == <<consumer, feed, missed, forwarded>>
streams == <<pc, found, sent, listeners, heartbeats, connected>>
vars == <<txn, kafka, streams, server>>

Init ==
  /\ post = "none" /\ status = "NONE" /\ outbox = {}
  /\ consumer = "starting" /\ feed = <<>> /\ missed = {} /\ forwarded = {}
  /\ pc = [s \in Streams |-> "idle"]
  /\ found = [s \in Streams |-> "NONE"]
  /\ sent = [s \in Streams |-> {}]
  /\ listeners = {} /\ heartbeats = {} /\ connected = {}
  /\ server = "up"

-----------------------------------------------------------------------------
(* The transaction *)

\* Every subscribed stream writes the event, whatever its handler waits for.
Emit(kind) ==
  sent' = [s \in Streams |-> IF s \in listeners THEN sent[s] \cup {kind} ELSE sent[s]]

Post ==
  /\ post = "none" /\ server = "up"
  /\ post' = "running"
  /\ Emit("TransactionPending")
  /\ UNCHANGED <<status, outbox, kafka, pc, found, listeners, heartbeats, connected, server>>

Become(new, kind) ==
  /\ status' = new
  /\ outbox' = outbox \cup {kind}
  /\ UNCHANGED <<kafka, streams, server>>

Decide ==
  /\ post = "running" /\ post' = "done"
  /\ \/ Become("COMPLETED", "TransactionCompleted")
     \/ Become("BLOCKED", "TransactionBlocked")

Settle ==
  /\ status = "COMPLETED" /\ UNCHANGED post
  /\ \/ Become("FINALIZED", "TransactionFinalized")
     \/ Become("BLOCKED", "TransactionCompensated")

-----------------------------------------------------------------------------
(* RealtimeConsumer *)

Kinds == {"TransactionPending", "TransactionCompleted", "TransactionBlocked",
          "TransactionFinalized", "TransactionCompensated"}

\* start() may also fail, and nothing calls it again.
Join ==
  /\ consumer = "starting" /\ consumer' = "joined"
  /\ UNCHANGED <<txn, feed, missed, forwarded, streams, server>>

\* What is published before the consumer has joined never reaches it.
Publish(kind) ==
  /\ kind \in outbox
  /\ outbox' = outbox \ {kind}
  /\ feed' = IF consumer = "joined" THEN Append(feed, kind) ELSE feed
  /\ missed' = IF consumer = "starting" THEN missed \cup {kind} ELSE missed
  /\ UNCHANGED <<post, status, consumer, forwarded, streams, server>>

\* Messages of others on the same partition, one at a time.
Strays == {"empty", "unreadable"}

Stray(m) ==
  /\ consumer = "joined" /\ Range(feed) \cap Strays = {}
  /\ feed' = Append(feed, m)
  /\ UNCHANGED <<txn, consumer, missed, forwarded, streams, server>>

\* The message that eachMessage is given.
IsNext(m) == consumer = "joined" /\ feed # <<>> /\ Head(feed) = m

Forward(kind) ==
  /\ IsNext(kind)
  /\ feed' = Tail(feed)
  /\ forwarded' = forwarded \cup {kind}
  /\ Emit(kind)
  /\ UNCHANGED <<txn, consumer, missed, pc, found, listeners, heartbeats, connected, server>>

\* A message without a value.
Skip ==
  /\ IsNext("empty")
  /\ feed' = Tail(feed)
  /\ UNCHANGED <<txn, consumer, missed, forwarded, streams, server>>

\* A message that cannot be parsed makes eachMessage throw, and is handed over again
\* and again: nothing changes.  A consumer that starts over without a committed
\* offset takes its place at the end of the topic instead.
StartOver ==
  /\ IsNext("unreadable")
  /\ feed' = <<>>
  /\ missed' = missed \cup (Range(feed) \cap Kinds)
  /\ UNCHANGED <<txn, consumer, forwarded, streams, server>>

-----------------------------------------------------------------------------
(* GET /transactions/:transactionId/events *)

\* Mutant: the stream does not subscribe before it reads.
OpenUnsubscribed(s) ==
  /\ pc[s] = "idle" /\ server = "up"
  /\ pc' = [pc EXCEPT ![s] = "reading"]
  /\ connected' = connected \cup {s}
  /\ UNCHANGED <<txn, kafka, found, sent, listeners, heartbeats, server>>

Open(s) ==
  /\ pc[s] = "idle" /\ server = "up"
  /\ listeners' = listeners \cup {s}
  /\ pc' = [pc EXCEPT ![s] = "reading"]
  /\ connected' = connected \cup {s}
  /\ UNCHANGED <<txn, kafka, found, sent, heartbeats, server>>

\* The database answers the query; the handler has not resumed yet.
Read(s) ==
  /\ pc[s] = "reading"
  /\ found' = [found EXCEPT ![s] = status]
  /\ pc' = [pc EXCEPT ![s] = "read"]
  /\ UNCHANGED <<txn, kafka, sent, listeners, heartbeats, connected, server>>

Shown(s) == found[s] # "NONE" /\ s \in Permitted

\* 404 or 403, after which the connection is done with.
Refuse(s) ==
  /\ pc[s] = "read" /\ ~Shown(s)
  /\ listeners' = listeners \ {s}
  /\ connected' = connected \ {s}
  /\ pc' = [pc EXCEPT ![s] = "refused"]
  /\ UNCHANGED <<txn, kafka, found, sent, heartbeats, server>>

InitialEvent(stat) ==
  CASE stat = "BLOCKED" -> "TransactionBlocked"
    [] stat = "FINALIZED" -> "TransactionFinalized"
    [] stat = "COMPLETED" -> "TransactionCompleted"
    [] OTHER -> "TransactionPending"

\* Headers, heartbeat, what was read, and only then the handler of a close.
Start(s) ==
  /\ pc[s] = "read" /\ Shown(s)
  /\ sent[s] = {}
  /\ heartbeats' = heartbeats \cup {s}
  /\ sent' = [sent EXCEPT ![s] = {InitialEvent(found[s])}]
  /\ pc' = [pc EXCEPT ![s] = "open"]
  /\ UNCHANGED <<txn, kafka, found, listeners, connected, server>>

\* An event was written meanwhile and took the headers with it: setting them now
\* throws, and the error handler, which finds headers sent, has the connection cut.
Break(s) ==
  /\ pc[s] = "read" /\ Shown(s)
  /\ sent[s] # {}
  /\ connected' = connected \ {s}
  /\ pc' = [pc EXCEPT ![s] = "broken"]
  /\ UNCHANGED <<txn, kafka, found, sent, listeners, heartbeats, server>>

\* Mutant: closing a stream leaves its heartbeat running.
LeaveBeating(s) ==
  /\ s \in connected
  /\ connected' = connected \ {s}
  /\ IF pc[s] = "open"
     THEN /\ listeners' = listeners \ {s} /\ UNCHANGED heartbeats
          /\ pc' = [pc EXCEPT ![s] = "closed"]
     ELSE UNCHANGED <<listeners, heartbeats, pc>>
  /\ UNCHANGED <<txn, kafka, found, sent, server>>

\* The client goes away.  Before the handler of a close is there nobody notices.
Leave(s) ==
  /\ s \in connected
  /\ connected' = connected \ {s}
  /\ IF pc[s] = "open"
     THEN /\ listeners' = listeners \ {s} /\ heartbeats' = heartbeats \ {s}
          /\ pc' = [pc EXCEPT ![s] = "closed"]
     ELSE UNCHANGED <<listeners, heartbeats, pc>>
  /\ UNCHANGED <<txn, kafka, found, sent, server>>

-----------------------------------------------------------------------------
(* shutdown() *)

Close ==
  /\ server = "up" /\ server' = "closing"
  /\ UNCHANGED <<txn, kafka, streams>>

\* RealtimeConsumer.stop() leaves a consumer alone that is not connected yet.
LeaveTopic ==
  consumer' \in IF consumer = "starting" THEN {"starting", "stopped"} ELSE {"stopped"}

\* Mutant: the consumer is stopped without waiting for the connections.
StopAtOnce ==
  /\ server = "closing" /\ server' = "stopped"
  /\ LeaveTopic
  /\ UNCHANGED <<txn, feed, missed, forwarded, streams>>

\* server.close calls back when the last connection has ended; an open stream, kept
\* alive by its heartbeat, holds up the end of the process until its client leaves.
Stop ==
  /\ server = "closing" /\ server' = "stopped"
  /\ connected = {}
  /\ LeaveTopic
  /\ UNCHANGED <<txn, feed, missed, forwarded, streams>>

-----------------------------------------------------------------------------

Next ==
  \/ Post \/ Decide \/ Settle \/ Join \/ Skip \/ StartOver \/ Close \/ Stop
  \/ \E k \in Kinds : Publish(k) \/ Forward(k)
  \/ \E m \in Strays : Stray(m)
  \/ \E s \in Streams :
       Open(s) \/ Read(s) \/ Refuse(s) \/ Start(s) \/ Break(s) \/ Leave(s)

Spec == Init /\ [][Next]_vars

\* The outbox publisher goes on, and so does a consumer that has joined, as far as it
\* can read its messages; it need not ever join, nor need clients and handlers go on.
FairSpec ==
  /\ Spec
  /\ \A k \in Kinds : WF_vars(Publish(k))
  /\ WF_vars(Skip \/ \E k \in Kinds : Forward(k))

-----------------------------------------------------------------------------

\* The type of every variable; an unused listener belongs to no stream.
TypeOK ==
  /\ post \in {"none", "running", "done"}
  /\ status \in {"NONE", "COMPLETED", "FINALIZED", "BLOCKED"}
  /\ outbox \subseteq Kinds /\ missed \subseteq Kinds /\ forwarded \subseteq Kinds
  /\ feed \in Seq(Kinds \cup Strays)
  /\ consumer \in {"starting", "joined", "stopped"} /\ server \in {"up", "closing", "stopped"}
  /\ pc \in [Streams -> {"idle", "reading", "read", "refused", "open", "broken", "closed"}]
  /\ found \in [Streams -> {"NONE", "COMPLETED", "FINALIZED", "BLOCKED"}]
  /\ sent \in [Streams -> SUBSET Kinds]
  /\ heartbeats \subseteq listeners /\ listeners \subseteq Streams
  /\ connected \subseteq Streams

\* The status an event tells of, or a later one, was read by the stream.
Covers(stat, kind) ==
  \/ kind = "TransactionPending"
  \/ kind = "TransactionCompleted" /\ stat # "NONE"
  \/ kind \in {"TransactionBlocked", "TransactionCompensated"} /\ stat = "BLOCKED"
  \/ kind = "TransactionFinalized" /\ stat = "FINALIZED"

\* No event falls between the query and the subscription: whatever the process has
\* forwarded is on an open stream or was already true when the stream read.
NoGap ==
  \A s \in Streams : pc[s] = "open" =>
    \A k \in forwarded : k \in sent[s] \/ Covers(found[s], k)

Settled(kind) == kind \in Kinds \ {"TransactionPending", "TransactionCompleted"}

\* An event stands behind a message that the consumer cannot get past.
Stuck(kind) ==
  \E i, j \in DOMAIN feed : i < j /\ feed[i] = "unreadable" /\ feed[j] = kind

\* A client that stays on an open stream learns how the transaction ended, whenever
\* that happens and whatever the stream has read.  Two things only can keep it from
\* the client: the event was published while the consumer had no place in the topic,
\* or it stands behind a message that cannot be parsed.
OpenIsFollowed ==
  \A s \in Streams :
    (pc[s] = "open" /\ status \in {"FINALIZED", "BLOCKED"})
      ~> \/ s \notin connected
         \/ \E k \in sent[s] : Settled(k)
         \/ \E k \in Kinds : Settled(k) /\ (k \in missed \/ Stuck(k))

\* README: follow the transaction with GET .../events.
FollowedIsNotCut == \A s \in Permitted : pc[s] # "broken"
=============================================================================
