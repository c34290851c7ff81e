-------------------------- MODULE RealtimeSseProofs --------------------------
(***************************************************************************)
(* Theorems about RealtimeSse, for any number of streams.                  *)
(***************************************************************************)
EXTENDS RealtimeSse, TLAPS

\* The row is written by the request, once.
PostedOnce == post # "done" => status = "NONE"

\* An event is published after the change that it tells of.
EventsFollowStatus ==
  \A k \in outbox \cup (Range(feed) \cap Kinds) \cup forwarded : Covers(status, k)

\* A stream is subscribed from before its query until it is refused or closed, and
\* beats while it is open.
Subscribed ==
  \A s \in Streams :
    /\ pc[s] \in {"reading", "read", "open"} => s \in listeners
    /\ s \in heartbeats => pc[s] = "open"

\* From its query on a stream misses nothing that it has not read.
NothingMissed ==
  \A s \in Streams : pc[s] \in {"read", "open"} =>
    \A k \in forwarded : k \in sent[s] \/ Covers(found[s], k)

IInv == TypeOK /\ PostedOnce /\ EventsFollowStatus /\ Subscribed /\ NothingMissed

-----------------------------------------------------------------------------

LEMMA InitInv == Init => IInv
<1>1. <<>> \in Seq(Kinds \cup Strays) /\ Range(<<>>) = {}
  BY DEF Range
<1>2. QED
  BY <1>1 DEF Init, IInv, TypeOK, PostedOnce, EventsFollowStatus, Subscribed, NothingMissed

\* What an emission does to the streams.
LEMMA Emitted ==
  ASSUME TypeOK, NEW kind \in Kinds, Emit(kind)
  PROVE  /\ sent' \in [Streams -> SUBSET Kinds]
         /\ \A s \in Streams : sent[s] \subseteq sent'[s] /\ (s \in listeners => kind \in sent'[s])
BY DEF TypeOK, Emit

LEMMA PostInv == ASSUME IInv, Post PROVE IInv'
<1>1. TypeOK /\ "TransactionPending" \in Kinds /\ Emit("TransactionPending")
  BY DEF IInv, Kinds, Post
<1>2. /\ sent' \in [Streams -> SUBSET Kinds]
      /\ \A s \in Streams : sent[s] \subseteq sent'[s]
  BY <1>1, Emitted
<1>3. QED
  BY <1>2 DEF IInv, TypeOK, PostedOnce, EventsFollowStatus, Subscribed, NothingMissed,
     Post, kafka, Covers

\* The status moves on, and an event of the new one is written with it.
LEMMA BecomeInv ==
  ASSUME IInv, Decide \/ Settle
  PROVE  IInv'
<1>1. /\ UNCHANGED <<consumer, feed, missed, forwarded, pc, found, sent, listeners, heartbeats,
                     connected, server>>
      /\ post' = "done"
  BY DEF Decide, Settle, Become, kafka, streams, IInv, PostedOnce
<1>2. /\ status' \in {"COMPLETED", "FINALIZED", "BLOCKED"}
      /\ \E k \in Kinds : outbox' = outbox \cup {k} /\ Covers(status', k)
      /\ status = "NONE" \/ (status = "COMPLETED" /\ status' # "NONE")
  BY DEF Decide, Settle, Become, Kinds, Covers, IInv, PostedOnce
<1>3. \A k \in Kinds : Covers(status, k) => Covers(status', k)
  BY <1>2 DEF Covers
<1>4. outbox' \subseteq Kinds /\ EventsFollowStatus'
  BY <1>1, <1>2, <1>3 DEF IInv, TypeOK, EventsFollowStatus
<1>5. TypeOK'
  BY <1>1, <1>2, <1>4 DEF IInv, TypeOK
<1>6. PostedOnce' /\ Subscribed' /\ NothingMissed'
  BY <1>1 DEF IInv, PostedOnce, Subscribed, NothingMissed, Covers
<1>7. QED
  BY <1>4, <1>5, <1>6 DEF IInv

\* What appending a message, or taking the first one, does to the feed.
LEMMA FeedSteps ==
  ASSUME NEW S, NEW q \in Seq(S), NEW m \in S
  PROVE  /\ Append(q, m) \in Seq(S) /\ Range(Append(q, m)) \subseteq Range(q) \cup {m}
         /\ q # <<>> => Tail(q) \in Seq(S) /\ Range(Tail(q)) \subseteq Range(q)
                          /\ Head(q) \in Range(q)
<1>1. Append(q, m) \in Seq(S) /\ Range(Append(q, m)) \subseteq Range(q) \cup {m}
  BY DEF Range
<1>2. ASSUME q # <<>>
      PROVE  Tail(q) \in Seq(S) /\ Range(Tail(q)) \subseteq Range(q) /\ Head(q) \in Range(q)
  BY <1>2 DEF Range
<1>3. QED
  BY <1>1, <1>2

\* A step of the consumer or of those who publish that forwards nothing.
LEMMA FeedInv ==
  ASSUME IInv, Join \/ Skip \/ StartOver \/ (\E k \in Kinds : Publish(k))
                 \/ (\E m \in Strays : Stray(m))
  PROVE  IInv'
<1>1. /\ UNCHANGED <<post, status, forwarded, pc, found, sent, listeners, heartbeats,
                     connected, server>>
      /\ TypeOK
  BY DEF IInv, Join, Skip, StartOver, Publish, Stray, txn, streams
<1>2. /\ outbox' \subseteq outbox /\ missed' \subseteq Kinds
      /\ consumer' \in {"starting", "joined", "stopped"}
  BY <1>1 DEF TypeOK, Join, Skip, StartOver, Publish, Stray, txn
<1>3. /\ feed' \in Seq(Kinds \cup Strays)
      /\ Range(feed') \cap Kinds \subseteq Range(feed) \cup outbox
  <2>1. CASE Join
    BY <1>1, <2>1 DEF Join, TypeOK
  <2>2. CASE Skip
    BY <1>1, <2>2, FeedSteps DEF Skip, IsNext, TypeOK, Strays
  <2>3. CASE StartOver
    BY <2>3 DEF StartOver, Range
  <2>4. ASSUME NEW k \in Kinds, Publish(k)
        PROVE  /\ feed' \in Seq(Kinds \cup Strays)
               /\ Range(feed') \cap Kinds \subseteq Range(feed) \cup outbox
    BY <1>1, <2>4, FeedSteps DEF Publish, TypeOK
  <2>5. ASSUME NEW m \in Strays, Stray(m)
        PROVE  /\ feed' \in Seq(Kinds \cup Strays)
               /\ Range(feed') \cap Kinds \subseteq Range(feed) \cup outbox
    BY <1>1, <2>5, FeedSteps DEF Stray, TypeOK, Strays, Kinds
  <2>6. QED
    BY <2>1, <2>2, <2>3, <2>4, <2>5
<1>4. TypeOK'
  BY <1>1, <1>2, <1>3 DEF TypeOK
<1>5. PostedOnce' /\ EventsFollowStatus' /\ Subscribed' /\ NothingMissed'
  BY <1>1, <1>2, <1>3 DEF IInv, PostedOnce, EventsFollowStatus, Subscribed, NothingMissed, Covers
<1>6. QED
  BY <1>4, <1>5 DEF IInv

LEMMA ForwardInv ==
  ASSUME IInv, NEW kind \in Kinds, Forward(kind)
  PROVE  IInv'
<1>1. /\ sent' \in [Streams -> SUBSET Kinds]
      /\ \A s \in Streams : sent[s] \subseteq sent'[s] /\ (s \in listeners => kind \in sent'[s])
  BY Emitted DEF IInv, Forward
<1>2. /\ forwarded' = forwarded \cup {kind}
      /\ UNCHANGED <<post, status, outbox, consumer, missed, pc, found, listeners, heartbeats,
                     connected, server>>
  BY DEF Forward, txn
<1>3. /\ kind \in Range(feed) /\ Range(feed') \subseteq Range(feed)
      /\ feed' \in Seq(Kinds \cup Strays)
  BY FeedSteps DEF Forward, IsNext, IInv, TypeOK
<1>4. TypeOK'
  BY <1>1, <1>2, <1>3 DEF IInv, TypeOK
<1>5. PostedOnce' /\ EventsFollowStatus' /\ Subscribed'
  BY <1>2, <1>3 DEF IInv, PostedOnce, EventsFollowStatus, Subscribed, Covers
<1>6. NothingMissed'
  BY <1>1, <1>2 DEF IInv, NothingMissed, Subscribed, Covers
<1>7. QED
  BY <1>4, <1>5, <1>6 DEF IInv

\* A step of one stream.
LEMMA StreamInv ==
  ASSUME IInv, NEW s \in Streams,
         Open(s) \/ Read(s) \/ Refuse(s) \/ Start(s) \/ Break(s) \/ Leave(s)
  PROVE  IInv'
<1>1. TypeOK /\ UNCHANGED <<post, status, outbox, consumer, feed, missed, forwarded, server>>
  BY DEF IInv, Open, Read, Refuse, Start, Break, Leave, txn, kafka
<1>2. PostedOnce' /\ EventsFollowStatus'
  BY <1>1 DEF IInv, PostedOnce, EventsFollowStatus, Covers
<1>3. /\ pc' \in [Streams -> {"idle", "reading", "read", "refused", "open", "broken", "closed"}]
      /\ \A q \in Streams \ {s} : pc'[q] = pc[q] /\ found'[q] = found[q] /\ sent'[q] = sent[q]
  BY <1>1 DEF TypeOK, Open, Read, Refuse, Start, Break, Leave
<1>4. /\ found' \in [Streams -> {"NONE", "COMPLETED", "FINALIZED", "BLOCKED"}]
      /\ connected' \subseteq Streams
  BY <1>1 DEF TypeOK, Open, Read, Refuse, Start, Break, Leave
<1>5. \A stat : InitialEvent(stat) \in Kinds
  BY DEF InitialEvent, Kinds
<1>6. sent' \in [Streams -> SUBSET Kinds]
  BY <1>1, <1>5 DEF TypeOK, Open, Read, Refuse, Start, Break, Leave
<1>7. Subscribed' /\ heartbeats' \subseteq listeners' /\ listeners' \subseteq Streams
  BY <1>1 DEF IInv, TypeOK, Subscribed, Open, Read, Refuse, Start, Break, Leave
<1>8. TypeOK'
  BY <1>1, <1>3, <1>4, <1>6, <1>7 DEF TypeOK
<1>9. ASSUME pc'[s] \in {"read", "open"}, NEW k \in forwarded
      PROVE  k \in sent'[s] \/ Covers(found'[s], k)
  <2>1. CASE Read(s)
    BY <1>1, <2>1 DEF IInv, TypeOK, EventsFollowStatus, Read
  <2>2. CASE Open(s) \/ Refuse(s) \/ Break(s)
    BY <1>1, <1>9, <2>2 DEF TypeOK, Open, Refuse, Break
  <2>3. CASE Start(s)
    <3>1. pc[s] = "read" /\ sent[s] = {} /\ found' = found
      BY <2>3 DEF Start
    <3>2. QED
      BY <3>1 DEF IInv, NothingMissed
  <2>4. CASE Leave(s)
    <3>1. pc'[s] = pc[s] /\ found' = found /\ sent' = sent
      BY <1>1, <1>9, <2>4 DEF TypeOK, Leave
    <3>2. QED
      BY <1>9, <3>1 DEF IInv, NothingMissed
  <2>5. QED
    BY <2>1, <2>2, <2>3, <2>4
<1>10. NothingMissed'
  BY <1>1, <1>3, <1>9 DEF IInv, NothingMissed, Covers
<1>11. QED
  BY <1>2, <1>7, <1>8, <1>10 DEF IInv

LEMMA ServerInv ==
  ASSUME IInv, Close \/ Stop \/ UNCHANGED vars
  PROVE  IInv'
<1>1. /\ UNCHANGED <<post, status, outbox, feed, forwarded, pc, found, sent, listeners,
                     heartbeats, connected>>
      /\ consumer' \in {"starting", "joined", "stopped"} /\ missed' = missed
      /\ server' \in {"up", "closing", "stopped"}
  BY DEF IInv, TypeOK, Close, Stop, LeaveTopic, vars, txn, kafka, streams
<1>2. QED
  BY <1>1 DEF IInv, TypeOK, PostedOnce, EventsFollowStatus, Subscribed, NothingMissed, Covers

LEMMA NextInv == IInv /\ [Next]_vars => IInv'
BY PostInv, BecomeInv, FeedInv, ForwardInv, StreamInv, ServerInv DEF Next

-----------------------------------------------------------------------------

\* The variables keep their types, and no heartbeat outlives its subscription.
THEOREM TypeCorrect == Spec => []TypeOK
<1>1. IInv => TypeOK
  BY DEF IInv
<1>2. QED
  BY <1>1, InitInv, NextInv, PTL DEF Spec

\* Whatever was forwarded is on an open stream, or the stream read it as true.
THEOREM OpenMissesNothing == Spec => []NoGap
<1>1. IInv => NoGap
  BY DEF IInv, NothingMissed, NoGap
<1>2. QED
  BY <1>1, InitInv, NextInv, PTL DEF Spec
=============================================================================
