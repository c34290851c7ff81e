---------------------------- MODULE EventConsumer ----------------------------
(***************************************************************************)
(* The consumer runtime with the two handlers that only keep counts and    *)
(* tell customers (analytics and notification), the dead letter queue and  *)
(* the script that sends its messages again.                               *)
(*                                                                         *)
(* One partition of banking.transaction-events.v1 is modelled: what Kafka  *)
(* orders and a group hands to one member at a time.  A member that lost   *)
(* the partition ends the handler it is in, but can commit no offset; its  *)
(* statements may interleave with those of the new owner.                  *)
(***************************************************************************)
EXTENDS Integers, Sequences, FiniteSets, SequencesExt

CONSTANTS Groups,       \* the consumer groups that run
          Members,      \* processes of each group
          Events,       \* eventId values
          HourOf,       \* hourBucket of an event's occurredAt
          KindOf,       \* what analytics counts an event as
          Rejects,      \* group -> events its handler can never parse
          MaxAttempts,  \* CONSUMER_MAX_RETRIES + 1
          MaxMessages,  \* bound on the length of the topic in a run
          MaxFaults,    \* bound on crashes, reassignments and failing DLQ sends
          Nobody        \* the owner of a partition that is not assigned

Counted == {"completed", "finalized"}

ASSUME ConsumerAssumption ==
  /\ Groups \subseteq {"analytics", "notification"} /\ IsFiniteSet(Events)
  /\ Rejects \in [Groups -> SUBSET Events]
  /\ DOMAIN HourOf = Events
  /\ KindOf \in [Events -> Counted \cup {"other"}]
  /\ MaxAttempts \in Nat \ {0}
  /\ MaxMessages \in Nat /\ MaxFaults \in Nat
  /\ Nobody \notin Members

VARIABLES topic,      \* the messages of the partition, as event ids
          dlq,        \* messages of the DLQ: consumer and event
          processed,  \* ProcessedEvent rows: consumer and event
          metrics,    \* AnalyticsMetric: hour and kind -> count
          told,       \* event -> notifications sent
          owner,      \* group -> the member that has the partition
          committed,  \* group -> messages passed, as Kafka knows it
          pos,        \* messages passed, as a member knows it
          attempt,    \* the attempt a member is in
          mode,       \* of a process: starting, running, or told to stop before it ran
          pc,         \* idle, or the next statement: look, write or park
          faults

member == <<pos, attempt, mode, pc>>
vars == <<topic, dlq, processed, metrics, told, owner, committed, member, faults>>

Workers == Groups \X Members
Hours == {HourOf[e] : e \in Events}

Init ==
  /\ topic = <<>> /\ dlq = {} /\ processed = {}
  /\ metrics = [b \in Hours \X Counted |-> 0]
  /\ told = [e \in Events |-> 0]
  /\ owner = [g \in Groups |-> Nobody]
  /\ committed = [g \in Groups |-> 0]
  /\ pos = [w \in Workers |-> 0]
  /\ attempt = [w \in Workers |-> 0]
  /\ mode = [w \in Workers |-> "starting"]
  /\ pc = [w \in Workers |-> "idle"]
  /\ faults = 0

Owns(w) == owner[w[1]] = w[2]
Current(w) == topic[pos[w] + 1]
Row(w) == <<w[1], Current(w)>>

-----------------------------------------------------------------------------
(* The topic *)

Publish(e) ==
  /\ Len(topic) < MaxMessages
  /\ e \notin Range(topic)
  /\ topic' = Append(topic, e)
  /\ UNCHANGED <<dlq, processed, metrics, told, owner, committed, member, faults>>

\* The script reads the DLQ from its beginning under a group of its own process
\* id, so what was sent again before is sent again, and to every group.
Reprocess(d) ==
  /\ Len(topic) < MaxMessages
  /\ topic' = Append(topic, d[2])
  /\ UNCHANGED <<dlq, processed, metrics, told, owner, committed, member, faults>>

-----------------------------------------------------------------------------
(* Group membership and offsets *)

\* The partition goes to m, which starts after what the group has committed.
Assign(g, m) ==
  /\ owner[g] # m
  /\ pc[<<g, m>>] = "idle"
  /\ owner[g] # Nobody => faults < MaxFaults
  /\ faults' = IF owner[g] = Nobody THEN faults ELSE faults + 1
  /\ owner' = [owner EXCEPT ![g] = m]
  /\ pos' = [pos EXCEPT ![<<g, m>>] = committed[g]]
  /\ mode' = [mode EXCEPT ![<<g, m>>] = IF @ = "starting" THEN "running" ELSE @]
  /\ UNCHANGED <<topic, dlq, processed, metrics, told, committed, attempt, pc>>

Commit(w) ==
  /\ Owns(w)
  /\ committed[w[1]] < pos[w]
  /\ committed' = [committed EXCEPT ![w[1]] = pos[w]]
  /\ UNCHANGED <<topic, dlq, processed, metrics, told, owner, member, faults>>

Leave(w) == owner' = [owner EXCEPT ![w[1]] = IF Owns(w) THEN Nobody ELSE @]

\* The process is gone; the one started in its place is not a member yet.
Restart(w) == mode' = [mode EXCEPT ![w] = "starting"]

\* Mutant: the process goes away in the middle of a message, and passes it.
StopAtOnce(w) ==
  /\ mode[w] = "running"
  /\ faults < MaxFaults /\ faults' = faults + 1
  /\ committed' = [committed EXCEPT ![w[1]] =
                     IF ~Owns(w) THEN @ ELSE IF pc[w] = "idle" THEN pos[w] ELSE pos[w] + 1]
  /\ Leave(w) /\ Restart(w)
  /\ pc' = [pc EXCEPT ![w] = "idle"]
  /\ UNCHANGED <<topic, dlq, processed, metrics, told, pos, attempt>>

\* SIGTERM while the consumer runs: consumer.stop() waits for the handler, commits
\* and leaves the group.
Stop(w) ==
  /\ mode[w] = "running" /\ pc[w] = "idle"
  /\ faults < MaxFaults /\ faults' = faults + 1
  /\ committed' = [committed EXCEPT ![w[1]] = IF Owns(w) THEN pos[w] ELSE @]
  /\ Leave(w) /\ Restart(w)
  /\ UNCHANGED <<topic, dlq, processed, metrics, told, pos, attempt, pc>>

\* SIGTERM while it connects, subscribes or joins: consumer.stop() finds nothing to
\* stop, and the process goes on to become a member.  It ends by being killed.
StopTooEarly(w) ==
  /\ mode[w] = "starting"
  /\ faults < MaxFaults /\ faults' = faults + 1
  /\ mode' = [mode EXCEPT ![w] = "deaf"]
  /\ UNCHANGED <<topic, dlq, processed, metrics, told, owner, committed, pos, attempt, pc>>

\* A crash at any statement: the open transaction is rolled back.
Crash(w) ==
  /\ mode[w] # "starting"
  /\ faults < MaxFaults /\ faults' = faults + 1
  /\ Leave(w) /\ Restart(w)
  /\ pc' = [pc EXCEPT ![w] = "idle"]
  /\ UNCHANGED <<topic, dlq, processed, metrics, told, committed, pos, attempt>>

-----------------------------------------------------------------------------
(* processWithRetry around a handler *)

HasNext(w) == Owns(w) /\ pc[w] = "idle" /\ pos[w] < Len(topic)

\* eachMessage returns at once when shuttingDown is set: the message is passed, and
\* nothing was done about it.
Ignore(w) ==
  /\ HasNext(w)
  /\ mode[w] = "deaf"
  /\ pos' = [pos EXCEPT ![w] = @ + 1]
  /\ UNCHANGED <<topic, dlq, processed, metrics, told, owner, committed, attempt, mode, pc, faults>>

Fetch(w) ==
  /\ HasNext(w)
  /\ mode[w] # "deaf"
  /\ attempt' = [attempt EXCEPT ![w] = 1]
  /\ pc' = [pc EXCEPT ![w] = "look"]
  /\ UNCHANGED <<topic, dlq, processed, metrics, told, owner, committed, pos, mode, faults>>

\* eachMessage returned: the member counts the message as passed.
Return(w) ==
  /\ pos' = [pos EXCEPT ![w] = @ + 1]
  /\ pc' = [pc EXCEPT ![w] = "idle"]
  /\ UNCHANGED <<topic, owner, committed, attempt, mode, faults>>

Parsed(w) == Current(w) \notin Rejects[w[1]]

SkipProcessed(w) ==
  /\ pc[w] = "look" /\ Parsed(w)
  /\ Row(w) \in processed
  /\ Return(w)
  /\ UNCHANGED <<dlq, processed, metrics, told>>

\* No row yet.  The notification is sent here, before anything is committed.
Begin(w) ==
  /\ pc[w] = "look" /\ Parsed(w)
  /\ Row(w) \notin processed
  /\ told' = IF w[1] = "notification" THEN [told EXCEPT ![Current(w)] = @ + 1] ELSE told
  /\ pc' = [pc EXCEPT ![w] = "write"]
  /\ UNCHANGED <<topic, dlq, processed, metrics, owner, committed, pos, attempt, mode, faults>>

Bucket(e) == <<HourOf[e], KindOf[e]>>

\* Mutant: the unique index of ProcessedEvent is missing.
Insertable(w) == TRUE

\* The unique index lets one transaction insert the row.
RowIsFree(w) == Row(w) \notin processed

\* The upsert of the metric and the ProcessedEvent row, in one transaction.
Write(w) ==
  /\ pc[w] = "write"
  /\ RowIsFree(w)
  /\ metrics' = IF w[1] = "analytics" /\ KindOf[Current(w)] \in Counted
                THEN [metrics EXCEPT ![Bucket(Current(w))] = @ + 1] ELSE metrics
  /\ processed' = processed \cup {Row(w)}

HandlerReturns(w) ==
  /\ Write(w)
  /\ Return(w)
  /\ UNCHANGED <<dlq, told>>

\* Mutant: the attempts of a message are not counted.
RetryForever(w) ==
  /\ pc' = [pc EXCEPT ![w] = "look"]
  /\ UNCHANGED <<pos, attempt>>

\* Mutant: one attempt too many.
CaughtLate(w) ==
  /\ attempt' = [attempt EXCEPT ![w] = @ + 1]
  /\ pc' = [pc EXCEPT ![w] = IF attempt[w] <= MaxAttempts THEN "look" ELSE "park"]
  /\ UNCHANGED pos

\* Another attempt after a pause, or the DLQ after the last one.
Caught(w) ==
  /\ IF attempt[w] < MaxAttempts
     THEN /\ attempt' = [attempt EXCEPT ![w] = @ + 1]
          /\ pc' = [pc EXCEPT ![w] = "look"]
     ELSE /\ pc' = [pc EXCEPT ![w] = "park"]
          /\ UNCHANGED attempt
  /\ UNCHANGED pos

\* The message cannot be parsed, the row is taken, or the database fails.
HandlerFails(w) ==
  /\ pc[w] \in {"look", "write"}
  /\ Caught(w)
  /\ UNCHANGED <<topic, dlq, processed, metrics, told, owner, committed, mode, faults>>

\* The transaction committed, but the handler is told that it failed.
CommitUnanswered(w) ==
  /\ Write(w)
  /\ Caught(w)
  /\ UNCHANGED <<topic, dlq, told, owner, committed, mode, faults>>

Park(w) ==
  /\ pc[w] = "park"
  /\ dlq' = dlq \cup {Row(w)}
  /\ Return(w)
  /\ UNCHANGED <<processed, metrics, told>>

\* Mutant: the message counts as passed although the DLQ did not get it.
ParkFailsSilently(w) ==
  /\ pc[w] = "park"
  /\ faults < MaxFaults /\ faults' = faults + 1
  /\ pos' = [pos EXCEPT ![w] = @ + 1]
  /\ pc' = [pc EXCEPT ![w] = "idle"]
  /\ UNCHANGED <<topic, dlq, processed, metrics, told, owner, committed, attempt, mode>>

\* eachMessage throws: the same message is fetched again, with all its attempts.
ParkFails(w) ==
  /\ pc[w] = "park"
  /\ faults < MaxFaults /\ faults' = faults + 1
  /\ pc' = [pc EXCEPT ![w] = "idle"]
  /\ UNCHANGED <<topic, dlq, processed, metrics, told, owner, committed, pos, attempt, mode>>

-----------------------------------------------------------------------------

Step(w) ==
  \/ Fetch(w) \/ Ignore(w) \/ SkipProcessed(w) \/ Begin(w) \/ HandlerReturns(w)
  \/ HandlerFails(w) \/ CommitUnanswered(w) \/ Park(w)

Next ==
  \/ \E e \in Events : Publish(e)
  \/ \E d \in dlq : Reprocess(d)
  \/ \E g \in Groups, m \in Members : Assign(g, m)
  \/ \E w \in Workers : \/ Step(w) \/ Commit(w)
                        \/ Stop(w) \/ StopTooEarly(w) \/ Crash(w) \/ ParkFails(w)

Spec == Init /\ [][Next]_vars

\* A group without owner is assigned, its members go on and commit.
FairSpec ==
  /\ Spec
  /\ \A g \in Groups : WF_vars(owner[g] = Nobody /\ \E m \in Members : Assign(g, m))
  /\ \A w \in Workers : WF_vars(Step(w)) /\ WF_vars(Commit(w))

-----------------------------------------------------------------------------

\* The type of every variable.
TypeOK ==
  /\ topic \in Seq(Events)
  /\ dlq \subseteq Groups \X Events /\ processed \subseteq Groups \X Events
  /\ metrics \in [Hours \X Counted -> Nat] /\ told \in [Events -> Nat]
  /\ owner \in [Groups -> Members \cup {Nobody}]
  /\ committed \in [Groups -> 0..Len(topic)] /\ pos \in [Workers -> 0..Len(topic)]
  /\ attempt \in [Workers -> 0..MaxAttempts]
  /\ mode \in [Workers -> {"starting", "running", "deaf"}]
  /\ pc \in [Workers -> {"idle", "look", "write", "park"}]
  /\ \A w \in Workers : pc[w] # "idle" => pos[w] < Len(topic) /\ attempt[w] > 0
  /\ faults \in 0..MaxFaults

\* Each bucket counts exactly the events analytics has marked as processed,
\* whatever was retried, delivered twice, handled by two members or sent again.
MetricsCountProcessed ==
  \A b \in Hours \X Counted :
    metrics[b] = Cardinality({e \in Events : <<"analytics", e>> \in processed /\ Bucket(e) = b})

Copies(e) == Cardinality({i \in 1..Len(topic) : topic[i] = e})

\* Notifications are repeated, but boundedly: once per attempt, for each copy of
\* the event, each time a fault has the copy delivered anew.
ToldBoundedly ==
  \A e \in Events : told[e] <= MaxAttempts * Copies(e) * (1 + faults)

Coming(g, e) == \E i \in 1..Len(topic) : i > committed[g] /\ topic[i] = e

FateOf(g, e) ==
  IF <<g, e>> \in processed THEN "applied"
  ELSE IF Coming(g, e) THEN "coming"
  ELSE IF <<g, e>> \in dlq THEN "parked"
  ELSE IF e \in Range(topic) THEN "lost" ELSE "unpublished"

\* The groups that have a process which was told to stop before it ran.
Deaf == {g \in Groups : \E m \in Members : mode[<<g, m>>] = "deaf"}

\* The offsets, retries and the DLQ keep the promise of Delivery: an event is lost to
\* a group only while a process of the group runs that was told to stop too early.
D == INSTANCE Delivery
       WITH fate <- [g \in Groups |-> [e \in Events |-> FateOf(g, e)]], deaf <- Deaf
DeliverySpec == D!Spec

\* Every published event is applied or put aside by every group in the end, even
\* behind messages that always fail and after crashes and reassignments, unless it
\* is lost in the one way that Delivery allows; no event stays undecided.
PublishedIsSettled ==
  \A g \in Groups, e \in Events :
    (e \in Range(topic)) ~> (FateOf(g, e) \in {"applied", "parked", "lost"})
=============================================================================
