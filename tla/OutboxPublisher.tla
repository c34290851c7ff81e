--------------------------- MODULE OutboxPublisher ---------------------------
(***************************************************************************)
(* The outbox publishers: each polls the OutboxEvent table, leases a batch *)
(* of due events, sends them to Kafka one after the other and marks every  *)
(* one published, or reschedules it when something failed.  A lease that   *)
(* has run out may be taken over by anybody, so a slow publisher works on  *)
(* with claims it no longer holds; nextAttemptAt is what tells them apart. *)
(*                                                                         *)
(* updateManyAndReturn and updateMany are taken to be atomic on each row.  *)
(***************************************************************************)
EXTENDS Integers, FiniteSets, FiniteSetsExt

CONSTANTS Events,         \* ids of OutboxEvent rows
          Publishers,     \* running publisher processes
          BatchSize,      \* BATCH_SIZE
          Lease,          \* PROCESSING_LEASE_MS, in clock ticks
          RetryBase,      \* RETRY_BASE_MS, in clock ticks
          RetryMax,       \* RETRY_MAX_MS, in clock ticks
          Horizon         \* bound on the clock of a run

Smaller(m, n) == IF m < n THEN m ELSE n

ASSUME OutboxAssumption ==
  /\ BatchSize \in Nat \ {0}
  /\ Lease \in Nat \ {0}
  /\ RetryMax \in Nat \ {0}
  /\ \A k \in 0..16 : RetryBase * 2 ^ k \in Nat \ {0}
  /\ Horizon \in Nat

VARIABLES status,         \* OutboxEvent.status, NONE before the row exists
          nextAttemptAt,  \* OutboxEvent.nextAttemptAt: due time or end of lease
          attempts,       \* OutboxEvent.attempts
          sent,           \* copies of each event in the topic
          now,            \* the wall clock
          pc,             \* what a publisher does next
          polledAt,       \* the clock a publisher read before it claims
          claims,         \* claimed events a publisher has not looked at yet
          current         \* the claimed event a publisher works on, as a set

rows == <<status, nextAttemptAt, attempts>>
vars == <<status, nextAttemptAt, attempts, sent, now, pc, polledAt, claims,
          current>>

Init ==
  /\ status = [e \in Events |-> "NONE"]
  /\ nextAttemptAt = [e \in Events |-> 0]
  /\ attempts = [e \in Events |-> 0]
  /\ sent = [e \in Events |-> 0]
  /\ now = 0
  /\ pc = [p \in Publishers |-> "poll"]
  /\ polledAt = [p \in Publishers |-> 0]
  /\ claims = [p \in Publishers |-> {}]
  /\ current = [p \in Publishers |-> {}]

-----------------------------------------------------------------------------

\* A business transaction commits an event; the row is due at once.
Store(e) ==
  /\ status[e] = "NONE"
  /\ status' = [status EXCEPT ![e] = "PENDING"]
  /\ nextAttemptAt' = [nextAttemptAt EXCEPT ![e] = now]
  /\ UNCHANGED <<attempts, sent, now, pc, polledAt, claims, current>>

Poll(p) ==
  /\ pc[p] = "poll"
  /\ polledAt' = [polledAt EXCEPT ![p] = now]
  /\ pc' = [pc EXCEPT ![p] = "claim"]
  /\ UNCHANGED <<rows, sent, now, claims, current>>

\* Mutant: the end of the lease of a claimed event is not waited for.
DueAnyway(t) ==
  {e \in Events : \/ status[e] = "PROCESSING"
                 \/ (status[e] = "PENDING" /\ nextAttemptAt[e] <= t)}

\* Pending events that are due, and claimed ones whose lease has run out.
DueAt(t) ==
  {e \in Events : status[e] \in {"PENDING", "PROCESSING"} /\ nextAttemptAt[e] <= t}

ClaimOf(e, lease) == [event |-> e, lease |-> lease, attempts |-> attempts[e] + 1]

Claim(p) ==
  LET due == DueAt(polledAt[p])
      lease == polledAt[p] + Lease
  IN  /\ pc[p] = "claim"
      /\ \E batch \in kSubset(Smaller(BatchSize, Cardinality(due)), due) :
           /\ status' = [e \in Events |->
                           IF e \in batch THEN "PROCESSING" ELSE status[e]]
           /\ attempts' = [e \in Events |->
                             IF e \in batch THEN attempts[e] + 1 ELSE attempts[e]]
           /\ nextAttemptAt' = [e \in Events |->
                                  IF e \in batch THEN lease ELSE nextAttemptAt[e]]
           /\ claims' = [claims EXCEPT ![p] = {ClaimOf(e, lease) : e \in batch}]
      /\ pc' = [pc EXCEPT ![p] = "next"]
      /\ UNCHANGED <<sent, now, polledAt, current>>

NextEvent(p) ==
  /\ pc[p] = "next"
  /\ \E c \in claims[p] :
       /\ current' = [current EXCEPT ![p] = {c}]
       /\ claims' = [claims EXCEPT ![p] = @ \ {c}]
  /\ pc' = [pc EXCEPT ![p] = "send"]
  /\ UNCHANGED <<rows, sent, now, polledAt>>

\* The broker takes the event; the acknowledgement may still get lost.
Send(p) ==
  /\ pc[p] = "send"
  /\ \E c \in current[p] : sent' = [sent EXCEPT ![c.event] = @ + 1]
  /\ \E step \in {"mark", "failed"} : pc' = [pc EXCEPT ![p] = step]
  /\ UNCHANGED <<rows, now, polledAt, claims, current>>

\* Mutant: a failed send is not noticed.
SendFailsSilently(p) ==
  /\ pc[p] = "send"
  /\ pc' = [pc EXCEPT ![p] = "mark"]
  /\ UNCHANGED <<rows, sent, now, polledAt, claims, current>>

SendFails(p) ==
  /\ pc[p] = "send"
  /\ pc' = [pc EXCEPT ![p] = "failed"]
  /\ UNCHANGED <<rows, sent, now, polledAt, claims, current>>

\* Mutant: the lease is compared, the status is not.
OwnsLease(c) == nextAttemptAt[c.event] = c.lease

\* The row is still the one that was claimed: nobody took it over or settled it.
Owns(c) ==
  status[c.event] = "PROCESSING" /\ nextAttemptAt[c.event] = c.lease

Done(p) ==
  /\ current' = [current EXCEPT ![p] = {}]
  /\ pc' = [pc EXCEPT ![p] = "next"]
  /\ UNCHANGED <<sent, now, polledAt, claims>>

Mark(p) ==
  /\ pc[p] = "mark"
  /\ \E c \in current[p] :
       status' = IF Owns(c) THEN [status EXCEPT ![c.event] = "PUBLISHED"] ELSE status
  /\ Done(p)
  /\ UNCHANGED <<nextAttemptAt, attempts>>

\* Mutant: the send is repeated under the same claim.
MarkFailsResending(p) ==
  /\ pc[p] = "mark"
  /\ pc' = [pc EXCEPT ![p] = "send"]
  /\ UNCHANGED <<rows, sent, now, polledAt, claims, current>>

\* The update itself failed: treated like a failed send.
MarkFails(p) ==
  /\ pc[p] = "mark"
  /\ pc' = [pc EXCEPT ![p] = "failed"]
  /\ UNCHANGED <<rows, sent, now, polledAt, claims, current>>

\* The update was applied and only its answer got lost.
MarkUnanswered(p) ==
  /\ pc[p] = "mark"
  /\ \E c \in current[p] :
       Owns(c) /\ status' = [status EXCEPT ![c.event] = "PUBLISHED"]
  /\ pc' = [pc EXCEPT ![p] = "failed"]
  /\ UNCHANGED <<nextAttemptAt, attempts, sent, now, polledAt, claims, current>>

\* Mutant: the back-off grows without a limit.
RetryDelayUncapped(n) == RetryBase * 2 ^ (IF n < 1 THEN 0 ELSE n - 1)

RetryDelay(n) ==
  Smaller(RetryBase * 2 ^ (IF n < 1 THEN 0 ELSE Smaller(n - 1, 16)), RetryMax)

Reschedule(p) ==
  /\ pc[p] = "failed"
  /\ \E c \in current[p] :
       IF Owns(c)
       THEN /\ status' = [status EXCEPT ![c.event] = "PENDING"]
            /\ nextAttemptAt' = [nextAttemptAt EXCEPT
                 ![c.event] = now + RetryDelay(c.attempts)]
       ELSE UNCHANGED <<status, nextAttemptAt>>
  /\ Done(p)
  /\ UNCHANGED attempts

EndBatch(p) ==
  /\ pc[p] = "next"
  /\ claims[p] = {}
  /\ pc' = [pc EXCEPT ![p] = "poll"]
  /\ UNCHANGED <<rows, sent, now, polledAt, claims, current>>

\* Mutant: the event in hand is not forgotten with the others.
AbandonRest(p) ==
  /\ pc[p] # "poll"
  /\ claims' = [claims EXCEPT ![p] = {}]
  /\ pc' = [pc EXCEPT ![p] = "poll"]
  /\ UNCHANGED <<rows, sent, now, polledAt, current>>

\* The process crashes or is told to stop, or rescheduling fails and ends the
\* iteration: the rest of the batch is forgotten and stays leased in the table.
Abandon(p) ==
  /\ pc[p] # "poll"
  /\ claims' = [claims EXCEPT ![p] = {}]
  /\ current' = [current EXCEPT ![p] = {}]
  /\ pc' = [pc EXCEPT ![p] = "poll"]
  /\ UNCHANGED <<rows, sent, now, polledAt>>

Tick ==
  /\ now < Horizon
  /\ now' = now + 1
  /\ UNCHANGED <<rows, sent, pc, polledAt, claims, current>>

Next ==
  \/ \E e \in Events : Store(e)
  \/ \E p \in Publishers :
       \/ Poll(p) \/ Claim(p) \/ NextEvent(p) \/ Send(p) \/ SendFails(p)
       \/ Mark(p) \/ MarkFails(p) \/ MarkUnanswered(p) \/ Reschedule(p)
       \/ EndBatch(p) \/ Abandon(p)
  \/ Tick

Spec == Init /\ [][Next]_vars

-----------------------------------------------------------------------------

ClaimType == [event: Events, lease: Int, attempts: Nat]

\* The type of every variable; a publisher works on one claim at a time.
TypeOK ==
  /\ status \in [Events -> {"NONE", "PENDING", "PROCESSING", "PUBLISHED"}]
  /\ nextAttemptAt \in [Events -> Int]
  /\ attempts \in [Events -> Nat]
  /\ sent \in [Events -> Nat]
  /\ now \in Nat
  /\ pc \in [Publishers -> {"poll", "claim", "next", "send", "mark", "failed"}]
  /\ polledAt \in [Publishers -> Nat]
  /\ claims \in [Publishers -> SUBSET ClaimType]
  /\ current \in [Publishers -> SUBSET ClaimType]
  /\ \A p \in Publishers :
       IF pc[p] \in {"send", "mark", "failed"}
       THEN \E c \in current[p] : current[p] = {c}
       ELSE current[p] = {}

Held(p) == claims[p] \cup current[p]

\* Fencing: of two publishers that both believe to have claimed an event, each has
\* a lease of its own, so the row can match one of them at most.  A publisher that
\* outlived its lease can neither mark nor reschedule what another one took over.
ClaimsAreFenced ==
  \A p, q \in Publishers : p # q =>
    \A c \in Held(p), d \in Held(q) : c.event = d.event => c.lease # d.lease

\* An event is marked published only after Kafka has it, whoever sent it.
PublishedWasSent == \A e \in Events : status[e] = "PUBLISHED" => sent[e] > 0

\* Crashes, lost acknowledgements and leases that run out repeat an event, but
\* never more often than it was claimed.
SentOncePerClaim == \A e \in Events : sent[e] <= attempts[e]

\* No crash, failure or lost lease strands an event: until it is published it is
\* due again after at most the lease or the longest back-off.
NeverStranded ==
  \A e \in Events : status[e] \in {"PENDING", "PROCESSING"} =>
    nextAttemptAt[e] <= now + Lease \/ nextAttemptAt[e] <= now + RetryMax

\* PUBLISHED is final, and an event once stored does not disappear.
PublishedIsFinal ==
  [][\A e \in Events : /\ status[e] = "PUBLISHED" => status'[e] = "PUBLISHED"
                       /\ status[e] # "NONE" => status'[e] # "NONE"]_vars
=============================================================================
