------------------------ MODULE OutboxPublisherProofs ------------------------
(***************************************************************************)
(* Theorems about OutboxPublisher, for any number of publishers and events *)
(* and any positive lease and retry delays.                                *)
(***************************************************************************)
EXTENDS OutboxPublisher, FiniteSetTheorems, TLAPS

\* A back-off is positive and never longer than RetryMax.
LEMMA RetryDelayRange ==
  ASSUME NEW n \in Nat
  PROVE  RetryDelay(n) \in 1..RetryMax
<1> DEFINE k == IF n < 1 THEN 0 ELSE Smaller(n - 1, 16)
<1>1. k \in 0..16
  BY DEF Smaller
<1>2. RetryBase * 2 ^ k \in Nat \ {0}
  BY <1>1, OutboxAssumption
<1>3. RetryMax \in Nat \ {0}
  BY OutboxAssumption
<1>4. Smaller(RetryBase * 2 ^ k, RetryMax) \in 1..RetryMax
  <2> HIDE DEF k
  <2>1. ASSUME NEW x \in Nat \ {0} PROVE Smaller(x, RetryMax) \in 1..RetryMax
    BY <1>3 DEF Smaller
  <2>2. QED
    BY <1>2, <2>1
<1>5. QED
  BY <1>4 DEF RetryDelay

\* A batch is a set of due events.
LEMMA BatchIsDue ==
  ASSUME NEW k, NEW S, NEW b \in kSubset(k, S)
  PROVE  b \subseteq S
BY DEF kSubset

\* The initial state is well typed.
LEMMA InitType == Init => TypeOK
BY DEF Init, TypeOK

\* Every step keeps the types.
LEMMA NextType == TypeOK /\ [Next]_vars => TypeOK'
<1> SUFFICES ASSUME TypeOK, [Next]_vars PROVE TypeOK'
  OBVIOUS
<1> USE DEF rows
<1>1. ASSUME NEW e \in Events, Store(e) PROVE TypeOK'
  BY <1>1 DEF Store, TypeOK
<1>2. ASSUME NEW p \in Publishers, Poll(p) PROVE TypeOK'
  BY <1>2 DEF Poll, TypeOK
<1>3. ASSUME NEW p \in Publishers, Claim(p) PROVE TypeOK'
  <2> DEFINE due == DueAt(polledAt[p])
             lease == polledAt[p] + Lease
  <2>1. PICK batch \in kSubset(Smaller(BatchSize, Cardinality(due)), due) :
          /\ status' = [e \in Events |->
                          IF e \in batch THEN "PROCESSING" ELSE status[e]]
          /\ attempts' = [e \in Events |->
                            IF e \in batch THEN attempts[e] + 1 ELSE attempts[e]]
          /\ nextAttemptAt' = [e \in Events |->
                                 IF e \in batch THEN lease ELSE nextAttemptAt[e]]
          /\ claims' = [claims EXCEPT ![p] = {ClaimOf(e, lease) : e \in batch}]
    BY <1>3 DEF Claim
  <2>2. batch \subseteq Events
    BY BatchIsDue DEF DueAt
  <2>3. lease \in Int
    BY OutboxAssumption DEF TypeOK
  <2>4. \A e \in batch : ClaimOf(e, lease) \in ClaimType
    BY <2>2, <2>3 DEF ClaimOf, ClaimType, TypeOK
  <2>5. claims' \in [Publishers -> SUBSET ClaimType]
    BY <2>1, <2>4 DEF TypeOK
  <2>6. /\ pc' = [pc EXCEPT ![p] = "next"] /\ pc[p] = "claim"
        /\ UNCHANGED <<sent, now, polledAt, current>>
    BY <1>3 DEF Claim
  <2>7. status' \in [Events -> {"NONE", "PENDING", "PROCESSING", "PUBLISHED"}]
    BY <2>1 DEF TypeOK
  <2>8. nextAttemptAt' \in [Events -> Int] /\ attempts' \in [Events -> Nat]
    BY <2>1, <2>3 DEF TypeOK
  <2>9. QED
    BY <2>5, <2>6, <2>7, <2>8 DEF TypeOK
<1>4. ASSUME NEW p \in Publishers, NextEvent(p) PROVE TypeOK'
  <2>1. claims' \in [Publishers -> SUBSET ClaimType]
    BY <1>4 DEF NextEvent, TypeOK
  <2>2. current' \in [Publishers -> SUBSET ClaimType]
    BY <1>4 DEF NextEvent, TypeOK
  <2>3. QED
    BY <1>4, <2>1, <2>2 DEF NextEvent, TypeOK
<1>5. ASSUME NEW p \in Publishers, Send(p) PROVE TypeOK'
  BY <1>5 DEF Send, TypeOK, ClaimType
<1>6. ASSUME NEW p \in Publishers, SendFails(p) \/ MarkFails(p) PROVE TypeOK'
  BY <1>6 DEF SendFails, MarkFails, TypeOK
<1>7. ASSUME NEW p \in Publishers, Mark(p) PROVE TypeOK'
  BY <1>7 DEF Mark, Done, TypeOK
<1>8. ASSUME NEW p \in Publishers, MarkUnanswered(p) PROVE TypeOK'
  BY <1>8 DEF MarkUnanswered, TypeOK
<1>9. ASSUME NEW p \in Publishers, Reschedule(p) PROVE TypeOK'
  <2>1. PICK c \in current[p] :
          IF Owns(c)
          THEN /\ status' = [status EXCEPT ![c.event] = "PENDING"]
               /\ nextAttemptAt' = [nextAttemptAt EXCEPT
                    ![c.event] = now + RetryDelay(c.attempts)]
          ELSE UNCHANGED <<status, nextAttemptAt>>
    BY <1>9 DEF Reschedule
  <2>2. c.attempts \in Nat
    BY DEF TypeOK, ClaimType
  <2>3. now + RetryDelay(c.attempts) \in Int
    BY <2>2, RetryDelayRange DEF TypeOK
  <2>4. nextAttemptAt' \in [Events -> Int]
    BY <2>1, <2>3 DEF TypeOK
  <2>5. QED
    BY <1>9, <2>1, <2>4 DEF Reschedule, Done, TypeOK
<1>10. ASSUME NEW p \in Publishers, EndBatch(p) \/ Abandon(p) PROVE TypeOK'
  BY <1>10 DEF EndBatch, Abandon, TypeOK
<1>11. CASE Tick
  BY <1>11 DEF Tick, TypeOK
<1>12. CASE UNCHANGED vars
  BY <1>12 DEF vars, TypeOK
<1>13. QED
  BY <1>1, <1>2, <1>3, <1>4, <1>5, <1>6, <1>7, <1>8, <1>9, <1>10, <1>11, <1>12
  DEF Next

\* Every variable keeps its type.
THEOREM TypeCorrect == Spec => []TypeOK
BY InitType, NextType, PTL DEF Spec
-----------------------------------------------------------------------------
(* Fencing *)

\* No step removes an event.
StoredStays == \A e \in Events : status[e] # "NONE" => status'[e] # "NONE"

\* No claim reaches further than a lease taken now, and the next lease of the
\* event will reach further than every claim still held on it.
Bounded(c) == /\ status[c.event] # "NONE"
              /\ c.lease <= now + Lease
              /\ c.lease < nextAttemptAt[c.event] + Lease

ClaimsBounded ==
  /\ \A p \in Publishers : polledAt[p] <= now
  /\ \A p \in Publishers : \A c \in Held(p) : Bounded(c)
  /\ \A p \in Publishers : pc[p] \in {"poll", "claim"} => claims[p] = {}

Fencing == ClaimsBounded /\ ClaimsAreFenced

\* A step that takes no new claim and moves no lease keeps the fencing.
LEMMA NoNewClaim ==
  ASSUME TypeOK, TypeOK', Fencing, nextAttemptAt' = nextAttemptAt,
         now' >= now, StoredStays,
         \A p \in Publishers : Held(p)' \subseteq Held(p),
         \A p \in Publishers : polledAt'[p] <= now',
         \A p \in Publishers : pc'[p] \in {"poll", "claim"} => claims'[p] = {}
  PROVE  Fencing'
<1>1. Lease \in Nat
  BY OutboxAssumption
<1>2. \A p \in Publishers : Held(p) \subseteq ClaimType
  BY DEF Held, TypeOK
<1>3. ASSUME NEW p \in Publishers, NEW c \in Held(p)' PROVE Bounded(c)'
  <2>1. c \in Held(p) /\ Bounded(c) /\ c.lease \in Int /\ c.event \in Events
    BY <1>2, <1>3 DEF Fencing, ClaimsBounded, ClaimType
  <2>2. now \in Nat /\ now' \in Nat /\ nextAttemptAt[c.event] \in Int
    BY <2>1 DEF TypeOK
  <2>3. QED
    BY <1>1, <2>1, <2>2 DEF Bounded, StoredStays
<1>4. ClaimsAreFenced'
  BY DEF Fencing, ClaimsAreFenced
<1>5. QED
  BY <1>3, <1>4 DEF Fencing, ClaimsBounded

\* A new claim has a lease that nobody holds on its event.
LEMMA NewClaim ==
  ASSUME TypeOK, TypeOK', Fencing, NEW p \in Publishers, Claim(p)
  PROVE  Fencing'
<1> DEFINE due == DueAt(polledAt[p])
           lease == polledAt[p] + Lease
<1>0. PICK batch \in kSubset(Smaller(BatchSize, Cardinality(due)), due) :
        /\ nextAttemptAt' = [e \in Events |->
                               IF e \in batch THEN lease ELSE nextAttemptAt[e]]
        /\ claims' = [claims EXCEPT ![p] = {ClaimOf(e, lease) : e \in batch}]
        /\ status' = [e \in Events |->
                        IF e \in batch THEN "PROCESSING" ELSE status[e]]
  BY DEF Claim
<1>1. /\ Lease \in Nat \ {0} /\ now \in Nat /\ polledAt[p] \in Nat
      /\ polledAt[p] <= now /\ now' = now /\ polledAt' = polledAt
      /\ pc' = [pc EXCEPT ![p] = "next"] /\ current' = current
      /\ pc[p] = "claim" /\ current[p] = {}
  BY OutboxAssumption DEF TypeOK, Fencing, ClaimsBounded, Claim
<1>2. batch \subseteq due /\ batch \subseteq Events
  BY BatchIsDue DEF DueAt
<1>3. \A e \in batch : nextAttemptAt[e] <= polledAt[p] /\ nextAttemptAt[e] \in Int
  BY <1>2 DEF DueAt, TypeOK
<1>4. \A q \in Publishers : Held(q) \subseteq ClaimType
  BY DEF Held, TypeOK
<1>5. \A q \in Publishers \ {p} : Held(q)' = Held(q)
  BY <1>0, <1>1 DEF Held, TypeOK
<1>6. \A c \in Held(p)' : c.event \in batch /\ c.lease = lease
  BY <1>0, <1>1 DEF Held, ClaimOf, TypeOK
<1>7. ASSUME NEW q \in Publishers, NEW c \in Held(q)' PROVE Bounded(c)'
  <2>1. CASE q = p
    <3>1. /\ nextAttemptAt'[c.event] = lease /\ c.lease = lease
          /\ status'[c.event] # "NONE"
      BY <1>0, <1>2, <1>6, <1>7, <2>1
    <3>2. QED
      BY <1>1, <3>1 DEF Bounded
  <2>2. CASE q # p
    <3>1. c \in Held(q) /\ c.event \in Events /\ c.lease \in Int /\ Bounded(c)
      BY <1>4, <1>5, <1>7, <2>2 DEF ClaimType, Fencing, ClaimsBounded
    <3>2. nextAttemptAt[c.event] \in Int
      BY <3>1 DEF TypeOK
    <3>3. CASE c.event \in batch
      <4>1. c.lease < polledAt[p] + Lease
        BY <1>1, <1>3, <3>1, <3>2, <3>3 DEF Bounded
      <4>2. nextAttemptAt'[c.event] = lease /\ status'[c.event] # "NONE"
        BY <1>0, <3>1, <3>3
      <4>3. QED
        BY <1>1, <3>1, <4>1, <4>2 DEF Bounded
    <3>4. CASE c.event \notin batch
      BY <1>0, <1>1, <3>1, <3>4 DEF Bounded
    <3>5. QED
      BY <3>3, <3>4
  <2>3. QED
    BY <2>1, <2>2
<1>8. ASSUME NEW q \in Publishers \ {p}, NEW c \in Held(p)', NEW d \in Held(q)',
             c.event = d.event
      PROVE  c.lease # d.lease
  <2>1. d \in Held(q) /\ d.lease \in Int /\ Bounded(d)
    BY <1>4, <1>5, <1>8 DEF ClaimType, Fencing, ClaimsBounded
  <2>2. d.lease < polledAt[p] + Lease
    BY <1>1, <1>3, <1>6, <1>8, <2>1 DEF Bounded
  <2>3. QED
    BY <1>1, <1>6, <2>1, <2>2
<1>9. ClaimsAreFenced'
  <2>1. ASSUME NEW q \in Publishers, NEW r \in Publishers, q # r,
               NEW c \in Held(q)', NEW d \in Held(r)', c.event = d.event
        PROVE  c.lease # d.lease
    <3>1. CASE q = p
      BY <1>8, <2>1, <3>1
    <3>2. CASE r = p
      BY <1>8, <2>1, <3>2
    <3>3. CASE q # p /\ r # p
      BY <1>5, <2>1, <3>3 DEF Fencing, ClaimsAreFenced
    <3>4. QED
      BY <3>1, <3>2, <3>3
  <2>2. QED
    BY <2>1 DEF ClaimsAreFenced
<1>10. \A q \in Publishers : /\ polledAt'[q] <= now'
                             /\ pc'[q] \in {"poll", "claim"} => claims'[q] = {}
  BY <1>0, <1>1 DEF Fencing, ClaimsBounded, TypeOK
<1>11. QED
  BY <1>7, <1>9, <1>10 DEF Fencing, ClaimsBounded

\* Rescheduling moves an event to the future, so later leases reach further.
LEMMA RescheduleFences ==
  ASSUME TypeOK, TypeOK', Fencing, NEW p \in Publishers, Reschedule(p)
  PROVE  Fencing'
<1>1. PICK k \in current[p] :
        IF Owns(k)
        THEN /\ status' = [status EXCEPT ![k.event] = "PENDING"]
             /\ nextAttemptAt' = [nextAttemptAt EXCEPT
                  ![k.event] = now + RetryDelay(k.attempts)]
        ELSE UNCHANGED <<status, nextAttemptAt>>
  BY DEF Reschedule
<1>2. k.event \in Events /\ RetryDelay(k.attempts) \in Nat \ {0}
  <2>1. k.event \in Events /\ k.attempts \in Nat
    BY DEF TypeOK, ClaimType
  <2>2. QED
    BY <2>1, RetryDelayRange, OutboxAssumption
<1>3. /\ now' = now /\ now \in Nat /\ Lease \in Nat \ {0} /\ polledAt' = polledAt
      /\ claims' = claims /\ current' = [current EXCEPT ![p] = {}]
      /\ pc' = [pc EXCEPT ![p] = "next"]
  BY OutboxAssumption DEF TypeOK, Reschedule, Done
<1>4. \A q \in Publishers : Held(q)' \subseteq Held(q) /\ Held(q) \subseteq ClaimType
  BY <1>3 DEF Held, TypeOK
<1>5. ASSUME NEW q \in Publishers, NEW c \in Held(q)' PROVE Bounded(c)'
  <2>1. /\ Bounded(c) /\ c.event \in Events /\ c.lease \in Int
        /\ nextAttemptAt[c.event] \in Int
    BY <1>4, <1>5 DEF Fencing, ClaimsBounded, ClaimType, TypeOK
  <2>2. \/ nextAttemptAt'[c.event] = nextAttemptAt[c.event]
        \/ nextAttemptAt'[c.event] = now + RetryDelay(k.attempts)
    BY <1>1, <2>1 DEF TypeOK
  <2>3. status'[c.event] # "NONE"
    <3>1. status[c.event] # "NONE"
      BY <2>1 DEF Bounded
    <3>2. \/ status' = [status EXCEPT ![k.event] = "PENDING"]
          \/ status' = status
      BY <1>1
    <3>3. QED
      BY <1>2, <2>1, <3>1, <3>2 DEF TypeOK
  <2>4. c.lease <= now + Lease /\ c.lease < nextAttemptAt[c.event] + Lease
    BY <2>1 DEF Bounded
  <2>5. c.lease < nextAttemptAt'[c.event] + Lease
    <3>1. ASSUME NEW d \in Nat \ {0}, nextAttemptAt'[c.event] = now + d
          PROVE  c.lease < nextAttemptAt'[c.event] + Lease
      BY <1>3, <2>1, <2>4, <3>1
    <3>2. QED
      BY <1>2, <2>2, <2>4, <3>1
  <2>6. QED
    BY <1>3, <2>3, <2>4, <2>5 DEF Bounded
<1>6. ClaimsAreFenced'
  BY <1>4 DEF Fencing, ClaimsAreFenced
<1>7. \A q \in Publishers : /\ polledAt'[q] <= now'
                            /\ pc'[q] \in {"poll", "claim"} => claims'[q] = {}
  BY <1>3 DEF Fencing, ClaimsBounded, TypeOK
<1>8. QED
  BY <1>5, <1>6, <1>7 DEF Fencing, ClaimsBounded

\* Every step keeps the fencing.
LEMMA NextFencing == TypeOK /\ Fencing /\ [Next]_vars => Fencing'
<1> SUFFICES ASSUME TypeOK, Fencing, [Next]_vars PROVE Fencing'
  OBVIOUS
<1>0. TypeOK'
  BY NextType
<1> USE DEF rows
<1>1. ASSUME NEW e \in Events, Store(e) PROVE Fencing'
  <2>1. ASSUME NEW q \in Publishers, NEW c \in Held(q)' PROVE Bounded(c)'
    <3>1. /\ c \in Held(q) /\ Bounded(c) /\ c.event \in Events /\ c.lease \in Int
          /\ nextAttemptAt[c.event] \in Int /\ now \in Nat /\ now' = now
      BY <1>1, <2>1 DEF Store, Held, Fencing, ClaimsBounded, ClaimType, TypeOK
    <3>2. c.event # e
      BY <1>1, <3>1 DEF Store, Bounded
    <3>3. QED
      BY <1>1, <3>1, <3>2 DEF Store, Bounded, TypeOK
  <2>2. QED
    BY <1>1, <2>1 DEF Store, Fencing, ClaimsBounded, ClaimsAreFenced, Held
<1>2. ASSUME NEW p \in Publishers, Poll(p) PROVE Fencing'
  <2>1. \A q \in Publishers : Held(q)' = Held(q)
    BY <1>2 DEF Poll, Held
  <2>2. \A q \in Publishers : /\ polledAt'[q] <= now'
                              /\ pc'[q] \in {"poll", "claim"} => claims'[q] = {}
    BY <1>2 DEF Poll, Fencing, ClaimsBounded, TypeOK
  <2>3. QED
    BY <1>0, <1>2, <2>1, <2>2, NoNewClaim DEF Poll, TypeOK, StoredStays
<1>3. ASSUME NEW p \in Publishers, Claim(p) PROVE Fencing'
  BY <1>0, <1>3, NewClaim
<1>4. ASSUME NEW p \in Publishers, Reschedule(p) PROVE Fencing'
  BY <1>0, <1>4, RescheduleFences
<1>5. ASSUME NEW p \in Publishers,
             \/ NextEvent(p) \/ Send(p) \/ SendFails(p) \/ Mark(p) \/ MarkFails(p)
             \/ MarkUnanswered(p) \/ EndBatch(p) \/ Abandon(p)
      PROVE  Fencing'
  <2>1. UNCHANGED <<nextAttemptAt, now, polledAt>>
    BY <1>5 DEF NextEvent, Send, SendFails, Mark, Done, MarkFails,
       MarkUnanswered, EndBatch, Abandon
  <2>2. \A q \in Publishers : Held(q)' \subseteq Held(q)
    BY <1>5 DEF NextEvent, Send, SendFails, Mark, Done, MarkFails,
       MarkUnanswered, EndBatch, Abandon, Held, TypeOK
  <2>3. \A q \in Publishers : pc'[q] \in {"poll", "claim"} => claims'[q] = {}
    BY <1>5 DEF NextEvent, Send, SendFails, Mark, Done, MarkFails,
       MarkUnanswered, EndBatch, Abandon, Fencing, ClaimsBounded, TypeOK
  <2>4. \A q \in Publishers : polledAt'[q] <= now'
    BY <2>1 DEF Fencing, ClaimsBounded
  <2>5. now' >= now
    BY <2>1 DEF TypeOK
  <2>6. StoredStays
    BY <1>5 DEF NextEvent, Send, SendFails, Mark, Done, MarkFails,
       MarkUnanswered, EndBatch, Abandon, StoredStays, TypeOK
  <2>7. QED
    BY <1>0, <2>1, <2>2, <2>3, <2>4, <2>5, <2>6, NoNewClaim
<1>6. CASE Tick \/ UNCHANGED vars
  <2>1. /\ UNCHANGED <<nextAttemptAt, polledAt, claims, current, pc>>
        /\ now' >= now /\ now \in Nat /\ now' \in Nat
    BY <1>0, <1>6 DEF Tick, vars, TypeOK
  <2>2. \A q \in Publishers : polledAt'[q] <= now'
    BY <2>1 DEF Fencing, ClaimsBounded, TypeOK
  <2>3. \A q \in Publishers : Held(q)' \subseteq Held(q)
    BY <2>1 DEF Held
  <2>4. StoredStays
    BY <1>6 DEF Tick, vars, StoredStays
  <2>5. QED
    BY <1>0, <2>1, <2>2, <2>3, <2>4, NoNewClaim DEF Fencing, ClaimsBounded
<1>7. QED
  BY <1>1, <1>2, <1>3, <1>4, <1>5, <1>6 DEF Next

\* Two publishers never hold the same lease on the same event, so at most one of
\* them can mark it published or reschedule it.
THEOREM LeasesAreUnique == Spec => []ClaimsAreFenced
<1>1. Init => Fencing
  BY DEF Init, Fencing, ClaimsBounded, ClaimsAreFenced, Held
<1>2. TypeOK /\ Fencing /\ [Next]_vars => (TypeOK /\ Fencing)'
  BY NextType, NextFencing
<1>3. TypeOK /\ Fencing => ClaimsAreFenced
  BY DEF Fencing
<1>4. QED
  BY <1>1, <1>2, <1>3, InitType, PTL DEF Spec
-----------------------------------------------------------------------------
(* What becomes of an event *)

\* Published is final whatever the other publishers do: a claim takes only rows
\* that are due, a reschedule only one that is still processing.
THEOREM PublishingIsFinal == Spec => PublishedIsFinal
<1> DEFINE Keeps == \A e \in Events :
             /\ status[e] = "PUBLISHED" => status'[e] = "PUBLISHED"
             /\ status[e] # "NONE" => status'[e] # "NONE"
<1>1. ASSUME TypeOK, [Next]_vars PROVE Keeps
  <2> USE DEF rows
  <2>1. ASSUME NEW e \in Events, Store(e) PROVE Keeps
    BY <1>1, <2>1 DEF Store, TypeOK
  <2>2. ASSUME NEW p \in Publishers, Claim(p) PROVE Keeps
    <3>1. PICK batch \in kSubset(Smaller(BatchSize,
                              Cardinality(DueAt(polledAt[p]))), DueAt(polledAt[p])) :
            status' = [e \in Events |->
                         IF e \in batch THEN "PROCESSING" ELSE status[e]]
      BY <2>2 DEF Claim
    <3>2. \A e \in batch : status[e] # "PUBLISHED"
      BY BatchIsDue DEF DueAt
    <3>3. QED
      BY <3>1, <3>2
  <2>3. ASSUME NEW p \in Publishers, Mark(p) \/ MarkUnanswered(p) PROVE Keeps
    BY <1>1, <2>3 DEF Mark, MarkUnanswered, TypeOK, ClaimType
  <2>4. ASSUME NEW p \in Publishers, Reschedule(p) PROVE Keeps
    BY <1>1, <2>4 DEF Reschedule, Owns, TypeOK, ClaimType
  <2>5. ASSUME NEW p \in Publishers,
               \/ Poll(p) \/ NextEvent(p) \/ Send(p) \/ SendFails(p)
               \/ MarkFails(p) \/ EndBatch(p) \/ Abandon(p)
        PROVE  Keeps
    BY <2>5 DEF Poll, NextEvent, Send, SendFails, MarkFails, EndBatch, Abandon
  <2>6. CASE Tick \/ UNCHANGED vars
    BY <2>6 DEF Tick, vars
  <2>7. QED
    BY <1>1, <2>1, <2>2, <2>3, <2>4, <2>5, <2>6 DEF Next
<1>2. TypeOK /\ [Next]_vars => [Keeps]_vars
  BY <1>1
<1>3. QED
  BY <1>2, TypeCorrect, PTL DEF PublishedIsFinal, Spec

\* What a publisher is about to mark has been sent.
MarksWereSent ==
  \A p \in Publishers : pc[p] = "mark" => \A c \in current[p] : sent[c.event] > 0

\* Every step keeps published, and nearly published, events in the topic.
LEMMA NextSent ==
  TypeOK /\ PublishedWasSent /\ MarksWereSent /\ [Next]_vars
    => PublishedWasSent' /\ MarksWereSent'
<1> SUFFICES ASSUME TypeOK, PublishedWasSent, MarksWereSent, [Next]_vars
             PROVE  PublishedWasSent' /\ MarksWereSent'
  OBVIOUS
<1> USE DEF rows, PublishedWasSent, MarksWereSent
<1>1. ASSUME NEW e \in Events, Store(e) PROVE PublishedWasSent' /\ MarksWereSent'
  BY <1>1 DEF Store, TypeOK
<1>2. ASSUME NEW p \in Publishers, Claim(p)
      PROVE  PublishedWasSent' /\ MarksWereSent'
  <2>1. PICK batch :
          status' = [e \in Events |->
                       IF e \in batch THEN "PROCESSING" ELSE status[e]]
    BY <1>2 DEF Claim
  <2>2. sent' = sent /\ current' = current /\ pc' = [pc EXCEPT ![p] = "next"]
    BY <1>2 DEF Claim
  <2>3. QED
    BY <2>1, <2>2 DEF TypeOK
<1>3. ASSUME NEW p \in Publishers, Send(p)
      PROVE  PublishedWasSent' /\ MarksWereSent'
  <2>1. PICK c \in current[p] : sent' = [sent EXCEPT ![c.event] = @ + 1]
    BY <1>3 DEF Send
  <2>2. \A e \in Events : /\ sent[e] \in Nat /\ sent'[e] \in Nat
                          /\ sent'[e] >= sent[e]
    BY <2>1 DEF TypeOK
  <2>3. sent'[c.event] > 0 /\ current[p] = {c}
    BY <1>3, <2>1 DEF Send, TypeOK, ClaimType
  <2>4. status' = status /\ current' = current
        /\ \A q \in Publishers \ {p} : pc'[q] = pc[q]
    BY <1>3 DEF Send, TypeOK
  <2>5. PublishedWasSent'
    BY <2>2, <2>4
  <2>6. ASSUME NEW q \in Publishers, pc'[q] = "mark", NEW d \in current[q]
        PROVE  sent'[d.event] > 0
    <3>1. CASE q = p
      <4>1. d = c
        BY <2>3, <2>6, <3>1
      <4>2. QED
        BY <2>3, <4>1
    <3>2. CASE q # p
      <4>1. sent[d.event] > 0 /\ d.event \in Events
        BY <2>4, <2>6, <3>2 DEF TypeOK, ClaimType
      <4>2. QED
        BY <2>2, <4>1
    <3>3. QED
      BY <3>1, <3>2
  <2>7. QED
    BY <2>4, <2>5, <2>6
<1>4. ASSUME NEW p \in Publishers, Mark(p) \/ MarkUnanswered(p)
      PROVE  PublishedWasSent' /\ MarksWereSent'
  <2>1. PICK c \in current[p] :
          status' \in {status, [status EXCEPT ![c.event] = "PUBLISHED"]}
    BY <1>4 DEF Mark, MarkUnanswered
  <2>2. sent[c.event] > 0
    BY <1>4, <2>1 DEF Mark, MarkUnanswered
  <2>3. sent' = sent
    BY <1>4 DEF Mark, MarkUnanswered, Done
  <2>4. PublishedWasSent'
    BY <2>1, <2>2, <2>3 DEF TypeOK
  <2>5. MarksWereSent'
    BY <1>4, <2>3 DEF Mark, MarkUnanswered, Done, TypeOK
  <2>6. QED
    BY <2>4, <2>5
<1>5. ASSUME NEW p \in Publishers, Reschedule(p)
      PROVE  PublishedWasSent' /\ MarksWereSent'
  <2>1. PICK c \in current[p] :
          status' \in {status, [status EXCEPT ![c.event] = "PENDING"]}
    BY <1>5 DEF Reschedule
  <2>2. sent' = sent /\ pc' = [pc EXCEPT ![p] = "next"]
        /\ current' = [current EXCEPT ![p] = {}]
    BY <1>5 DEF Reschedule, Done
  <2>3. QED
    BY <2>1, <2>2 DEF TypeOK
<1>6. ASSUME NEW p \in Publishers,
             \/ Poll(p) \/ NextEvent(p) \/ SendFails(p)
             \/ MarkFails(p) \/ EndBatch(p) \/ Abandon(p)
      PROVE  PublishedWasSent' /\ MarksWereSent'
  <2>1. UNCHANGED <<status, sent>>
    BY <1>6 DEF Poll, NextEvent, SendFails, MarkFails, EndBatch, Abandon
  <2>2. MarksWereSent'
    BY <1>6 DEF Poll, NextEvent, SendFails, MarkFails, EndBatch, Abandon, TypeOK
  <2>3. QED
    BY <2>1, <2>2
<1>7. CASE Tick \/ UNCHANGED vars
  BY <1>7 DEF Tick, vars
<1>8. QED
  BY <1>1, <1>2, <1>3, <1>4, <1>5, <1>6, <1>7 DEF Next

\* An event that is marked published is in the topic.
THEOREM PublishedAreSent == Spec => []PublishedWasSent
<1>1. Init => PublishedWasSent /\ MarksWereSent
  BY DEF Init, PublishedWasSent, MarksWereSent
<1>2. QED
  BY <1>1, NextSent, TypeCorrect, PTL DEF Spec

\* Every step leaves an unpublished event due within a lease or a back-off.
LEMMA NextStranded ==
  TypeOK /\ ClaimsBounded /\ NeverStranded /\ [Next]_vars => NeverStranded'
<1> SUFFICES ASSUME TypeOK, ClaimsBounded, NeverStranded, [Next]_vars,
                    NEW e \in Events, status'[e] \in {"PENDING", "PROCESSING"}
             PROVE  \/ nextAttemptAt'[e] <= now' + Lease
                    \/ nextAttemptAt'[e] <= now' + RetryMax
  BY DEF NeverStranded
<1> DEFINE Soon == \/ nextAttemptAt'[e] <= now' + Lease
                   \/ nextAttemptAt'[e] <= now' + RetryMax
<1>0. /\ Lease \in Nat \ {0} /\ RetryMax \in Nat \ {0}
      /\ now \in Nat /\ now' \in Nat /\ now' >= now
      /\ nextAttemptAt[e] \in Int
  <2>1. now' \in {now, now + 1}
    BY DEF Next, rows, vars, Store, Poll, Claim, NextEvent, Send, SendFails, Mark,
       MarkFails, MarkUnanswered, Reschedule, Done, EndBatch, Abandon, Tick
  <2>2. QED
    BY <2>1, OutboxAssumption DEF TypeOK
<1>1. ASSUME status[e] \in {"PENDING", "PROCESSING"},
             nextAttemptAt'[e] = nextAttemptAt[e]
      PROVE  Soon
  BY <1>0, <1>1 DEF NeverStranded
<1>2. ASSUME NEW f \in Events, Store(f) PROVE Soon
  BY <1>0, <1>1, <1>2 DEF Store, TypeOK
<1>3. ASSUME NEW p \in Publishers, Claim(p) PROVE Soon
  <2>1. PICK batch :
          /\ nextAttemptAt' = [f \in Events |-> IF f \in batch
                                 THEN polledAt[p] + Lease ELSE nextAttemptAt[f]]
          /\ status' = [f \in Events |->
                          IF f \in batch THEN "PROCESSING" ELSE status[f]]
    BY <1>3 DEF Claim
  <2>2. polledAt[p] <= now /\ polledAt[p] \in Nat /\ now' = now
    BY <1>3 DEF ClaimsBounded, Claim, TypeOK
  <2>3. CASE e \in batch
    BY <1>0, <2>1, <2>2, <2>3
  <2>4. CASE e \notin batch
    BY <1>1, <2>1, <2>4
  <2>5. QED
    BY <2>3, <2>4
<1>4. ASSUME NEW p \in Publishers, Reschedule(p) PROVE Soon
  <2>1. PICK c \in current[p] :
          \/ UNCHANGED <<status, nextAttemptAt>>
          \/ /\ status' = [status EXCEPT ![c.event] = "PENDING"]
             /\ nextAttemptAt' = [nextAttemptAt EXCEPT
                  ![c.event] = now + RetryDelay(c.attempts)]
    BY <1>4 DEF Reschedule
  <2>2. RetryDelay(c.attempts) \in 1..RetryMax /\ c.event \in Events
    BY RetryDelayRange DEF TypeOK, ClaimType
  <2>3. CASE nextAttemptAt'[e] = now + RetryDelay(c.attempts)
    BY <1>0, <2>2, <2>3
  <2>4. CASE nextAttemptAt'[e] = nextAttemptAt[e] /\ status'[e] = status[e]
    BY <1>1, <2>4
  <2>5. QED
    BY <2>1, <2>2, <2>3, <2>4 DEF TypeOK
<1>5. ASSUME NEW p \in Publishers,
             \/ Poll(p) \/ NextEvent(p) \/ Send(p) \/ SendFails(p) \/ Mark(p)
             \/ MarkFails(p) \/ MarkUnanswered(p) \/ EndBatch(p) \/ Abandon(p)
      PROVE  Soon
  <2>1. nextAttemptAt' = nextAttemptAt
    BY <1>5 DEF rows, Poll, NextEvent, Send, SendFails, Mark, MarkFails,
       MarkUnanswered, EndBatch, Abandon
  <2>2. status[e] \in {"PENDING", "PROCESSING"}
    BY <1>5 DEF rows, Poll, NextEvent, Send, SendFails, Mark, MarkFails,
       MarkUnanswered, EndBatch, Abandon, TypeOK, ClaimType
  <2>3. QED
    BY <1>1, <2>1, <2>2
<1>6. CASE Tick \/ UNCHANGED vars
  BY <1>1, <1>6 DEF Tick, vars, rows
<1>7. QED
  BY <1>2, <1>3, <1>4, <1>5, <1>6 DEF Next

\* Whatever fails, an event that is not published yet is due again in time.
THEOREM NothingStranded == Spec => []NeverStranded
<1>1. Init => NeverStranded /\ Fencing
  BY DEF Init, NeverStranded, Fencing, ClaimsBounded, ClaimsAreFenced, Held
<1>2. TypeOK /\ Fencing /\ NeverStranded /\ [Next]_vars
        => (TypeOK /\ Fencing /\ NeverStranded)'
  BY NextType, NextFencing, NextStranded DEF Fencing
<1>3. QED
  BY <1>1, <1>2, InitType, PTL DEF Spec
-----------------------------------------------------------------------------
(* How often an event is sent *)

\* What a publisher has claimed and may still send.
Unsent(p) == claims[p] \cup (IF pc[p] = "send" THEN current[p] ELSE {})

Senders(e) == {p \in Publishers : \E c \in Unsent(p) : c.event = e}

\* A publisher has one claim at most on an event, and sends it once.
ClaimsAreSingle ==
  \A p \in Publishers :
    /\ \A c, d \in Unsent(p) : c.event = d.event => c = d
    /\ pc[p] = "send" => claims[p] \cap current[p] = {}

\* Every claim pays for one sending, either done or still possible.
ClaimsPay ==
  \A e \in Events : /\ IsFiniteSet(Senders(e))
                    /\ sent[e] + Cardinality(Senders(e)) <= attempts[e]

Paid == ClaimsBounded /\ ClaimsAreSingle /\ ClaimsPay

\* Fewer publishers that may send an event cannot make it dearer.
LEMMA FewerSenders ==
  ASSUME TypeOK, ClaimsPay, UNCHANGED <<sent, attempts>>,
         \A p \in Publishers : Unsent(p)' \subseteq Unsent(p)
  PROVE  ClaimsPay'
<1> SUFFICES ASSUME NEW e \in Events
             PROVE  /\ IsFiniteSet(Senders(e)')
                    /\ sent'[e] + Cardinality(Senders(e)') <= attempts'[e]
  BY DEF ClaimsPay
<1>1. Senders(e)' \in SUBSET Senders(e)
  BY DEF Senders
<1>2. /\ IsFiniteSet(Senders(e)) /\ Cardinality(Senders(e)) \in Nat
      /\ sent[e] + Cardinality(Senders(e)) <= attempts[e]
  BY FS_CardinalityType DEF ClaimsPay
<1>3. /\ IsFiniteSet(Senders(e)') /\ Cardinality(Senders(e)') \in Nat
      /\ Cardinality(Senders(e)') <= Cardinality(Senders(e))
  BY <1>1, <1>2, FS_Subset, FS_CardinalityType
<1>4. sent[e] \in Nat /\ attempts[e] \in Nat
  BY DEF TypeOK
<1>5. QED
  BY <1>2, <1>3, <1>4

\* A claim adds its publisher to those that may send, and one to the attempts.
LEMMA ClaimIsPaid ==
  ASSUME TypeOK, Paid, NEW p \in Publishers, Claim(p)
  PROVE  ClaimsAreSingle' /\ ClaimsPay'
<1> DEFINE due == DueAt(polledAt[p])
           lease == polledAt[p] + Lease
<1>1. PICK batch \in kSubset(Smaller(BatchSize, Cardinality(due)), due) :
        /\ attempts' = [e \in Events |->
                          IF e \in batch THEN attempts[e] + 1 ELSE attempts[e]]
        /\ claims' = [claims EXCEPT ![p] = {ClaimOf(e, lease) : e \in batch}]
  BY DEF Claim
<1>2. /\ pc[p] = "claim" /\ pc' = [pc EXCEPT ![p] = "next"]
      /\ sent' = sent /\ current' = current
  BY DEF Claim
<1>3. \A q \in Publishers \ {p} : Unsent(q)' = Unsent(q)
  BY <1>1, <1>2 DEF Unsent, TypeOK
<1>4. Unsent(p)' = {ClaimOf(e, lease) : e \in batch} /\ Unsent(p) = {}
  BY <1>1, <1>2 DEF Unsent, TypeOK, Paid, ClaimsBounded
<1>5. ClaimsAreSingle'
  <2>1. \A c, d \in Unsent(p)' : c.event = d.event => c = d
    BY <1>4 DEF ClaimOf
  <2>2. \A q \in Publishers \ {p} : pc'[q] = pc[q] /\ claims'[q] = claims[q]
    BY <1>1, <1>2 DEF TypeOK
  <2>3. pc'[p] # "send"
    BY <1>2 DEF TypeOK
  <2>4. QED
    BY <1>2, <1>3, <2>1, <2>2, <2>3 DEF ClaimsAreSingle, Paid
<1>6. ASSUME NEW e \in Events
      PROVE  /\ IsFiniteSet(Senders(e)')
             /\ sent'[e] + Cardinality(Senders(e)') <= attempts'[e]
  <2>1. /\ IsFiniteSet(Senders(e)) /\ Cardinality(Senders(e)) \in Nat
        /\ sent[e] + Cardinality(Senders(e)) <= attempts[e]
        /\ sent[e] \in Nat /\ attempts[e] \in Nat
    BY FS_CardinalityType DEF Paid, ClaimsPay, TypeOK
  <2>2. CASE e \in batch
    <3>1. Senders(e)' = Senders(e) \cup {p}
      <4>1. ClaimOf(e, lease).event = e /\ ClaimOf(e, lease) \in Unsent(p)'
        BY <1>4, <2>2 DEF ClaimOf
      <4>2. p \in Senders(e)'
        BY <4>1 DEF Senders
      <4>3. \A q \in Publishers \ {p} : q \in Senders(e)' <=> q \in Senders(e)
        BY <1>3 DEF Senders
      <4>4. Senders(e) \subseteq Publishers /\ Senders(e)' \subseteq Publishers
        BY DEF Senders
      <4>5. QED
        BY <4>2, <4>3, <4>4
    <3>2. /\ IsFiniteSet(Senders(e)')
          /\ Cardinality(Senders(e)') \in {Cardinality(Senders(e)), Cardinality(Senders(e)) + 1}
      BY <2>1, <3>1, FS_AddElement
    <3>3. attempts'[e] = attempts[e] + 1
      BY <1>1, <2>2
    <3>4. QED
      BY <1>2, <2>1, <3>2, <3>3
  <2>3. CASE e \notin batch
    <3>1. Senders(e)' = Senders(e)
      BY <1>3, <1>4, <2>3 DEF Senders, ClaimOf
    <3>2. attempts'[e] = attempts[e]
      BY <1>1, <2>3
    <3>3. QED
      BY <1>2, <2>1, <3>1, <3>2
  <2>4. QED
    BY <2>2, <2>3
<1>7. QED
  BY <1>5, <1>6 DEF ClaimsPay

\* A sending uses up the claim it belongs to.
LEMMA SendIsPaid ==
  ASSUME TypeOK, Paid, NEW p \in Publishers, Send(p)
  PROVE  ClaimsAreSingle' /\ ClaimsPay'
<1>1. PICK c \in current[p] : sent' = [sent EXCEPT ![c.event] = @ + 1]
  BY DEF Send
<1>2. /\ pc[p] = "send" /\ pc'[p] # "send" /\ \A q \in Publishers \ {p} : pc'[q] = pc[q]
      /\ claims' = claims /\ current' = current /\ attempts' = attempts
  BY DEF Send, TypeOK, rows
<1>3. /\ Unsent(p)' = claims[p] /\ Unsent(p) = claims[p] \cup {c} /\ c \notin claims[p]
      /\ c.event \in Events
  BY <1>1, <1>2 DEF Unsent, TypeOK, Paid, ClaimsAreSingle, ClaimType
<1>4. \A q \in Publishers \ {p} : Unsent(q)' = Unsent(q)
  BY <1>2 DEF Unsent
<1>5. ClaimsAreSingle'
  BY <1>2, <1>3, <1>4 DEF Paid, ClaimsAreSingle
<1>6. ASSUME NEW e \in Events
      PROVE  /\ IsFiniteSet(Senders(e)')
             /\ sent'[e] + Cardinality(Senders(e)') <= attempts'[e]
  <2>1. /\ IsFiniteSet(Senders(e)) /\ Cardinality(Senders(e)) \in Nat
        /\ sent[e] + Cardinality(Senders(e)) <= attempts[e]
        /\ sent[e] \in Nat /\ attempts[e] \in Nat
    BY FS_CardinalityType DEF Paid, ClaimsPay, TypeOK
  <2>2. CASE e = c.event
    <3>1. \A d \in claims[p] : d.event # e
      BY <1>3, <2>2 DEF Paid, ClaimsAreSingle
    <3>2. Senders(e)' = Senders(e) \ {p} /\ p \in Senders(e)
      BY <1>3, <1>4, <2>2, <3>1 DEF Senders
    <3>3. /\ IsFiniteSet(Senders(e)')
          /\ Cardinality(Senders(e)') = Cardinality(Senders(e)) - 1
      BY <2>1, <3>2, FS_RemoveElement
    <3>4. sent'[e] = sent[e] + 1
      BY <1>1, <2>2 DEF TypeOK
    <3>5. QED
      BY <1>2, <2>1, <3>3, <3>4
  <2>3. CASE e # c.event
    <3>1. Senders(e)' = Senders(e)
      BY <1>3, <1>4, <2>3 DEF Senders
    <3>2. sent'[e] = sent[e]
      BY <1>1, <1>3, <2>3 DEF TypeOK
    <3>3. QED
      BY <1>2, <2>1, <3>1, <3>2
  <2>4. QED
    BY <2>2, <2>3
<1>7. QED
  BY <1>5, <1>6 DEF ClaimsPay

\* Every step keeps the account of claims and sendings.
LEMMA NextPaid ==
  TypeOK /\ Paid /\ [Next]_vars => ClaimsAreSingle' /\ ClaimsPay'
<1> SUFFICES ASSUME TypeOK, Paid, [Next]_vars PROVE ClaimsAreSingle' /\ ClaimsPay'
  OBVIOUS
<1>1. ASSUME NEW p \in Publishers, Claim(p) PROVE ClaimsAreSingle' /\ ClaimsPay'
  BY <1>1, ClaimIsPaid
<1>2. ASSUME NEW p \in Publishers, Send(p) PROVE ClaimsAreSingle' /\ ClaimsPay'
  BY <1>2, SendIsPaid
<1>3. ASSUME NEW p \in Publishers, NextEvent(p) PROVE ClaimsAreSingle' /\ ClaimsPay'
  <2>1. PICK c \in claims[p] : /\ current' = [current EXCEPT ![p] = {c}]
                               /\ claims' = [claims EXCEPT ![p] = @ \ {c}]
    BY <1>3 DEF NextEvent
  <2>2. pc[p] = "next" /\ pc' = [pc EXCEPT ![p] = "send"] /\ UNCHANGED <<sent, attempts>>
    BY <1>3 DEF NextEvent, rows
  <2>3. \A q \in Publishers : Unsent(q)' = Unsent(q)
    BY <2>1, <2>2 DEF Unsent, TypeOK
  <2>4. ClaimsAreSingle'
    BY <2>1, <2>2, <2>3 DEF Paid, ClaimsAreSingle, TypeOK
  <2>5. QED
    BY <2>2, <2>3, <2>4, FewerSenders DEF Paid
<1>4. ASSUME NEW p \in Publishers,
             \/ Poll(p) \/ SendFails(p) \/ Mark(p) \/ MarkFails(p) \/ MarkUnanswered(p)
             \/ Reschedule(p) \/ EndBatch(p) \/ Abandon(p)
      PROVE  ClaimsAreSingle' /\ ClaimsPay'
  <2>1. /\ UNCHANGED <<sent, attempts>> /\ pc'[p] # "send"
        /\ \A q \in Publishers : claims'[q] \subseteq claims[q]
        /\ \A q \in Publishers \ {p} : pc'[q] = pc[q] /\ current'[q] = current[q]
    BY <1>4 DEF Poll, SendFails, Mark, MarkFails, MarkUnanswered, Reschedule, Done,
       EndBatch, Abandon, rows, TypeOK
  <2>2. \A q \in Publishers : Unsent(q)' \subseteq Unsent(q)
    BY <2>1 DEF Unsent
  <2>3. ClaimsAreSingle'
    BY <2>1, <2>2 DEF Paid, ClaimsAreSingle
  <2>4. QED
    BY <2>1, <2>2, <2>3, FewerSenders DEF Paid
<1>5. ASSUME (\E e \in Events : Store(e)) \/ Tick \/ UNCHANGED vars
      PROVE  ClaimsAreSingle' /\ ClaimsPay'
  <2>1. UNCHANGED <<sent, attempts, pc, claims, current>>
    BY <1>5 DEF Store, Tick, vars, rows
  <2>2. \A q \in Publishers : Unsent(q)' = Unsent(q)
    BY <2>1 DEF Unsent
  <2>3. ClaimsAreSingle'
    BY <2>1, <2>2 DEF Paid, ClaimsAreSingle
  <2>4. QED
    BY <2>1, <2>2, <2>3, FewerSenders DEF Paid
<1>6. QED
  BY <1>1, <1>2, <1>3, <1>4, <1>5 DEF Next

\* However leases run out and publishers crash, an event is sent at most as often
\* as it was claimed.
THEOREM SendingsAreClaimed == Spec => []SentOncePerClaim
<1>1. Init => Fencing /\ Paid
  <2> SUFFICES ASSUME Init PROVE Fencing /\ Paid
    OBVIOUS
  <2>1. Fencing
    BY DEF Init, Fencing, ClaimsBounded, ClaimsAreFenced, Held
  <2>2. \A p \in Publishers : Unsent(p) = {}
    BY DEF Init, Unsent
  <2>3. \A e \in Events : Senders(e) = {} /\ sent[e] = 0 /\ attempts[e] = 0
    BY <2>2 DEF Init, Senders
  <2>4. ClaimsAreSingle /\ ClaimsPay
    BY <2>2, <2>3, FS_EmptySet DEF Init, ClaimsAreSingle, ClaimsPay
  <2>5. QED
    BY <2>1, <2>4 DEF Paid, Fencing
<1>2. TypeOK /\ Fencing /\ Paid /\ [Next]_vars => (TypeOK /\ Fencing /\ Paid)'
  BY NextType, NextFencing, NextPaid DEF Fencing, Paid
<1>3. TypeOK /\ Paid => SentOncePerClaim
  <2> SUFFICES ASSUME TypeOK, Paid, NEW e \in Events PROVE sent[e] <= attempts[e]
    BY DEF SentOncePerClaim
  <2>1. Cardinality(Senders(e)) \in Nat
    BY FS_CardinalityType DEF Paid, ClaimsPay
  <2>2. QED
    BY <2>1 DEF Paid, ClaimsPay, TypeOK
<1>4. QED
  BY <1>1, <1>2, <1>3, InitType, PTL DEF Spec
=============================================================================
