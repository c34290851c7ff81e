------------------------------ MODULE AsyncFraud ------------------------------
(***************************************************************************)
(* The asynchronous fraud worker: concurrent handlers, each one database   *)
(* transaction at READ COMMITTED, store the device and address an event    *)
(* was seen with, count how often each was seen in the minute before the   *)
(* event, over all accounts, and flag the account of the event.  What a    *)
(* handler inserts shows to the others when it commits.                    *)
(*                                                                         *)
(* Events are those of TransactionCompleted and TransactionBlocked; the    *)
(* handler returns at once from any other.  A handler that Postgres aborts *)
(* to break a deadlock with the timeout scan is one that fails.            *)
(***************************************************************************)
EXTENDS Integers, FiniteSets

CONSTANTS Events, Accounts,
          Handlers,     \* members of the consumer group
          AccountOf,    \* payload.accountId
          TimeOf,       \* occurredAt
          SignalsOf,    \* deviceFingerprint and ipAddress, those that are there
          Window,       \* WINDOW_MS
          Limit         \* SUSPICIOUS_COUNT

ASSUME FraudAssumption ==
  /\ IsFiniteSet(Events) /\ IsFiniteSet(Handlers)
  /\ AccountOf \in [Events -> Accounts]
  /\ TimeOf \in [Events -> Nat]
  /\ DOMAIN SignalsOf = Events
  /\ Window \in Nat /\ Limit \in Nat

Nothing == "nothing"
Never == -1
Signals == UNION {SignalsOf[e] : e \in Events}

VARIABLES processed,    \* ProcessedEvent
          recorded,     \* events whose signals FraudSignal has
          flaggedAt,    \* Account.fraudFlaggedAt
          announced,    \* AccountFraudFlagged events, by the event they are about
          job,          \* the event of a handler
          pc,           \* its next statement
          uncounted,    \* signals its loop has still to count
          suspicious,   \* its flag of that name
          unflagged,    \* it has seen the account without a flag
          looked,       \* history: what was recorded when the handler looked
          before        \* history: the same for the event, once it is processed

tables == <<processed, recorded, flaggedAt, announced>>
findings == <<uncounted, suspicious, unflagged>>
vars == <<tables, job, pc, findings, looked, before>>

Init ==
  /\ processed = {} /\ recorded = {}
  /\ flaggedAt = [a \in Accounts |-> Never]
  /\ announced = {}
  /\ job = [h \in Handlers |-> Nothing]
  /\ pc = [h \in Handlers |-> "idle"]
  /\ uncounted = [h \in Handlers |-> {}]
  /\ suspicious = [h \in Handlers |-> FALSE]
  /\ unflagged = [h \in Handlers |-> FALSE]
  /\ looked = [h \in Handlers |-> {}]
  /\ before = [e \in Events |-> {}]

-----------------------------------------------------------------------------

Deliver(h, e) ==
  /\ pc[h] = "idle"
  /\ job' = [job EXCEPT ![h] = e]
  /\ pc' = [pc EXCEPT ![h] = "look"]
  /\ uncounted' = [uncounted EXCEPT ![h] = SignalsOf[e]]
  /\ suspicious' = [suspicious EXCEPT ![h] = FALSE]
  /\ unflagged' = [unflagged EXCEPT ![h] = FALSE]
  /\ UNCHANGED <<tables, looked, before>>

GoTo(h, step) == pc' = [pc EXCEPT ![h] = step]

Rest(h) ==
  /\ GoTo(h, "idle")
  /\ job' = [job EXCEPT ![h] = Nothing]
  /\ looked' = [looked EXCEPT ![h] = {}]
  /\ UNCHANGED findings

SkipProcessed(h) ==
  /\ pc[h] = "look"
  /\ job[h] \in processed
  /\ Rest(h)
  /\ UNCHANGED <<tables, before>>

Look(h) ==
  /\ pc[h] = "look"
  /\ job[h] \notin processed
  /\ GoTo(h, "insert")
  /\ looked' = [looked EXCEPT ![h] = recorded]
  /\ UNCHANGED <<tables, job, findings, before>>

Inserted(h) == pc[h] \in {"count", "commit"}

\* skipDuplicates: the unique index makes an insert of the same signals wait until
\* the transaction that inserted them has ended.
Insert(h) ==
  /\ pc[h] = "insert"
  /\ SignalsOf[job[h]] # {} =>
       \A k \in Handlers \ {h} : ~(Inserted(k) /\ job[k] = job[h])
  /\ GoTo(h, "count")
  /\ UNCHANGED <<tables, job, findings, looked, before>>

\* Mutant: the event being handled is not in its own window.
InWindowBefore(f, e) == TimeOf[e] - Window <= TimeOf[f] /\ TimeOf[f] < TimeOf[e]

InWindow(f, e) == TimeOf[e] - Window <= TimeOf[f] /\ TimeOf[f] <= TimeOf[e]

\* What a handler can see: committed signals and its own.
CountOf(h, s) ==
  Cardinality({f \in recorded \cup {job[h]} : s \in SignalsOf[f] /\ InWindow(f, job[h])})

TooMany(n) == n > Limit

Count(h) ==
  /\ pc[h] = "count"
  /\ \E s \in uncounted[h] :
       /\ uncounted' = [uncounted EXCEPT ![h] = @ \ {s}]
       /\ suspicious' = [suspicious EXCEPT ![h] = @ \/ TooMany(CountOf(h, s))]
  /\ UNCHANGED <<tables, job, pc, unflagged, looked, before>>

Account(h) == AccountOf[job[h]]

\* Mutant: an account that is flagged already is flagged again.
SeenUnflagged(h) == TRUE

FoundUnflagged(h) == flaggedAt[Account(h)] = Never

\* Mutant: the announcement does not wait for the transaction to commit.
AnnounceAtOnce(h) ==
  /\ pc[h] = "count"
  /\ uncounted[h] = {}
  /\ unflagged' = [unflagged EXCEPT ![h] = suspicious[h] /\ FoundUnflagged(h)]
  /\ announced' = IF suspicious[h] /\ FoundUnflagged(h) THEN announced \cup {job[h]} ELSE announced
  /\ GoTo(h, "commit")
  /\ UNCHANGED <<processed, recorded, flaggedAt, job, uncounted, suspicious, looked, before>>

\* The account is read without a lock, if at all.
ReadAccount(h) ==
  /\ pc[h] = "count"
  /\ uncounted[h] = {}
  /\ unflagged' = [unflagged EXCEPT ![h] = suspicious[h] /\ FoundUnflagged(h)]
  /\ GoTo(h, "commit")
  /\ UNCHANGED <<tables, job, uncounted, suspicious, looked, before>>

\* Signals, flag, announcement and ProcessedEvent row become visible together.
Commit(h) ==
  /\ pc[h] = "commit"
  /\ job[h] \notin processed
  /\ processed' = processed \cup {job[h]}
  /\ recorded' = recorded \cup {job[h]}
  /\ flaggedAt' = IF unflagged[h]
                  THEN [flaggedAt EXCEPT ![Account(h)] = TimeOf[job[h]]] ELSE flaggedAt
  /\ announced' = IF unflagged[h] THEN announced \cup {job[h]} ELSE announced
  /\ before' = [before EXCEPT ![job[h]] = looked[h]]
  /\ Rest(h)

\* Mutant: the signals are not part of the transaction that is undone.
FailHalfway(h) ==
  /\ pc[h] # "idle"
  /\ Rest(h)
  /\ recorded' = IF Inserted(h) THEN recorded \cup {job[h]} ELSE recorded
  /\ UNCHANGED <<processed, flaggedAt, announced, before>>

\* A failing statement, a crash or the unique index of ProcessedEvent: all that
\* the transaction did is rolled back, and the event delivered again.
Fail(h) ==
  /\ pc[h] # "idle"
  /\ Rest(h)
  /\ UNCHANGED <<tables, before>>

Next ==
  \E h \in Handlers :
    \/ \E e \in Events : Deliver(h, e)
    \/ SkipProcessed(h) \/ Look(h) \/ Insert(h) \/ Count(h) \/ ReadAccount(h)
    \/ Commit(h) \/ Fail(h)

Spec == Init /\ [][Next]_vars

-----------------------------------------------------------------------------

\* The type of every variable.
TypeOK ==
  /\ processed \subseteq Events /\ recorded \subseteq Events /\ announced \subseteq processed
  /\ flaggedAt \in [Accounts -> Nat \cup {Never}]
  /\ job \in [Handlers -> Events \cup {Nothing}]
  /\ pc \in [Handlers -> {"idle", "look", "insert", "count", "commit"}]
  /\ uncounted \in [Handlers -> SUBSET Signals]
  /\ \A h \in Handlers : pc[h] # "idle" =>
       job[h] \in Events /\ uncounted[h] \subseteq SignalsOf[job[h]]
  /\ suspicious \in [Handlers -> BOOLEAN] /\ unflagged \in [Handlers -> BOOLEAN]
  /\ looked \in [Handlers -> SUBSET Events] /\ before \in [Events -> SUBSET Events]

\* The observations of s in the minute that ends with e, among those of E and e.
SeenAmong(E, e, s) ==
  {f \in E \cup {e} : s \in SignalsOf[f] /\ TimeOf[f] \in (TimeOf[e] - Window)..TimeOf[e]}

\* The events that were processed, not those that a handler began and gave up.
Excessive(e) == \E s \in SignalsOf[e] : Cardinality(SeenAmong(processed, e, s)) > Limit

\* No account is flagged without cause: the flag is the time of an announced event
\* of the account, and ends a minute in which a device or address was observed more
\* often than the limit, by events that were processed.  Retries, deliveries to two
\* handlers and rollbacks leave nothing to count, and nobody is announced without a
\* flag.
FlaggedWithCause ==
  \A a \in Accounts :
    /\ flaggedAt[a] # Never =>
         \E e \in announced : AccountOf[e] = a /\ flaggedAt[a] = TimeOf[e]
    /\ \A e \in announced : AccountOf[e] = a => flaggedAt[a] # Never /\ Excessive(e)

\* Handlers that read the account before the first of them commits announce it
\* again; nobody else does.
AnnouncedBoundedly ==
  \A a \in Accounts :
    Cardinality({e \in announced : AccountOf[e] = a}) <= Cardinality(Handlers)

\* An excess is flagged whatever the order and the times in which events arrive, and
\* whatever runs beside: if more observations than the limit lie in the minute that
\* ends with an event, the event and those recorded when its handler looked, then
\* its account is flagged once it is processed.  Not more: two handlers do not see
\* each other, and what occurred before an event may be recorded after it.
ObservedIsFlagged ==
  \A e \in processed : \A s \in SignalsOf[e] :
    Cardinality(SeenAmong(before[e], e, s)) > Limit => flaggedAt[AccountOf[e]] # Never
=============================================================================
