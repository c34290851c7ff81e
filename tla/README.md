# Verification of the banking transaction system

TLA+ models of the banking transaction system, the TLC runs that check them on
small instances, and TLAPS proofs of the properties that matter most for every
value of the constants. Paths below are relative to the repository.

## 1. The system

A bank with one HTTP API, one Postgres database, one Kafka topic and a handful of
workers. The API decides a transaction inside one database transaction and stores
an event with it (transactional outbox). A publisher moves stored events to Kafka;
workers consume them, write further tables and store further events.

```
 client -> API --(Transaction, Account, OutboxEvent)--> Postgres
                                                         |   ^
                         outbox publisher <--------------+   |
                               |                             |
                             Kafka --> ledger, finalization, fraud, analytics,
                               |       notification workers --+
                               +-----> realtime consumer -> SSE streams
```

| Component | State it keeps | Operations | Correct when |
|---|---|---|---|
| Transaction API (`src/modules/transactions`) | `Account.balance`, `Transaction`, `OutboxEvent`; row lock and advisory lock for the length of a transaction | `create` | no lost update, ids unique and retries idempotent, fraud limits hold per user, a debit leaves a positive balance, each accepted request has exactly one row and one event |
| Accounts (`src/modules/accounts`) | `Account` | create for an active user | only active users get accounts |
| Outbox publisher (`src/workers/outbox-publisher`) | `OutboxEvent.status/attempts/nextAttemptAt`; claimed batch in memory | claim, send, mark, reschedule, stop | every event is sent at least once, marked only after it was sent, never touched by a publisher that lost its lease |
| Ledger worker | `LedgerEntry`, `ProcessedEvent` | handle `TransactionCompleted` | one entry per transaction, none compensated after it is recorded |
| Finalization worker | `Transaction.status`, `Account.balance`, `ProcessedEvent` | handle `LedgerUpdated`; scan for timeouts every 5 s | finalized xor compensated, once, and the balance agrees |
| Consumer runtime (`src/workers/shared`) | retry counter, Kafka offset, DLQ | retry with back-off, move to DLQ, stop | no message skipped without its effect or a DLQ entry, except by a process that was told to stop before its consumer ran |
| Async fraud worker | `FraudSignal`, `Account.fraudFlaggedAt` | handle completed and blocked events | flagged only when a device or address was seen more than the limit in a minute, and always when the handler could see that many; announced boundedly |
| Analytics, notification workers | `AnalyticsMetric`, `ProcessedEvent` | handle events | each event counted once; notifications repeated only boundedly |
| Realtime (`src/modules/realtime`, SSE route) | in-process emitter, open streams | subscribe, read, forward, close, shut down | an open stream misses nothing that is forwarded, and learns the outcome unless it never reached the process |
| Replay | none | audit a transaction, sum completed events | events explain the statuses; rebuilt balances explain the live ones |
| DLQ reprocessing (`scripts`) | Kafka offsets | send again | no event stays lost, none takes effect twice |
| Authentication | `RefreshSession` | login, rotate, log out | a login has one session at a time, a refresh token is used once |
| Users, HTTP, configuration, health | `User` | insert, wiring | - |

What is hard about it: concurrent requests that share a row, a user or an id;
handlers and scans of one worker that overlap; events that arrive twice, late, in
another order or never; leases that run out while their holder works on; crashes
between two writes; clocks moving through a window. `PROJECT.json` lists each
hazard at the line where it bites.

## 2. Modules

| Module | Models | Proofs |
|---|---|---|
| `BankTypes` | rows, inputs, events and pure rules of the API | |
| `Bank` | what the API promises: each accepted request is one indivisible step | |
| `TransactionEngine` | `PrismaTransactionRepository.create`, statement by statement, in concurrent request slots; account creation | `TransactionEngineProofs` |
| `Settlement` | ledger worker, finalization worker and timeout scans over the tables the API writes | `SettlementProofs` |
| `Replay` | extends `Settlement` by the readers of the outbox: audits and replays | `SettlementProofs` |
| `OutboxPublisher` | any number of outbox publishers over the `OutboxEvent` table | `OutboxPublisherProofs` |
| `Delivery` | what the consumers promise about each published event | |
| `EventConsumer` | consumer runtime, analytics, notification, DLQ and its reprocessing | `EventConsumerProofs` |
| `AsyncFraud` | concurrent handlers of the asynchronous fraud worker | `AsyncFraudProofs` |
| `LoginChain` | what refresh sessions promise: a login has one session at a time | |
| `AuthSessions` | login, refresh and logout over the `RefreshSession` table | `AuthSessionsProofs` |
| `RealtimeSse` | the SSE streams of a transaction, the realtime consumer, shutdown of the server | `RealtimeSseProofs` |

`SumTheorems` holds the lemmas about sums over finite sets that
`TransactionEngineProofs`, `SettlementProofs` and `EventConsumerProofs` share.

`MC...` modules give these their instances for TLC. Three abstract specifications
are implemented by detailed ones, each through `INSTANCE ... WITH`: `Bank` by
`TransactionEngine` (`BankSpec`), `Delivery` by `EventConsumer` (`DeliverySpec`),
`LoginChain` by `AuthSessions` (`ChainSpec`). All three refinements are both
model-checked and proved.

Definitions that begin with `Mutant:` in their comment are alternatives of the
definition that follows them, with a plausible bug. No specification uses them:
`PROJECT.json` names, for every property, one that makes it fail.

### TransactionEngine

A request slot walks through `lockAccount`, `lockUser`, `check`, `count`, `sum`,
`commit`: the `SELECT ... FOR UPDATE` of the account, the advisory lock of its
owner, the look-up of the id with the balance check, the two aggregates, and the
writes. Uncommitted writes are invisible to others, so insert, balance update and
outbox insert appear together, in `CommitCompleted` or `CommitBlocked`. `seen`
holds what the request read, and the writes are computed from it as in the code,
never from the current tables. `RejectDuplicate` is the unique index on
`transactionId` (answered with 409 by `mapPrismaError`), `Rollback` a timeout, a
lost connection or a crash, and a commit may be answered with an error although it
happened. Clients repeat inputs at will. The one early return left out is the 401
of a request without `auth`, which the router's middleware excludes.

### Settlement and Replay

`POST /transactions` is one step (`Post`, `Block`), which the theorem
`EngineImplementsBank` justifies. The ledger worker's lock and its writes are two
steps; the finalizer's read and its unconditional update are two steps; a scan
queries its candidates and then locks, re-checks, looks up the ledger, locks the
balance and writes for each. Delivery is any undelivered event at any time, to any
number of handlers, as often as nothing is processed: this covers reordering,
duplicates, rebalances and reprocessing, and is what `EventConsumer` leaves of
Kafka's order once events are retried and sent again. `Fail` aborts any handler or
scan at any statement. A handler of `LedgerUpdated` that fails is repeated or was at
its last attempt, after which the event is in the DLQ and its offset passed
(`GiveUpOrRetry`); a finalizer that was told to stop too early passes an event with
no effect (`Ignore`). `passed` keeps both, so that liveness claims nothing of them;
they may still be delivered, by a reassignment or the DLQ script. Attempts are
counted in `EventConsumer`; here any failure may be the last. A row is `overdue` once the finalization timeout has passed
(`Expire`), which may be at once.

`Replay` adds an audit (`GET /replay/transactions/:transactionId`): one query for
the status, a second for the events, anything in between. The sums of the account
route and of the script are state functions; their order of addition is irrelevant.

### OutboxPublisher

Each publisher reads the clock (`Poll`), claims due events (`Claim`), and sends and
marks them one by one. A send may reach the broker and still fail for the
publisher; so may a mark. `Abandon` is a crash or shutdown at any point, or a
failing reschedule. The clock moves between any two steps, so leases run out under
their holder. `sent` counts the copies of an event in the topic.

### EventConsumer

One partition: `topic` is its log, `committed` what a group has passed as Kafka
knows it, `pos` what a member believes. A member fetches the next message
(`Fetch`), looks for its `ProcessedEvent` row (`SkipProcessed`, `Begin`), writes
its effect and the row in one transaction (`HandlerReturns`), and on an error tries
again up to `MaxAttempts` times (`Caught`) before it sends the message to the DLQ
(`Park`). The transaction may commit and still be reported as failed
(`CommitUnanswered`); the DLQ may be unreachable (`ParkFails`), which makes
`eachMessage` throw and the message come again. `Assign` takes the partition from a
member that may be in the middle of a message and goes on with it: its statements
interleave with those of the new owner, but it commits no offset. `Stop` is SIGTERM
while the consumer runs, which waits for the handler; `Crash` waits for nothing.
`StopTooEarly` is SIGTERM while the process connects, subscribes or joins:
`consumer.stop()` then has nothing to stop, the process goes on and becomes a member,
and since `shuttingDown` is set its `eachMessage` returns at once
(`consumer-runtime.ts:49`): `Ignore` passes a message with no effect, and its offset
is committed. Such a process is `deaf` until it is killed. `Reprocess` is the
script: any message of the DLQ again, as often as wanted, to every group.
Analytics and notification differ in `metrics` and `told` only. `Rejects` are
messages a handler fails on every time.

`Delivery` says what remains of a promise: per group, an event is coming, applied or
parked, and it is `lost` only when a group with a deaf process passes it. Sent again,
or found by a member that was taken for dead, it may still be applied.

### AsyncFraud

A handler's transaction is look-up, insert of its signals, one count per signal,
read of the account, commit (`Look`, `Insert`, `Count`, `ReadAccount`, `Commit`).
At READ COMMITTED a count sees what is committed (`recorded`) and its own rows. An
insert of the same signals waits for the transaction that holds them. Events arrive
in any order and may have occurred at the same time. Two history variables, which no
guard reads, remember what was recorded when a handler looked (`looked`) and keep it
for the event once it is processed (`before`); `ObservedIsFlagged` speaks of it.

### AuthSessions

`BeginLogin` ... `CreateSession` is a login, whose password check takes long;
`BeginRefresh`, `ReadSession`, `Rotate` a refresh, which reads the clock before the
session and revokes with a guarded `updateMany`; `RotatedMeanwhile` is a count other
than 1. `Logout` is one statement. Users are deactivated at any time.

### RealtimeSse

A stream subscribes (`Open`), waits for its query (`Read`), and then either is
refused, starts (`Start`: headers, heartbeat, what was read, and the handler of a
close) or breaks (`Break`), because an event was written while it waited and took
the headers with it. Between two awaits nothing interleaves: JavaScript runs one
callback at a time. Events move from `outbox` to `feed`, in which the consumer meets
them in order, to `forwarded`. What is published while the consumer has no place in
the topic goes to `missed`. Among the messages of the partition may be one without a
value, which is skipped (`Skip`), and one that cannot be parsed: `eachMessage` throws,
and the message is handed over again for ever, which changes nothing, so no action
stands for it; nothing behind it is forwarded. kafkajs starts a consumer over after
such errors; without a committed offset that means the end of the topic
(`StartOver`). `Close` and `Stop` are `shutdown()`, which waits for all connections.

### Assumptions

- Postgres runs at READ COMMITTED with row locks as documented; the foreign key of
  `LedgerEntry` waits for a `FOR UPDATE` lock on the account.
- `updateMany` and `updateManyAndReturn` are atomic on each row. Their SQL is
  generated by Prisma.
- Publishers share one clock, and `createdAt` is dated by the statement that
  inserts the row: after the aggregates, before the commit.
- Accounts with `deletedAt` behave like absent ones. The engine takes the status of
  a user as fixed; no route changes it. In `AuthSessions` it may change by hand.
- Amounts are unbounded naturals; a credit past BIGINT would fail as `Rollback`.
- A consumer group hands a partition to one member at a time and accepts offsets
  from it alone. `consumer.stop()` on a consumer that runs waits for its handler and
  starts no other; on one that does not run yet it does nothing.
- Process ids of API processes differ, so that each has a realtime group of its own
  (`banking-realtime-sse-<pid>`).
- `consumer.run()` lasts until consumption ends. This is how the code uses it, since
  its `finally` block disconnects everything; should kafkajs resolve it as soon as
  the consumer runs, no worker would do anything at all. `PROJECT.json` lists this
  as a hazard that no property covers.
- The DLQ keeps every message that was acknowledged. An event id is published by the
  outbox once or more often; further copies come in by `Reprocess`.
- A request's `close` event is its client leaving, or the end of the connection.
- Tokens are unguessable and never repeat.

## 3. Runs

| Run | Instance | Shows |
|---|---|---|
| `EngineRequests` | 2 slots, 3 accounts of 2 users, 3 ids, 5 inputs, limits of 2 and 3, moving clock, fairness | reads are protected by the locks, debits leave money, ids are unique, both fraud limits hold, successes are true, every step is one of `Bank`, every request is answered |
| `SettlementRaces` | 2 ledger workers, 2 finalizers, 2 scans, a credit and the debit that spends it, 1 fault | money agrees with statuses, outcomes are unique, what is recorded stays moved, nothing is overdrawn |
| `SettlementSettles` | a ledger worker, a finalizer, a scan that can hold all, 2 faults, an audit, fairness | events explain every status, recorded is finalized or was given up, timed-out debits are settled |
| `OutboxPublishes` | 2 publishers, 2 events, moving clock | fencing, at least once, bounded duplicates, nothing stranded |
| `ConsumerTakeover` | analytics with 2 members, an event it can handle and one it cannot, topic of 3, 2 faults (crash, stop, stop too early, reassignment, failing DLQ), fairness | `Delivery`, exact metrics, every event settled |
| `ConsumerGroups` | analytics and notification, one member each, topic of 2, 1 fault | `Delivery` for two groups over one DLQ and script, bounded notifications |
| `FraudRaces` | 2 handlers, 4 events of 2 accounts, two at the same time, window of 2, limit 1 | flags have a cause, announcements are bounded, an excess the handler could see is flagged |
| `SessionsRotate` | 2 requests, a login, 3 tokens, TTL 2, clock to 3 | `LoginChain`, one session per login |
| `SseStreams` | a permitted and a refused stream, a stray message, fairness of publisher and consumer | no gap; the outcome reaches whoever stays, unless it was missed or is stuck |
| `ReplayAfterCompensation` | violation | replay ignores compensations |
| `StarvedScan` | violation | uncompensable credits starve a debit |
| `SseCut` | violation | an event during the query cuts the stream |

**Why the bounds suffice.** Every race of the engine is between two requests: they
share a row, an owner, an id or nothing, and the inputs contain each case, with a
third id so that a history exists before the last request arrives, and limits that
two requests reach. In `Settlement`, one transaction meets two of every kind of
worker, and the second gives the first one's money a use; its liveness and the audits are
checked with one of each, and two faults. In the publishers, two
processes and two events suffice for a takeover in the middle of a batch; the clock
goes far enough for a lease to run out twice. In the consumers, the second member
takes over from the first in the middle of a message and the first can take over
again; the event that always fails stands before or behind the other, and a third
place in the topic lets one be sent again. Two faults let a process be stopped too
early, pass an event and be killed. Four observations, of which the first falls just
into the window of the second and third and the fourth just misses it, make an excess
reach or miss a window; two have the same time, and the events differ in their
signals, so one signal is in excess while the other is not. Three tokens are two rotations, a clock
of three outlives a session. Two streams differ in permission and share the
emitter. `Horizon` bounds a clock, `MaxFaults` the faults, `MaxMessages` the topic;
ids and tokens bound everything else.

**Deadlock** is checked in `EngineRequests`, `OutboxPublishes` and `FraudRaces`.
The others switch it off because they may really end: when every transaction has its
outcome, the topic is full and read, the tokens are used up or the server stopped.

**Fairness.** `TransactionEngine!FairSpec` is strong fairness of each request's
progress: Postgres queues the waiters of a lock, so a lock that is free again and
again is granted. `Rollback` is not fair: `Answered` does not rely on timeouts.
`Settlement!Fairness`, which `Replay` takes over, is strong fairness of running handlers (same reason) and of
the scans (`setInterval`), and weak fairness of the delivery of a `LedgerUpdated` that
is not passed (`TakePending`: Kafka delivers a message until its offset is passed). An
event whose last attempt failed, or that a stopping process passed, owes nothing any
more: `RecordedIsFinalized` excepts it by name (`GivenUp`). Nothing forces
`TransactionCompleted` to arrive at the ledger worker, a request to be sent or a fault
to happen.
`EventConsumer!FairSpec` is weak: a group without owner gets one while it has
members (Kafka's coordinator), a member goes on (a process that runs) and commits
(kafkajs does so by itself). Crashes and reassignments are bounded, as otherwise no
handler would ever have to end. A deaf process passes messages under the same
fairness. `RealtimeSse!FairSpec` is weak fairness of the publisher, and of a consumer
that has joined as far as the message it is at can be read. It need not join, since
`start()` may fail and nobody repeats it; clients and handlers of requests owe
nothing.

**Disagreements with the documentation.** The three violation runs show what the
code does where a text says otherwise; `PROJECT.json` quotes the texts.

- Replay rebuilds balances from completed events, and the README attributes every
  difference from the live balance to what existed before the history; a
  compensated transaction is such a difference too.
- The README says a transaction without ledger entry is compensated after the
  timeout. A scan takes 50 candidates in no stated order and leaves uncompensable
  ones in place, so those may occupy every scan. `StarvedScan` has one place
  instead of 50.
- A stream subscribes and then reads. An event emitted while it reads is written
  before the headers are set; setting them throws, the connection is cut and the
  listener stays.

What the models also show, stated as the properties that do hold:

- A debit must leave a positive balance, but compensating a credit only requires
  that the balance is not negative: it may leave zero.
- A `TransactionCompleted` event that reaches the ledger worker after the
  compensation still gets a ledger entry. Hence `FinalizedHasLedger` has no converse.
- A notification is sent inside a transaction that may still fail, so it is not
  sent once (`README.md:98`) but at most once per attempt, copy and fault
  (`ToldBoundedly`).
- A worker that gets SIGTERM while it starts up becomes a member of its group and
  passes every message with no effect and no DLQ entry until it is killed. `Delivery`
  and `PublishedIsSettled` name this as the one way an event is lost; without it both
  fail.
- A transaction that the ledger recorded stays completed for good when the handler of
  its `LedgerUpdated` failed to the last attempt: the scans leave it alone because it
  is recorded, and only the DLQ script brings its event back.
- The asynchronous fraud worker counts what is committed and not later than the
  event it handles. Handlers that overlap or events that arrive late may leave an
  excess unflagged (`README.md:100-101`); `ObservedIsFlagged` says what is flagged in
  any case. Two handlers may both announce the account.
- The realtime consumer starts at the latest offset after the server has begun to
  answer, so an outcome published in between reaches no stream; and it has no DLQ, so
  a message it cannot parse keeps everything behind it from all streams.
  `OpenIsFollowed` excepts both by name. A stream opened before its transaction has a row is
  refused with 404 (`README.md:63` has it opened with the same id).

## 4. Proofs

All of these hold for any sets of accounts, users, ids, requests, publishers,
events, members, handlers, sessions and streams, and any limits, windows, leases and
delays, under the assumptions named `BankAssumption`, `EngineAssumption`,
`SettlementAssumption`, `OutboxAssumption`, `ConsumerAssumption`, `FraudAssumption`,
`SessionAssumption` and `SseAssumption`. Each module proves `TypeCorrect`.

**TransactionEngineProofs.**

- `ReadsProtected`: `LocksProtectReads`, which is inductive together with `TypeOK`.
  It says what each lock is for: while a request holds the row, the balance and
  the status it read stand; while it holds the owner, the rows counted and the
  debits summed stand. A commit of another request cannot disturb them because it
  holds another row and another owner (`CommitIsIntact`), a step that commits
  nothing because it writes none of the tables (`QuietIsIntact`).
- `EngineImplementsBank`: the refinement to `Bank`. With the reads protected, the
  stale values a commit is computed from are the current ones, so a commit is a
  `Post` or a `Block` (`CommitIsPost`, `CommitIsBlock`) and every other step a
  stutter, an `OpenAccount` or a `Tick`.
- `VelocityLimited`, `DebitsStayPositive`, `IdsAreUnique`,
  `SuccessesAreRecorded`: from the inductive invariant `IInv`, the conjunction of
  the above with `PastRows` (the table is finite and dated no later than now),
  without which the cardinality of a window could not be bounded.
- `AmountLimited`: `AmountLimit`. A debit commits later than its request summed, but
  the debits of any window it falls into were all among those it summed: they are
  the rows of its owner, which the advisory lock keeps as they were
  (`LocksProtectReads`), and the sum reached back at least as far (`NextAmount`).

**SettlementProofs.** The inductive invariant says what a worker knows at each of
its statements (`WorkerOK`): a holder of the row lock of a transaction finds it as it
read it, since every other writer of that row waits for the lock, except for a
finalizer, which reads without a lock and yet can overwrite nothing but its own
outcome because the ledger entry it has found keeps scans away. `OutboxOK` ties
events to rows and `EndsOK` outcomes to ledger entries.

- `EndsOnce`: `OneOutcome`; `FinalizedWasRecorded`: `FinalizedHasLedger`;
  `BalancesStayPositive`: `NeverOverdrawn`.
- `RecordedIsKept`: the action property `RecordedStaysMoved`.
- `BalancesMatch`: `BalanceMatchesStatus`. The strengthening `FundsOK` says that a
  scan about to compensate still holds the account and that the account still has
  the balance the scan read; so writing back a balance computed earlier loses
  nothing. Only a posting and a compensation move money (`Movers`), and each adds
  one transaction to the sum of its account or takes one out (`MoneyWith`).
- `AuditsExplain`: `AuditExplainsStatus`. Events are never deleted and every status
  has its events (`Explained`, an invariant of every step of `Settlement`), so a
  status read earlier is explained by the events read later.
- `ReplaysCountCompensated`: what a replay rebuilds differs from the live balance by
  exactly the money that compensations gave back. It is the positive side of the
  run `ReplayAfterCompensation`. Behind it is that every event belongs to a
  transaction that has its row (`HistoryInv`), so a posting writes the only
  completed event of its transaction, and that a compensation is announced once.

**OutboxPublisherProofs.**

- `TypeCorrect`: the back-off lies between one tick and `RetryMax`.
- `LeasesAreUnique`: `ClaimsAreFenced`. It is not inductive: the strengthening
  `Fencing` adds that no claim held reaches further than a lease taken now, and
  that the next lease of its event will reach further (`Bounded`). This is what
  makes a lease time usable as a fencing token.
- `PublishingIsFinal`, `PublishedAreSent`, `NothingStranded`.
- `SendingsAreClaimed`: `SentOncePerClaim`, by an account (`ClaimsPay`): the copies
  sent and the publishers that still hold an unsent claim on the event are together
  no more than its attempts. A claim adds one on both sides, a sending moves one, a
  crash forfeits one.

**EventConsumerProofs.**

- `MetricsAreExact`: `MetricsCountProcessed`, inductive with `TypeOK` because the
  row and the count are written together and the row only once.
- `ConsumersDeliver`: `EventConsumer` implements `Delivery`. The invariant behind
  it is `PassedIsSettled` (what the owner of a partition has passed beyond the
  committed offset is applied or in the DLQ, unless the owner is deaf) with
  `OwnerIsAhead` (it stands no further back than what is committed). A commit that
  passes several messages at once is one `Pass` of a set (`CommitPasses`), in which an
  event is lost only if the group has a deaf process; putting a lost event into the
  DLQ is a `PutAside`, and a `Reprocess` is a `Publish`.
- `ToldIsBounded`: `ToldBoundedly`, by a budget (`BudgetOK`). What a customer was
  told of an event, together with the attempts that members in the middle of the
  event have left, is never more than `MaxAttempts` for each copy that the owner of
  the partition has reached and, for each fault, `MaxAttempts` for every copy. A
  fetch spends on the copy it reaches; telling turns an attempt left into one told;
  a crash, a reassignment or a failing DLQ, after which copies come again, is paid
  for by the fault.

**AsyncFraudProofs.**

- `FlagsHaveCause`: `FlaggedWithCause`, from an invariant that a handler is
  `suspicious` only with an excess in its window (`SuspectedWithCause`). Signals are
  stored for processed events only (`RecordedIsProcessed`), so what it counted is what
  was processed, and an excess remains one as more is (`StaysExcessive`).
- `AnnouncedOncePerHandler`: `AnnouncedBoundedly`, by an account of announcements
  made and handlers that have seen the account without a flag: once it has one,
  nobody joins them.
- `ExcessFlags`: `ObservedIsFlagged`, for any times and any order of events. Signals
  are never deleted, so what was recorded when a handler looked is still there when it
  counts (`CountIsEnough`); an excess among it is remembered through the loop, and the
  handler flags the account or has found it flagged (`CountsEnough`).

**AuthSessionsProofs.** `LoginsHaveOneSession`: `OneLivePerLogin`, from the facts
that a live session was not replaced and a parent is revoked.
`SessionsImplementChain`: the refinement to `LoginChain`; a rotation is a `Replace`
since the guarded update makes the session it replaces the live one.

**RealtimeSseProofs.** `OpenMissesNothing`: `NoGap`, from `PostedOnce`,
`EventsFollowStatus` (no event is ahead of the status), `Subscribed` (a stream that
is read or open is a listener) and `NothingMissed`, the same promise for a stream
that has read but not started.

**SumTheorems.** `SumOf(f, S)` adds up a function over a finite set in the order the
folds of the community modules take. That the order does not matter
(`SumWithout`), and from it `SumWith`, `SumOfFewer`, `SumSame` and `SumChange`, needs
induction over the set. The provers cannot instantiate the library's rules for it,
whose induction hypothesis is an operator; so each lemma is proved by the smallest
counterexample instead: if the set of subsets that violate it were not empty, one of
them would have no violating proper subset (`SmallestBad`, from the well-foundedness
of `<` on the cardinalities), and taking one element out of it leads to a
contradiction. `SumsExist` proves in the same way that the recursive function behind
the folds exists.

**Only model-checked.** Liveness, which the prover does not handle under fairness:
`Answered`, `RecordedIsFinalized`, `TimedOutDebitIsSettled`, `PublishedIsSettled`,
`OpenIsFollowed`. Every invariant, action property and refinement that a passing run
checks is also a theorem. `ReplayCountsCompensated` is the only property of a theorem that
no run keeps checking; TLC finds it true on the instance of `SettlementSettles`.

## 5. Not modelled

- Users: one insert under the unique index of the e-mail address. The order of two
  registrations does not matter to anything else.
- Access tokens, password hashing, role checks and rate limits: no state, or state
  in the memory of one process that nothing here depends on. A caller without the
  right is an input of the engine.
- HTTP wiring, configuration, logging, health checks, `create-topics`, the seed and
  `attack-simulation`: no state whose order matters.
- Error formatting: only the one mapping a behaviour depends on is in the engine.
- Serialization and validation of bodies: opaque. A message that cannot be parsed is
  one that its handler rejects.
- Amounts of `AnalyticsMetric`: they are written by the statement that counts.
- Several partitions: Kafka orders and hands out each by itself, and the only state
  two of them share are the tables, which `Settlement` and `AsyncFraud` let any
  number of handlers use at once.
- The 500 ms pause of the publisher, the 5 s interval of the scans, the back-off of
  the consumers and the 15 s heartbeat: any time may pass between two steps.

## 6. Plan

Done: the engine with its bank, settlement, publisher, consumers, fraud, sessions,
streams and replay, each with its proofs. Left, in order:

1. An end-to-end composition of outbox, topic and settlement, in which the order of
   a partition, and not any order, reaches the ledger and finalization workers.
2. Deadlocks between the fraud worker and the timeout scan on account rows.
