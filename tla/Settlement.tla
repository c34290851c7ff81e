------------------------------ MODULE Settlement ------------------------------
(***************************************************************************)
(* What happens to a transaction after the API accepted it: the ledger     *)
(* worker records it, the finalization worker finalizes it, and the        *)
(* timeout scans of the finalization worker give the money back when no    *)
(* ledger entry arrives.  Statements that read, lock and write the shared  *)
(* tables are separate steps; several instances of each worker run, and a  *)
(* scan may start while the previous one is still going.                   *)
(*                                                                         *)
(* POST /transactions is one step here: TransactionEngine shows that its   *)
(* statements amount to one (theorem EngineImplementsBank).  Events reach  *)
(* the consumers late, in any order and any number of times.  All rows of  *)
(* the API carry authorizedAt, so the tests of it are left out, and so are *)
(* the ProcessedEvent rows of events a worker only marks as seen.          *)
(***************************************************************************)
EXTENDS Integers, FiniteSets, FiniteSetsExt

CONSTANTS Txns,          \* transactionId values
          Accounts,
          AccountOf,     \* Transaction.accountId
          TypeOf,        \* Transaction.type
          AmountOf,      \* Transaction.amount
          Opening,       \* balances that predate the event history
          LedgerWorkers, Finalizers, Scans,   \* concurrent handlers and scans
          Take,          \* candidates a scan takes at most
          MaxFaults,     \* bound on aborted handlers and scans in a run
          Nobody         \* the holder of a lock that is free

Workers == LedgerWorkers \cup Finalizers \cup Scans

ASSUME SettlementAssumption ==
  /\ AccountOf \in [Txns -> Accounts]
  /\ TypeOf \in [Txns -> {"DEBIT", "CREDIT"}]
  /\ AmountOf \in [Txns -> Nat \ {0}]
  /\ Opening \in [Accounts -> Nat]
  /\ Take \in Nat \ {0} /\ MaxFaults \in Nat
  /\ Nobody \notin Workers
  /\ LedgerWorkers \cap Finalizers = {} /\ LedgerWorkers \cap Scans = {}
  /\ Finalizers \cap Scans = {}

VARIABLES status,       \* Transaction.status, NONE before the row exists
          balance,      \* Account.balance
          overdue,      \* transactions created before the cutoff of a scan
          ledger,       \* transactions that have a LedgerEntry
          outbox,       \* events committed to the OutboxEvent table
          processed,    \* ProcessedEvent: consumer and event
          passed,       \* LedgerUpdated events whose offset is passed, unprocessed
          rowLock,      \* Transaction row -> worker that holds it FOR UPDATE
          accountLock,  \* Account row -> worker that holds it FOR UPDATE
          pc,           \* the statement a worker is about to execute
          job,          \* the event a consumer handles, the candidate of a scan
          batch,        \* candidates a scan has still to visit
          found,        \* transaction status a finalizer has read
          funds,        \* account balance a scan has read
          faults        \* handlers and scans aborted so far

tables == <<status, balance, ledger, outbox, processed>>
locks == <<rowLock, accountLock>>
vars == <<status, balance, overdue, ledger, outbox, processed, passed, rowLock,
          accountLock, pc, job, batch, found, funds, faults>>

Kinds == {"TransactionCompleted", "TransactionBlocked", "LedgerUpdated",
          "TransactionFinalized", "TransactionCompensated"}

NoTxn == "no transaction"

\* Nothing to do.  A scan keeps its candidate in the txn field.
NoJob == [kind |-> "none", txn |-> NoTxn, copy |-> 0]

Init ==
  /\ status = [t \in Txns |-> "NONE"] /\ balance = Opening
  /\ overdue = {} /\ ledger = {} /\ outbox = {} /\ processed = {}
  /\ passed = {}
  /\ rowLock = [t \in Txns |-> Nobody]
  /\ accountLock = [a \in Accounts |-> Nobody]
  /\ pc = [w \in Workers |-> "idle"]
  /\ job = [w \in Workers |-> NoJob]
  /\ batch = [s \in Scans |-> {}]
  /\ found = [f \in Finalizers |-> "NONE"]
  /\ funds = [s \in Scans |-> 0]
  /\ faults = 0

-----------------------------------------------------------------------------

Signed(t) == IF TypeOf[t] = "DEBIT" THEN -AmountOf[t] ELSE AmountOf[t]

Emitted(kind, t) == {e \in outbox : e.kind = kind /\ e.txn = t}

\* A new outbox row has an id of its own, even if it repeats an earlier one.
Emit(kind, t) ==
  outbox' = outbox \cup {[kind |-> kind, txn |-> t,
                          copy |-> Cardinality(Emitted(kind, t)) + 1]}

Release(w) ==
  /\ rowLock' = [t \in Txns |-> IF rowLock[t] = w THEN Nobody ELSE rowLock[t]]
  /\ accountLock' = [a \in Accounts |->
                       IF accountLock[a] = w THEN Nobody ELSE accountLock[a]]

\* The worker goes back to waiting for its next event, or the next interval.
Rest(w) ==
  /\ Release(w)
  /\ pc' = [pc EXCEPT ![w] = "idle"]
  /\ job' = [job EXCEPT ![w] = NoJob]
  /\ batch' = [s \in Scans |-> IF s = w THEN {} ELSE batch[s]]
  /\ found' = [f \in Finalizers |-> IF f = w THEN "NONE" ELSE found[f]]
  /\ funds' = [s \in Scans |-> IF s = w THEN 0 ELSE funds[s]]

-----------------------------------------------------------------------------
(* The API *)

Post(t) ==
  /\ status[t] = "NONE"
  /\ accountLock[AccountOf[t]] = Nobody
  /\ TypeOf[t] = "DEBIT" => AmountOf[t] < balance[AccountOf[t]]
  /\ status' = [status EXCEPT ![t] = "COMPLETED"]
  /\ balance' = [balance EXCEPT ![AccountOf[t]] = @ + Signed(t)]
  /\ Emit("TransactionCompleted", t)
  /\ UNCHANGED <<overdue, passed, ledger, processed, locks, pc, job, batch, found, funds,
                 faults>>

Block(t) ==
  /\ status[t] = "NONE"
  /\ accountLock[AccountOf[t]] = Nobody
  /\ TypeOf[t] = "DEBIT" => AmountOf[t] < balance[AccountOf[t]]
  /\ status' = [status EXCEPT ![t] = "BLOCKED"]
  /\ Emit("TransactionBlocked", t)
  /\ UNCHANGED <<balance, overdue, passed, ledger, processed, locks, pc, job, batch,
                 found, funds, faults>>

\* TRANSACTION_FINALIZATION_TIMEOUT_SECONDS have passed since t was created.
Expire(t) ==
  /\ status[t] = "COMPLETED"
  /\ t \notin overdue
  /\ overdue' = overdue \cup {t}
  /\ UNCHANGED <<tables, passed, locks, pc, job, batch, found, funds, faults>>

-----------------------------------------------------------------------------
(* Consumers of events *)

\* The event is delivered and its ProcessedEvent row is not there yet.
Deliver(w, consumer, kind, step) ==
  /\ pc[w] = "idle"
  /\ \E e \in outbox :
       /\ e.kind = kind
       /\ <<consumer, e>> \notin processed
       /\ job' = [job EXCEPT ![w] = e]
  /\ pc' = [pc EXCEPT ![w] = step]
  /\ UNCHANGED <<tables, overdue, passed, locks, batch, found, funds, faults>>

TakeCompleted(w) == Deliver(w, "ledger", "TransactionCompleted", "lockRow")

LockRow(w) ==
  /\ pc[w] = "lockRow"
  /\ rowLock[job[w].txn] = Nobody
  /\ rowLock' = [rowLock EXCEPT ![job[w].txn] = w]
  /\ pc' = [pc EXCEPT ![w] = "record"]
  /\ UNCHANGED <<tables, overdue, passed, accountLock, job, batch, found, funds, faults>>

\* The unique indexes of LedgerEntry and ProcessedEvent.
Recorded(w) == job[w].txn \in ledger \/ <<"ledger", job[w]>> \in processed

\* The entry refers to the account, whose row must not be locked FOR UPDATE.
Record(w) ==
  /\ pc[w] = "record"
  /\ ~Recorded(w)
  /\ accountLock[AccountOf[job[w].txn]] = Nobody
  /\ ledger' = ledger \cup {job[w].txn}
  /\ Emit("LedgerUpdated", job[w].txn)
  /\ processed' = processed \cup {<<"ledger", job[w]>>}
  /\ Rest(w)
  /\ UNCHANGED <<status, balance, overdue, passed, faults>>

\* The insert fails, the attempt is rolled back and another may follow.  That the
\* ledger worker gives an event up in the end is a delivery that does not happen.
RecordFails(w) ==
  /\ pc[w] = "record"
  /\ Recorded(w)
  /\ Rest(w)
  /\ UNCHANGED <<tables, overdue, passed, faults>>

\* Mutant: finalization listens to the event of the API.
TakeCompletedToo(w) ==
  Deliver(w, "finalization", "TransactionCompleted", "read")

TakeLedgerUpdated(w) == Deliver(w, "finalization", "LedgerUpdated", "read")

\* The status is read without a lock ...
ReadStatus(w) ==
  /\ pc[w] = "read"
  /\ found' = [found EXCEPT ![w] = status[job[w].txn]]
  /\ pc' = [pc EXCEPT ![w] = "finalize"]
  /\ UNCHANGED <<tables, overdue, passed, locks, job, batch, funds, faults>>

Seen(w) == <<"finalization", job[w]>> \in processed

\* ... and overwritten unconditionally, once the row lock is free.
Finalize(w) ==
  /\ pc[w] = "finalize"
  /\ found[w] = "COMPLETED"
  /\ rowLock[job[w].txn] = Nobody
  /\ ~Seen(w)
  /\ status' = [status EXCEPT ![job[w].txn] = "FINALIZED"]
  /\ Emit("TransactionFinalized", job[w].txn)
  /\ processed' = processed \cup {<<"finalization", job[w]>>}
  /\ Rest(w)
  /\ UNCHANGED <<balance, overdue, passed, ledger, faults>>

NothingToFinalize(w) ==
  /\ pc[w] = "finalize"
  /\ found[w] # "COMPLETED"
  /\ ~Seen(w)
  /\ processed' = processed \cup {<<"finalization", job[w]>>}
  /\ Rest(w)
  /\ UNCHANGED <<status, balance, overdue, passed, ledger, outbox, faults>>

\* processWithRetry caught an error: another attempt follows, or it was the last
\* (EventConsumer counts them), the event goes to the DLQ and its offset is passed.
GiveUpOrRetry(w) == UNCHANGED passed \/ passed' = passed \cup {job[w]}

\* The ProcessedEvent row appeared meanwhile: everything is rolled back.
FinalizeFails(w) ==
  /\ pc[w] = "finalize"
  /\ Seen(w)
  /\ Rest(w)
  /\ GiveUpOrRetry(w)
  /\ UNCHANGED <<tables, overdue, faults>>

-----------------------------------------------------------------------------
(* Compensation of transactions that were not recorded in time *)

Due == {t \in overdue : status[t] = "COMPLETED" /\ t \notin ledger}

Smaller(m, n) == IF m < n THEN m ELSE n

\* The query names no order, so which candidates come first is up to Postgres.
StartScan(s) ==
  /\ pc[s] = "idle"
  /\ Due # {}
  /\ \E b \in kSubset(Smaller(Take, Cardinality(Due)), Due) :
       batch' = [batch EXCEPT ![s] = b]
  /\ pc' = [pc EXCEPT ![s] = "next"]
  /\ UNCHANGED <<tables, overdue, passed, locks, job, found, funds, faults>>

NextCandidate(s) ==
  /\ pc[s] = "next"
  /\ \E t \in batch[s] :
       /\ batch' = [batch EXCEPT ![s] = @ \ {t}]
       /\ job' = [job EXCEPT ![s].txn = t]
  /\ pc' = [pc EXCEPT ![s] = "lockCandidate"]
  /\ UNCHANGED <<tables, overdue, passed, locks, found, funds, faults>>

\* The transaction of a candidate ends, the scan goes on.
Continue(s) ==
  /\ Release(s)
  /\ pc' = [pc EXCEPT ![s] = "next"]
  /\ job' = [job EXCEPT ![s] = NoJob]
  /\ funds' = [funds EXCEPT ![s] = 0]
  /\ UNCHANGED <<overdue, passed, batch, found, faults>>

\* Mutant: the status the scan query saw is trusted.
LockCandidateUnchecked(s) ==
  /\ pc[s] = "lockCandidate"
  /\ rowLock[job[s].txn] = Nobody
  /\ rowLock' = [rowLock EXCEPT ![job[s].txn] = s]
  /\ pc' = [pc EXCEPT ![s] = "checkLedger"]
  /\ UNCHANGED <<tables, overdue, passed, accountLock, job, batch, found, funds, faults>>

\* FOR UPDATE waits and then looks at the status again.
LockCandidate(s) ==
  /\ pc[s] = "lockCandidate"
  /\ rowLock[job[s].txn] = Nobody
  /\ status[job[s].txn] = "COMPLETED"
  /\ rowLock' = [rowLock EXCEPT ![job[s].txn] = s]
  /\ pc' = [pc EXCEPT ![s] = "checkLedger"]
  /\ UNCHANGED <<tables, overdue, passed, accountLock, job, batch, found, funds, faults>>

\* A row that no longer matches is skipped without waiting for its lock.
SkipSettled(s) ==
  /\ pc[s] = "lockCandidate"
  /\ status[job[s].txn] # "COMPLETED"
  /\ Continue(s)
  /\ UNCHANGED tables

SkipRecorded(s) ==
  /\ pc[s] = "checkLedger"
  /\ job[s].txn \in ledger
  /\ Continue(s)
  /\ UNCHANGED tables

\* Mutant: the ledger is not looked at again under the row lock.
LedgerUnchecked(s) ==
  /\ pc[s] = "checkLedger"
  /\ pc' = [pc EXCEPT ![s] = "lockBalance"]
  /\ UNCHANGED <<tables, overdue, passed, locks, job, batch, found, funds, faults>>

LedgerMissing(s) ==
  /\ pc[s] = "checkLedger"
  /\ job[s].txn \notin ledger
  /\ pc' = [pc EXCEPT ![s] = "lockBalance"]
  /\ UNCHANGED <<tables, overdue, passed, locks, job, batch, found, funds, faults>>

\* Mutant: the balance is read without FOR UPDATE.
ReadBalance(s) ==
  /\ pc[s] = "lockBalance"
  /\ funds' = [funds EXCEPT ![s] = balance[AccountOf[job[s].txn]]]
  /\ pc' = [pc EXCEPT ![s] = "compensate"]
  /\ UNCHANGED <<tables, overdue, passed, locks, job, batch, found, faults>>

LockBalance(s) ==
  /\ pc[s] = "lockBalance"
  /\ accountLock[AccountOf[job[s].txn]] = Nobody
  /\ accountLock' = [accountLock EXCEPT ![AccountOf[job[s].txn]] = s]
  /\ funds' = [funds EXCEPT ![s] = balance[AccountOf[job[s].txn]]]
  /\ pc' = [pc EXCEPT ![s] = "compensate"]
  /\ UNCHANGED <<tables, overdue, passed, rowLock, job, batch, found, faults>>

BalanceAfter(s) == funds[s] - Signed(job[s].txn)

\* Mutant: a status the schema does not know.
UndoneByName == "COMPENSATED"

\* The status that marks a compensated transaction; the enumeration of the
\* schema has none of its own.
Undone == "BLOCKED"

\* Mutant: the balance may go below zero.
CompensateAnyway(s) ==
  /\ pc[s] = "compensate"
  /\ balance' = [balance EXCEPT ![AccountOf[job[s].txn]] = BalanceAfter(s)]
  /\ status' = [status EXCEPT ![job[s].txn] = Undone]
  /\ Emit("TransactionCompensated", job[s].txn)
  /\ Continue(s)
  /\ UNCHANGED <<ledger, processed>>

\* Mutant: the event is not part of the transaction and gets lost.
CompensateUntold(s) ==
  /\ pc[s] = "compensate"
  /\ BalanceAfter(s) >= 0
  /\ balance' = [balance EXCEPT ![AccountOf[job[s].txn]] = BalanceAfter(s)]
  /\ status' = [status EXCEPT ![job[s].txn] = Undone]
  /\ Continue(s)
  /\ UNCHANGED <<ledger, processed, outbox>>

Compensate(s) ==
  /\ pc[s] = "compensate"
  /\ BalanceAfter(s) >= 0
  /\ balance' = [balance EXCEPT ![AccountOf[job[s].txn]] = BalanceAfter(s)]
  /\ status' = [status EXCEPT ![job[s].txn] = Undone]
  /\ Emit("TransactionCompensated", job[s].txn)
  /\ Continue(s)
  /\ UNCHANGED <<ledger, processed>>

\* Mutant: a candidate that cannot be compensated ends the scan.
UnableAbortsScan(s) ==
  /\ pc[s] = "compensate"
  /\ BalanceAfter(s) < 0
  /\ Rest(s)
  /\ UNCHANGED <<tables, overdue, passed, faults>>

\* The money of a credit has been spent: logged, and left as it is.
UnableToCompensate(s) ==
  /\ pc[s] = "compensate"
  /\ BalanceAfter(s) < 0
  /\ Continue(s)
  /\ UNCHANGED tables

EndScan(s) ==
  /\ pc[s] = "next"
  /\ batch[s] = {}
  /\ Rest(s)
  /\ UNCHANGED <<tables, overdue, passed, faults>>

\* Mutant: the ProcessedEvent row is not part of the transaction that is undone.
FailMarked(w) ==
  /\ pc[w] # "idle"
  /\ faults < MaxFaults
  /\ faults' = faults + 1
  /\ processed' = IF w \in Finalizers THEN processed \cup {<<"finalization", job[w]>>}
                                     ELSE processed
  /\ Rest(w)
  /\ UNCHANGED <<status, balance, ledger, outbox, overdue, passed>>

\* A handler or a scan dies or fails at any statement; its transaction is rolled
\* back, and of a scan the candidates still to visit are dropped.
Fail(w) ==
  /\ pc[w] # "idle"
  /\ faults < MaxFaults
  /\ faults' = faults + 1
  /\ Rest(w)
  /\ IF pc[w] \in {"read", "finalize"} THEN GiveUpOrRetry(w) ELSE UNCHANGED passed
  /\ UNCHANGED <<tables, overdue>>

\* A finalizer whose process was told to stop before its consumer ran passes the
\* event that it is handed (EventConsumer, Ignore).
Ignore(w) ==
  /\ pc[w] = "idle"
  /\ faults < MaxFaults
  /\ faults' = faults + 1
  /\ \E e \in outbox : e.kind = "LedgerUpdated" /\ passed' = passed \cup {e}
  /\ UNCHANGED <<tables, overdue, locks, pc, job, batch, found, funds>>

-----------------------------------------------------------------------------

LedgerStep(w) ==
  TakeCompleted(w) \/ LockRow(w) \/ Record(w) \/ RecordFails(w)

FinalizerStep(w) ==
  \/ TakeLedgerUpdated(w) \/ ReadStatus(w) \/ Finalize(w)
  \/ NothingToFinalize(w) \/ FinalizeFails(w)

ScanStep(s) ==
  \/ StartScan(s) \/ NextCandidate(s) \/ LockCandidate(s) \/ SkipSettled(s)
  \/ SkipRecorded(s) \/ LedgerMissing(s) \/ LockBalance(s) \/ Compensate(s)
  \/ UnableToCompensate(s) \/ EndScan(s)

Next ==
  \/ \E t \in Txns : Post(t) \/ Block(t) \/ Expire(t)
  \/ \E w \in LedgerWorkers : LedgerStep(w)
  \/ \E w \in Finalizers : FinalizerStep(w) \/ Ignore(w)
  \/ \E s \in Scans : ScanStep(s)
  \/ \E w \in Workers : Fail(w)

Spec == Init /\ [][Next]_vars

\* Kafka delivers a LedgerUpdated event until it is processed or passed.
TakePending(w) ==
  TakeLedgerUpdated(w) /\ job'[w] \notin passed

\* Running handlers and scans go on, scans start every interval, and Postgres queues
\* the waiters of a row.  Nothing promises that TransactionCompleted reaches the
\* ledger worker, or that an event which was passed is delivered again.
Fairness ==
  /\ \A w \in LedgerWorkers : SF_vars(LockRow(w) \/ Record(w) \/ RecordFails(w))
  /\ \A w \in Finalizers :
       /\ WF_vars(TakePending(w))
       /\ SF_vars(ReadStatus(w) \/ Finalize(w) \/ NothingToFinalize(w) \/ FinalizeFails(w))
  /\ \A s \in Scans : SF_vars(ScanStep(s))

FairSpec == Spec /\ Fairness

-----------------------------------------------------------------------------

Event == [kind: Kinds, txn: Txns, copy: Nat \ {0}]

Jobs == Event \cup {NoJob} \cup [kind: {"none"}, txn: Txns, copy: {0}]

\* The type of every variable.
TypeOK ==
  /\ status \in [Txns -> {"NONE", "COMPLETED", "BLOCKED", "FINALIZED"}]
  /\ balance \in [Accounts -> Int]
  /\ overdue \subseteq Txns /\ ledger \subseteq Txns
  /\ outbox \subseteq Event
  /\ processed \subseteq {"ledger", "finalization"} \X Event
  /\ passed \subseteq Event
  /\ rowLock \in [Txns -> Workers \cup {Nobody}]
  /\ accountLock \in [Accounts -> Workers \cup {Nobody}]
  /\ pc \in [Workers -> {"idle", "lockRow", "record", "read", "finalize", "next",
                         "lockCandidate", "checkLedger", "lockBalance",
                         "compensate"}]
  /\ job \in [Workers -> Jobs]
  /\ batch \in [Scans -> SUBSET Txns]
  /\ found \in [Finalizers -> {"NONE", "COMPLETED", "BLOCKED", "FINALIZED"}]
  /\ funds \in [Scans -> Int]
  /\ faults \in Nat

Moved(t) == status[t] \in {"COMPLETED", "FINALIZED"}

\* The balance of an account is its opening balance plus what the completed and
\* the finalized transactions moved, no matter which handlers and scans raced:
\* compensation gives the money of a transaction back once, and keeps no
\* transaction's money that the API posted meanwhile.
BalanceMatchesStatus ==
  \A a \in Accounts :
    balance[a] = Opening[a] +
      MapThenSumSet(Signed, {t \in Txns : AccountOf[t] = a /\ Moved(t)})

\* A transaction is finalized or compensated at most once, and never both: the
\* two outcomes are announced at most once in total, and the announcement agrees
\* with the status of the row.
OneOutcome ==
  \A t \in Txns :
    LET done == Emitted("TransactionFinalized", t)
        undone == Emitted("TransactionCompensated", t)
    IN  /\ Cardinality(done \cup undone) <= 1
        /\ done # {} <=> status[t] = "FINALIZED"
        /\ undone # {} => status[t] = "BLOCKED"

\* Only a transaction that the ledger recorded is finalized.
FinalizedHasLedger == \A t \in Txns : status[t] = "FINALIZED" => t \in ledger

\* No interleaving of debits and compensated credits makes a balance negative.
NeverOverdrawn == \A a \in Accounts : balance[a] >= 0

\* A recorded transaction is never compensated afterwards: once the ledger has an
\* entry for a completed transaction, its money stays where it is.
RecordedStaysMoved ==
  [][\A t \in Txns : t \in ledger /\ Moved(t) => Moved(t)']_vars

\* Finalization gave the transaction up: its event is in the DLQ, or a process that
\* was told to stop too early passed it.
GivenUp(t) == Emitted("LedgerUpdated", t) \cap passed # {}

\* A completed transaction that the ledger recorded is finalized in the end, unless
\* its event was given up; whatever failed before, nothing else can keep it waiting.
RecordedIsFinalized ==
  \A t \in Txns :
    t \in ledger /\ status[t] = "COMPLETED" ~> status[t] = "FINALIZED" \/ GivenUp(t)

\* A debit that the ledger does not record in time is paid back, unless the
\* ledger records it after all.
TimedOutDebitIsSettled ==
  \A t \in Txns :
    t \in Due /\ TypeOf[t] = "DEBIT" ~> status[t] # "COMPLETED" \/ t \in ledger
=============================================================================
