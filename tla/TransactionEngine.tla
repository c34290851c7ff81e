-------------------------- MODULE TransactionEngine --------------------------
(***************************************************************************)
(* PrismaTransactionRepository.create, statement by statement.  Every      *)
(* request slot of the API runs one database transaction at a time: lock   *)
(* the account row, lock the owner (advisory), look the id up, add up the  *)
(* owner's recent activity, then write and commit.  Writes of an           *)
(* uncommitted transaction are invisible to the others, so the insert, the *)
(* balance write and the outbox write appear at once, at Commit.           *)
(***************************************************************************)
EXTENDS BankTypes

CONSTANTS Requests,   \* request slots of the API processes
          Nobody      \* the holder of a lock that is free

ASSUME EngineAssumption == Nobody \notin Requests

VARIABLES status, balance, txns, outbox, now,   \* as in Bank
          accountLock,   \* Account row -> request that holds it FOR UPDATE
          userLock,      \* user -> request that holds the advisory lock
          pc,            \* the statement a request is about to execute
          input,         \* the request being, or last, served
          seen,          \* what the request has read inside its transaction
          reply          \* outcome of the last request served in the slot

tables == <<status, balance, txns, outbox>>
locks == <<accountLock, userLock>>
vars == <<status, balance, txns, outbox, now, accountLock, userLock, pc, input,
          seen, reply>>

Steps == {"lockAccount", "lockUser", "check", "count", "sum", "commit"}

Successes == {"created", "existing"}

Refusals == {"notFound", "inactive", "forbidden", "conflict", "blocked",
             "insufficient", "duplicate"}

Replies == Successes \cup Refusals \cup {"none", "error"}

NothingSeen == [balance |-> 0, countedAt |-> 0, counted |-> {}, summedAt |-> 0,
                debits |-> {}]

Init ==
  /\ status = InitialStatus /\ balance = Opening
  /\ txns = {} /\ outbox = <<>> /\ now = 0
  /\ accountLock = [a \in Accounts |-> Nobody]
  /\ userLock = [u \in Users |-> Nobody]
  /\ pc = [r \in Requests |-> "idle"]
  /\ input = [r \in Requests |-> CHOOSE in \in Inputs : TRUE]
  /\ seen = [r \in Requests |-> NothingSeen]
  /\ reply = [r \in Requests |-> "none"]

-----------------------------------------------------------------------------

AccountOf(r) == input[r].account

OwnerOf(r) == Owner[AccountOf(r)]

Goto(r, step) ==
  /\ pc' = [pc EXCEPT ![r] = step]
  /\ UNCHANGED <<input, reply>>

\* Mutant: the owner's lock outlives the transaction (a session-level lock).
FinishKeepingOwner(r, code) ==
  /\ pc' = [pc EXCEPT ![r] = "idle"]
  /\ reply' = [reply EXCEPT ![r] = code]
  /\ seen' = [seen EXCEPT ![r] = NothingSeen]
  /\ accountLock' = [a \in Accounts |->
                       IF accountLock[a] = r THEN Nobody ELSE accountLock[a]]
  /\ UNCHANGED <<input, now, userLock>>

\* The transaction ends, whichever way: its locks go and the caller is told.
Finish(r, code) ==
  /\ pc' = [pc EXCEPT ![r] = "idle"]
  /\ reply' = [reply EXCEPT ![r] = code]
  /\ seen' = [seen EXCEPT ![r] = NothingSeen]
  /\ accountLock' = [a \in Accounts |->
                       IF accountLock[a] = r THEN Nobody ELSE accountLock[a]]
  /\ userLock' = [u \in Users |->
                    IF userLock[u] = r THEN Nobody ELSE userLock[u]]
  /\ UNCHANGED <<input, now>>

\* A client sends a request; it may be one sent before, in this slot or another.
Submit(r) ==
  /\ pc[r] = "idle"
  /\ input' \in {[input EXCEPT ![r] = in] : in \in Inputs}
  /\ pc' = [pc EXCEPT ![r] = "lockAccount"]
  /\ reply' = [reply EXCEPT ![r] = "none"]
  /\ UNCHANGED <<tables, now, locks, seen>>

\* Mutant: a plain SELECT, which waits for nobody.
RowReadable(r) == status[AccountOf(r)] \in AccountStatuses

\* SELECT ... FOR UPDATE waits for the row, then reads its committed version.
RowFree(r) ==
  \/ status[AccountOf(r)] = "ABSENT"
  \/ accountLock[AccountOf(r)] = Nobody

\* What the code answers before it goes on to lock the owner.
Objection(r) ==
  CASE status[AccountOf(r)] = "ABSENT" -> "notFound"
    [] status[AccountOf(r)] = "INACTIVE" -> "inactive"
    [] status[AccountOf(r)] = "ACTIVE" /\ ~Authorized(input[r]) -> "forbidden"
    [] OTHER -> "none"

RefuseAccount(r) ==
  /\ pc[r] = "lockAccount"
  /\ RowFree(r)
  /\ Objection(r) # "none"
  /\ Finish(r, Objection(r))
  /\ UNCHANGED tables

LockAccount(r) ==
  /\ pc[r] = "lockAccount"
  /\ RowFree(r)
  /\ Objection(r) = "none"
  /\ accountLock' = [accountLock EXCEPT ![AccountOf(r)] = r]
  /\ seen' = [seen EXCEPT ![r].balance = balance[AccountOf(r)]]
  /\ Goto(r, "lockUser")
  /\ UNCHANGED <<tables, now, userLock>>

\* Mutant: the advisory lock is taken per account and so excludes nobody.
PassUser(r) ==
  /\ pc[r] = "lockUser"
  /\ userLock' = [userLock EXCEPT ![OwnerOf(r)] = r]
  /\ Goto(r, "check")
  /\ UNCHANGED <<tables, now, accountLock, seen>>

LockUser(r) ==
  /\ pc[r] = "lockUser"
  /\ userLock[OwnerOf(r)] = Nobody
  /\ userLock' = [userLock EXCEPT ![OwnerOf(r)] = r]
  /\ Goto(r, "check")
  /\ UNCHANGED <<tables, now, accountLock, seen>>

\* findUnique: the id is known, from this client or from anybody else.
AnswerExisting(r) ==
  /\ pc[r] = "check"
  /\ \E x \in txns :
       /\ x.id = input[r].id
       /\ Finish(r, IF ~SameRequest(input[r], x) THEN "conflict"
                    ELSE IF x.status = "BLOCKED" THEN "blocked" ELSE "existing")
  /\ UNCHANGED tables

\* Mutant: ids are unique within an account only.
UnknownHere(r) ==
  \A x \in txns : x.account = AccountOf(r) => x.id # input[r].id

Unknown(r) == \A x \in txns : x.id # input[r].id

\* The debit is compared with the balance read when the row was locked.
RefuseInsufficient(r) ==
  /\ pc[r] = "check"
  /\ Unknown(r)
  /\ ~Covered(input[r], seen[r].balance)
  /\ Finish(r, "insufficient")
  /\ UNCHANGED tables

AcceptNew(r) ==
  /\ pc[r] = "check"
  /\ Unknown(r)
  /\ Covered(input[r], seen[r].balance)
  /\ Goto(r, "count")
  /\ UNCHANGED <<tables, now, locks, seen>>

CountRecent(r) ==
  /\ pc[r] = "count"
  /\ seen' = [seen EXCEPT
       ![r].countedAt = now,
       ![r].counted = RecentOf(txns, OwnerOf(r), now)]
  /\ Goto(r, "sum")
  /\ UNCHANGED <<tables, now, locks>>

SumDebits(r) ==
  /\ pc[r] = "sum"
  /\ seen' = [seen EXCEPT
       ![r].summedAt = now,
       ![r].debits = Debits(RecentOf(txns, OwnerOf(r), now))]
  /\ Goto(r, "commit")
  /\ UNCHANGED <<tables, now, locks>>

Flagged(r) == Exceeds(input[r], seen[r].counted, seen[r].debits)

\* An acknowledgement may be lost after the database committed.
CommitCompleted(r) ==
  /\ pc[r] = "commit"
  /\ Unknown(r)
  /\ ~Flagged(r)
  /\ \E t \in seen[r].summedAt..now :
       txns' = txns \cup {NewRow(input[r], "COMPLETED", t)}
  /\ balance' = [balance EXCEPT
       ![AccountOf(r)] = seen[r].balance + Signed(input[r])]
  /\ outbox' = Append(outbox,
       CompletedOf(input[r], seen[r].balance + Signed(input[r])))
  /\ \E code \in {"created", "error"} : Finish(r, code)
  /\ UNCHANGED status

\* Mutant: the money of a blocked request moves all the same.
CommitBlockedCharging(r) ==
  /\ pc[r] = "commit"
  /\ Unknown(r)
  /\ Flagged(r)
  /\ \E t \in seen[r].summedAt..now :
       txns' = txns \cup {NewRow(input[r], "BLOCKED", t)}
  /\ balance' = [balance EXCEPT
       ![AccountOf(r)] = seen[r].balance + Signed(input[r])]
  /\ outbox' = Append(outbox, BlockedOf(input[r]))
  /\ \E code \in {"blocked", "error"} : Finish(r, code)
  /\ UNCHANGED status

CommitBlocked(r) ==
  /\ pc[r] = "commit"
  /\ Unknown(r)
  /\ Flagged(r)
  /\ \E t \in seen[r].summedAt..now :
       txns' = txns \cup {NewRow(input[r], "BLOCKED", t)}
  /\ outbox' = Append(outbox, BlockedOf(input[r]))
  /\ \E code \in {"blocked", "error"} : Finish(r, code)
  /\ UNCHANGED <<status, balance>>

\* The unique index: the same id was inserted meanwhile under another owner.
RejectDuplicate(r) ==
  /\ pc[r] = "commit"
  /\ ~Unknown(r)
  /\ Finish(r, "duplicate")
  /\ UNCHANGED tables

\* Timeout of the interactive transaction, lost connection or crashed process.
Rollback(r) ==
  /\ pc[r] # "idle"
  /\ Finish(r, "error")
  /\ UNCHANGED tables

-----------------------------------------------------------------------------

\* POST /accounts by an administrator, for an active user.
OpenAccount(a) ==
  /\ status[a] = "ABSENT"
  /\ Owner[a] \in ActiveUsers
  /\ status' = [status EXCEPT ![a] = "ACTIVE"]
  /\ UNCHANGED <<balance, txns, outbox, now, locks, pc, input, seen, reply>>

Tick ==
  /\ now < Horizon
  /\ now' = now + 1
  /\ UNCHANGED <<tables, locks, pc, input, seen, reply>>

Progress(r) ==
  \/ RefuseAccount(r) \/ LockAccount(r) \/ LockUser(r)
  \/ AnswerExisting(r) \/ RefuseInsufficient(r) \/ AcceptNew(r)
  \/ CountRecent(r) \/ SumDebits(r)
  \/ CommitCompleted(r) \/ CommitBlocked(r) \/ RejectDuplicate(r)

Next ==
  \/ \E r \in Requests : Submit(r) \/ Progress(r) \/ Rollback(r)
  \/ \E a \in Accounts : OpenAccount(a)
  \/ Tick

Spec == Init /\ [][Next]_vars

\* Postgres grants a row lock and an advisory lock in the order they were asked
\* for, so a request that can be granted one again and again is granted it.
FairSpec == Spec /\ \A r \in Requests : SF_vars(Progress(r))

-----------------------------------------------------------------------------

Seen == [balance: Int, countedAt: Nat, counted: SUBSET Row, summedAt: Nat,
         debits: SUBSET Row]

\* The type of every variable.
TypeOK ==
  /\ status \in [Accounts -> AccountStatuses]
  /\ balance \in [Accounts -> Int]
  /\ txns \subseteq Row
  /\ outbox \in Seq(Event)
  /\ now \in Nat
  /\ accountLock \in [Accounts -> Requests \cup {Nobody}]
  /\ userLock \in [Users -> Requests \cup {Nobody}]
  /\ pc \in [Requests -> Steps \cup {"idle"}]
  /\ input \in [Requests -> Inputs]
  /\ seen \in [Requests -> Seen]
  /\ reply \in [Requests -> Replies]

HoldsRow(r) == pc[r] \in Steps \ {"lockAccount"}

HoldsOwner(r) == pc[r] \in Steps \ {"lockAccount", "lockUser"}

RowRead(r) ==
  HoldsRow(r) => /\ accountLock[AccountOf(r)] = r
                 /\ status[AccountOf(r)] = "ACTIVE"
                 /\ Authorized(input[r])
                 /\ seen[r].balance = balance[AccountOf(r)]

OwnerHeld(r) == HoldsOwner(r) => userLock[OwnerOf(r)] = r

CoverRead(r) ==
  pc[r] \in {"count", "sum", "commit"} => Covered(input[r], seen[r].balance)

CountRead(r) ==
  pc[r] \in {"sum", "commit"} =>
    /\ seen[r].countedAt <= now
    /\ seen[r].counted = RecentOf(txns, OwnerOf(r), seen[r].countedAt)

SumRead(r) ==
  pc[r] = "commit" =>
    /\ seen[r].countedAt <= seen[r].summedAt /\ seen[r].summedAt <= now
    /\ seen[r].debits = Debits(RecentOf(txns, OwnerOf(r), seen[r].summedAt))

\* Whatever a request has read inside its transaction (status, balance, the rows
\* counted, the debits summed) is still what the tables hold when it commits:
\* the two locks protect every read that a later write is computed from.
LocksProtectReads ==
  \A r \in Requests : /\ RowRead(r) /\ OwnerHeld(r) /\ CoverRead(r)
                      /\ CountRead(r) /\ SumRead(r)

\* A debit never leaves an account at zero or below, whatever ran beside it.
DebitLeavesPositive ==
  \A i \in DOMAIN outbox :
    outbox[i].kind = "TransactionCompleted" /\ outbox[i].type = "DEBIT"
      => outbox[i].balanceAfter > 0

\* transactionId is unique across all owners: no two rows and no two events
\* carry the same id, although the look-up of an id and its insertion are
\* separate statements and the owners' locks do not exclude each other.
OneRowOneEvent ==
  /\ \A x, y \in txns : x.id = y.id => x = y
  /\ \A i, j \in DOMAIN outbox : outbox[i].id = outbox[j].id => i = j
  /\ {outbox[i].id : i \in DOMAIN outbox} = {x.id : x \in txns}

InWindow(x, u, t) ==
  Owner[x.account] = u /\ x.createdAt >= t - Window /\ x.createdAt <= t

\* No user gets more than MaxTxn transactions completed inside one window,
\* counted over all the user's accounts and over requests served concurrently.
VelocityLimit ==
  \A u \in Users, t \in 0..now :
    Cardinality({x \in txns : InWindow(x, u, t) /\ x.status = "COMPLETED"})
      <= MaxTxn

\* The debits completed for a user inside one window never exceed the limit.
AmountLimit ==
  \A u \in Users, t \in 0..now :
    Total(Debits({x \in txns : InWindow(x, u, t) /\ x.status = "COMPLETED"}))
      <= FraudTxnAmount

\* A client told 200 or 201 finds its own request completed: an id that another
\* request took, or that the fraud rules stopped, is never answered as a success.
SuccessIsRecorded ==
  \A r \in Requests : reply[r] \in Successes =>
    \E x \in txns : /\ x.id = input[r].id /\ x.status = "COMPLETED"
                   /\ x.account = AccountOf(r) /\ x.type = input[r].type
                   /\ x.amount = input[r].amount

\* The statements of concurrent requests, seen through the tables alone, are a
\* sequence of indivisible postings.
Promise == INSTANCE Bank

BankSpec == Promise!Spec

\* Every request that is sent is answered: no cycle of row, advisory and index
\* waits, and no lock left behind by an early return.  Rollback is not needed.
Answered == \A r \in Requests : pc[r] = "lockAccount" ~> pc[r] = "idle"
=============================================================================
