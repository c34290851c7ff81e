------------------------------ MODULE BankTypes ------------------------------
(***************************************************************************)
(* The rows, inputs and pure rules of the synchronous transaction API      *)
(* (src/modules/transactions), shared by the one-step bank it promises     *)
(* (Bank) and the statement-by-statement engine (TransactionEngine).       *)
(***************************************************************************)
EXTENDS Integers, Sequences, FiniteSets, FiniteSetsExt

CONSTANTS Users,            \* owners of accounts, and callers of the API
          Accounts,         \* primary keys of the Account table
          Owner,            \* Account.userId
          ActiveUsers,      \* users with status ACTIVE and no deletedAt
          TxnIds,           \* client-chosen transactionId values
          Inputs,           \* request bodies with the caller that sends them
          Opening,          \* balances that predate the event history
          InitialStatus,    \* ABSENT (no such row yet), ACTIVE or INACTIVE
          MaxTxn,           \* config.MAX_TXN
          FraudTxnAmount,   \* config.FRAUD_TXN_AMOUNT
          Window,           \* the 60_000 ms of the fraud rules, in clock ticks
          Horizon           \* bound on the clock of a run

TxnTypes == {"DEBIT", "CREDIT"}

AccountStatuses == {"ABSENT", "ACTIVE", "INACTIVE"}

Input == [id: TxnIds, account: Accounts, type: TxnTypes, amount: Nat \ {0},
          user: Users, role: {"CUSTOMER", "ADMIN"}]

Row == [id: TxnIds, account: Accounts, type: TxnTypes, amount: Nat \ {0},
        status: {"COMPLETED", "BLOCKED"}, createdAt: Nat]

CompletedEvent == [kind: {"TransactionCompleted"}, id: TxnIds,
                   account: Accounts, type: TxnTypes, amount: Nat \ {0},
                   balanceAfter: Int]

BlockedEvent == [kind: {"TransactionBlocked"}, id: TxnIds, account: Accounts,
                 type: TxnTypes, amount: Nat \ {0}]

Event == CompletedEvent \cup BlockedEvent

ASSUME BankAssumption ==
  /\ Owner \in [Accounts -> Users]
  /\ ActiveUsers \subseteq Users
  /\ Inputs \subseteq Input /\ Inputs # {}
  /\ Opening \in [Accounts -> Nat]
  /\ InitialStatus \in [Accounts -> AccountStatuses]
  /\ \A a \in Accounts : InitialStatus[a] = "ABSENT" => Opening[a] = 0
  /\ MaxTxn \in Nat \ {0} /\ FraudTxnAmount \in Nat \ {0}
  /\ Window \in Nat /\ Horizon \in Nat

-----------------------------------------------------------------------------

Signed(x) == IF x.type = "DEBIT" THEN -x.amount ELSE x.amount

Total(rows) == MapThenSumSet(LAMBDA x : x.amount, rows)

\* Rows the two aggregates of the fraud rules range over at instant t: every
\* row of the owner's accounts, whatever its status, inside the window.
RecentOf(rows, user, t) ==
  {x \in rows : Owner[x.account] = user /\ x.createdAt >= t - Window}

Debits(rows) == {x \in rows : x.type = "DEBIT"}

\* Mutant: the debit being decided is not added to the debits before it.
ExceedsBefore(in, counted, debits) ==
  Cardinality(counted) + 1 > MaxTxn \/ Total(debits) > FraudTxnAmount

\* The verdict of the velocity rule, on the rows counted, and of the cumulative
\* rule, on the debits added up.
Exceeds(in, counted, debits) ==
  \/ Cardinality(counted) + 1 > MaxTxn
  \/ Total(debits) + (IF in.type = "DEBIT" THEN in.amount ELSE 0)
       > FraudTxnAmount

\* Who may move money: an owner debits, an administrator credits.
Authorized(in) ==
  /\ in.type = "DEBIT" => in.user = Owner[in.account]
  /\ in.type = "CREDIT" => in.role = "ADMIN"

\* Mutant: the balance may be drawn down to nothing.
CoveredToZero(in, available) == in.type = "DEBIT" => in.amount <= available

Covered(in, available) == in.type = "DEBIT" => in.amount < available

\* Mutant: the account of a repeated request is not compared.
SameMovement(in, x) == x.type = in.type /\ x.amount = in.amount

SameRequest(in, x) ==
  x.account = in.account /\ x.type = in.type /\ x.amount = in.amount

\* Mutant: the row keeps the default status of the schema.
PendingRow(in, verdict, t) ==
  [id |-> in.id, account |-> in.account, type |-> in.type,
   amount |-> in.amount, status |-> "PENDING", createdAt |-> t]

NewRow(in, verdict, t) ==
  [id |-> in.id, account |-> in.account, type |-> in.type,
   amount |-> in.amount, status |-> verdict, createdAt |-> t]

BlockedOf(in) ==
  [kind |-> "TransactionBlocked", id |-> in.id, account |-> in.account,
   type |-> in.type, amount |-> in.amount]

CompletedOf(in, after) ==
  [kind |-> "TransactionCompleted", id |-> in.id, account |-> in.account,
   type |-> in.type, amount |-> in.amount, balanceAfter |-> after]
=============================================================================
