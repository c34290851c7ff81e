--------------------------------- MODULE Bank ---------------------------------
(***************************************************************************)
(* What POST /transactions promises: each accepted request is one          *)
(* indivisible step that inserts the transaction row, moves the balance    *)
(* unless the fraud rules block it, and appends exactly one outbox event.  *)
(* There are no requests in progress, no locks and no stale reads here.    *)
(* The one freedom left to an implementation is time: the rows are counted *)
(* at c, the debits added up at s and the row dated t, c <= s <= t <= now. *)
(***************************************************************************)
EXTENDS BankTypes

VARIABLES status,    \* Account.status
          balance,   \* Account.balance
          txns,      \* the Transaction table
          outbox,    \* the OutboxEvent table, in commit order
          now        \* the wall clock

vars == <<status, balance, txns, outbox, now>>

Init ==
  /\ status = InitialStatus
  /\ balance = Opening
  /\ txns = {}
  /\ outbox = <<>>
  /\ now = 0

Fresh(in) == \A x \in txns : x.id # in.id

Acceptable(in) ==
  /\ status[in.account] = "ACTIVE"
  /\ Authorized(in)
  /\ Fresh(in)
  /\ Covered(in, balance[in.account])

Suspicious(in, c, s) ==
  Exceeds(in, RecentOf(txns, Owner[in.account], c),
              Debits(RecentOf(txns, Owner[in.account], s)))

\* A request that the fraud rules let through.
Post(in, c, s, t) ==
  /\ Acceptable(in)
  /\ ~Suspicious(in, c, s)
  /\ txns' = txns \cup {NewRow(in, "COMPLETED", t)}
  /\ balance' = [balance EXCEPT ![in.account] = @ + Signed(in)]
  /\ outbox' = Append(outbox, CompletedOf(in, balance[in.account] + Signed(in)))
  /\ UNCHANGED <<status, now>>

\* A request that the fraud rules stop: recorded, announced, no money moved.
Block(in, c, s, t) ==
  /\ Acceptable(in)
  /\ Suspicious(in, c, s)
  /\ txns' = txns \cup {NewRow(in, "BLOCKED", t)}
  /\ outbox' = Append(outbox, BlockedOf(in))
  /\ UNCHANGED <<status, balance, now>>

OpenAccount(a) ==
  /\ status[a] = "ABSENT"
  /\ Owner[a] \in ActiveUsers
  /\ status' = [status EXCEPT ![a] = "ACTIVE"]
  /\ UNCHANGED <<balance, txns, outbox, now>>

Tick ==
  /\ now < Horizon
  /\ now' = now + 1
  /\ UNCHANGED <<status, balance, txns, outbox>>

Next ==
  \/ \E in \in Inputs, c \in 0..now : \E s \in c..now : \E t \in s..now :
       Post(in, c, s, t) \/ Block(in, c, s, t)
  \/ \E a \in Accounts : OpenAccount(a)
  \/ Tick

Spec == Init /\ [][Next]_vars
=============================================================================
