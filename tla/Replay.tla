-------------------------------- MODULE Replay --------------------------------
(***************************************************************************)
(* Readers of the outbox beside the workers of Settlement: the audit of a  *)
(* transaction reads its status and then, in a second query, its events;   *)
(* the replays of an account and of all accounts add up events.  Nothing   *)
(* is written here.  Answers 403 and 404 end an audit before it begins.    *)
(***************************************************************************)
EXTENDS Settlement

VARIABLE audit      \* the transaction being audited, and the status read

NoAudit == [txn |-> "none", status |-> "NONE"]

\* GET /replay/transactions/:transactionId, the first query.
BeginAudit(t) ==
  /\ audit = NoAudit
  /\ status[t] # "NONE"
  /\ audit' = [txn |-> t, status |-> status[t]]

\* What the second query finds whenever it runs.
Trace(t) == {e.kind : e \in {x \in outbox : x.txn = t}}

EndAudit == audit # NoAudit /\ audit' = NoAudit

AuditInit == Init /\ audit = NoAudit

AuditNext ==
  \/ Next /\ UNCHANGED audit
  \/ UNCHANGED vars /\ ((\E t \in Txns : BeginAudit(t)) \/ EndAudit)

AuditSpec == AuditInit /\ [][AuditNext]_<<vars, audit>>

\* The workers go on as in Settlement; nobody has to ask for an audit.
FairAuditSpec == AuditSpec /\ Fairness

\* rebuildBalances, for the events of one account.
Rebuilt(events) == MapThenSumSet(LAMBDA e : Signed(e.txn), events)

\* GET /replay/accounts/:accountId.
HistoryOf(a) ==
  {e \in outbox : e.kind = "TransactionCompleted" /\ AccountOf[e.txn] = a}

\* The script: the balances of all accounts.
Replayed == [a \in Accounts |-> Rebuilt(HistoryOf(a))]

-----------------------------------------------------------------------------

\* The events that are there by the time a transaction has a status.
Told(stat, kinds) ==
  CASE stat = "COMPLETED" -> "TransactionCompleted" \in kinds
    [] stat = "FINALIZED" ->
         {"TransactionCompleted", "LedgerUpdated", "TransactionFinalized"} \subseteq kinds
    [] stat = "BLOCKED" ->
         \/ "TransactionBlocked" \in kinds
         \/ {"TransactionCompleted", "TransactionCompensated"} \subseteq kinds

\* The events of an audit explain the status it reports, however far the workers
\* get between its two queries: a status never runs ahead of its events.
AuditExplainsStatus == audit # NoAudit => Told(audit.status, Trace(audit.txn))

\* The replayed history explains the balance up to what the account opened with.
ReplayRebuildsBalance ==
  \A a \in Accounts : balance[a] = Opening[a] + Replayed[a]

\* The transactions of an account whose money was given back.
GivenBack(a) == {t \in Txns : AccountOf[t] = a /\ Emitted("TransactionCompensated", t) # {}}

\* What replay does rebuild: each balance as if nothing had been compensated.  The
\* difference from the live balance is exactly what was given back.
ReplayCountsCompensated ==
  \A a \in Accounts :
    Opening[a] + Replayed[a] = balance[a] + MapThenSumSet(Signed, GivenBack(a))
=============================================================================
