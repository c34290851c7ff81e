--------------------------- MODULE SettlementProofs ---------------------------
(***************************************************************************)
(* Theorems about Settlement, for any transactions, accounts, amounts and  *)
(* numbers of handlers and scans, about what an audit (Replay) finds for   *)
(* any interleaving of its two queries with them, and about what replays   *)
(* of the events add up to.                                                *)
(***************************************************************************)
EXTENDS Replay, SumTheorems

\* The part of TypeOK about the tables, and the part about the workers.
TableType ==
  /\ status \in [Txns -> {"NONE", "COMPLETED", "BLOCKED", "FINALIZED"}]
  /\ balance \in [Accounts -> Int]
  /\ overdue \subseteq Txns /\ ledger \subseteq Txns
  /\ outbox \subseteq Event
  /\ processed \subseteq {"ledger", "finalization"} \X Event
  /\ passed \subseteq Event

Steps == {"idle", "lockRow", "record", "read", "finalize", "next", "lockCandidate",
          "checkLedger", "lockBalance", "compensate"}

ControlType ==
  /\ rowLock \in [Txns -> Workers \cup {Nobody}]
  /\ accountLock \in [Accounts -> Workers \cup {Nobody}]
  /\ pc \in [Workers -> Steps]
  /\ job \in [Workers -> Jobs]
  /\ batch \in [Scans -> SUBSET Txns]
  /\ found \in [Finalizers -> {"NONE", "COMPLETED", "BLOCKED", "FINALIZED"}]
  /\ funds \in [Scans -> Int]
  /\ faults \in Nat

\* What a worker relies on between two statements.
WorkerOK(w) ==
  /\ pc[w] \in {"lockRow", "record"} => job[w] \in outbox
  /\ pc[w] \in {"read", "finalize"} => job[w] \in outbox /\ job[w].kind = "LedgerUpdated"
  /\ pc[w] \in {"idle", "next"} => job[w] = NoJob
  /\ pc[w] \in {"lockCandidate", "checkLedger", "lockBalance", "compensate"} =>
       job[w].txn \in Txns
  /\ pc[w] \in {"record", "checkLedger", "lockBalance", "compensate"} =>
       rowLock[job[w].txn] = w
  /\ pc[w] \in {"checkLedger", "lockBalance", "compensate"} => status[job[w].txn] = "COMPLETED"
  /\ pc[w] \in {"lockBalance", "compensate"} => job[w].txn \notin ledger
  /\ w \in Finalizers /\ pc[w] = "finalize" /\ found[w] = "COMPLETED" => Moved(job[w].txn)

Ends == {"TransactionFinalized", "TransactionCompensated"}

\* What the events in the outbox tell of the other tables.
OutboxOK ==
  /\ IsFiniteSet(outbox)
  /\ \A e \in outbox : e.kind = "LedgerUpdated" => e.txn \in ledger
  /\ \A e, f \in outbox :
       e.kind = "LedgerUpdated" /\ f.kind = "LedgerUpdated" /\ e.txn = f.txn => e = f
  /\ \A e \in outbox : e.kind = "LedgerUpdated" /\ status[e.txn] = "FINALIZED" =>
       <<"finalization", e>> \in processed

\* How a transaction ended, and the one event that says so.
EndsOK ==
  /\ \A e, f \in outbox : e.kind \in Ends /\ f.kind \in Ends /\ e.txn = f.txn => e = f
  /\ \A e \in outbox : e.kind = "TransactionFinalized" => status[e.txn] = "FINALIZED"
  /\ \A e \in outbox : e.kind = "TransactionCompensated" => status[e.txn] = "BLOCKED"
  /\ \A t \in Txns : status[t] = "FINALIZED" =>
       \E e \in outbox : e.kind = "TransactionFinalized" /\ e.txn = t

TablesOK == OutboxOK /\ EndsOK /\ FinalizedHasLedger /\ NeverOverdrawn

IInv == TableType /\ ControlType /\ (\A w \in Workers : WorkerOK(w)) /\ TablesOK

-----------------------------------------------------------------------------

LEMMA TypeParts == TypeOK <=> TableType /\ ControlType
BY DEF TypeOK, TableType, ControlType, Steps

LEMMA SignedType == \A t \in Txns : Signed(t) \in Int
BY SettlementAssumption DEF Signed

LEMMA InitInv == Init => IInv
<1> SUFFICES ASSUME Init PROVE IInv
  OBVIOUS
<1>1. TableType
  BY SettlementAssumption DEF Init, TableType
<1>2. ControlType
  BY SettlementAssumption DEF Init, ControlType, Steps, Jobs
<1>3. \A w \in Workers : WorkerOK(w)
  BY DEF Init, WorkerOK
<1>4. TablesOK
  BY SettlementAssumption, FS_EmptySet DEF Init, TablesOK, OutboxOK, EndsOK, FinalizedHasLedger,
     NeverOverdrawn
<1>5. QED
  BY <1>1, <1>2, <1>3, <1>4 DEF IInv

\* An emission adds one event to the outbox.
LEMMA Emission ==
  ASSUME TableType, OutboxOK, NEW kind \in Kinds, NEW t \in Txns, Emit(kind, t)
  PROVE  /\ \E e \in Event : e.kind = kind /\ e.txn = t /\ outbox' = outbox \cup {e}
         /\ IsFiniteSet(outbox')
<1> DEFINE e == [kind |-> kind, txn |-> t, copy |-> Cardinality(Emitted(kind, t)) + 1]
<1>1. Cardinality(Emitted(kind, t)) \in Nat
  BY FS_Subset, FS_CardinalityType DEF OutboxOK, Emitted
<1>2. e \in Event /\ e.kind = kind /\ e.txn = t
  BY <1>1 DEF Event
<1>3. outbox' = outbox \cup {e}
  BY DEF Emit
<1>4. IsFiniteSet(outbox')
  BY <1>3, FS_AddElement DEF OutboxOK
<1>5. QED
  BY <1>2, <1>3, <1>4

\* What a worker relies on is not disturbed by a step of others that respects its
\* row lock and takes no recorded transaction's money away.
LEMMA OtherWorkerOK ==
  ASSUME IInv, NEW v \in Workers, pc'[v] = pc[v], job'[v] = job[v],
         v \in Finalizers => found'[v] = found[v],
         \A t \in Txns : rowLock[t] = v => rowLock'[t] = v,
         outbox \subseteq outbox',
         \A t \in Txns : rowLock[t] = v /\ status[t] = "COMPLETED" =>
                           status'[t] = "COMPLETED" /\ (t \in ledger' => t \in ledger),
         \A t \in Txns : t \in ledger /\ Moved(t) => Moved(t)'
  PROVE  WorkerOK(v)'
<1>1. WorkerOK(v) /\ TableType /\ OutboxOK
  BY DEF IInv, TablesOK
<1>2. \A e \in outbox : e \in Event /\ e.txn \in Txns
  BY <1>1 DEF TableType, Event
<1>3. pc[v] \in {"record", "checkLedger", "lockBalance", "compensate"} =>
        job[v].txn \in Txns /\ rowLock'[job[v].txn] = v
  BY <1>1, <1>2 DEF WorkerOK
<1>4. v \in Finalizers /\ pc[v] = "finalize" /\ found[v] = "COMPLETED" => Moved(job[v].txn)'
  BY <1>1, <1>2 DEF WorkerOK, OutboxOK, Moved
<1>5. pc[v] \in {"checkLedger", "lockBalance", "compensate"} => status'[job[v].txn] = "COMPLETED"
  BY <1>1, <1>2 DEF WorkerOK
<1>6. pc[v] \in {"lockBalance", "compensate"} => job[v].txn \notin ledger'
  BY <1>1, <1>2 DEF WorkerOK
<1>7. QED
  BY <1>1, <1>3, <1>4, <1>5, <1>6 DEF WorkerOK, Moved

\* A step of one worker that leaves the tables alone.
LEMMA ControlStep ==
  ASSUME IInv, NEW w \in Workers, UNCHANGED tables, overdue' = overdue,
         passed' \subseteq passed \cup outbox, ControlType', WorkerOK(w)',
         \A v \in Workers \ {w} : pc'[v] = pc[v] /\ job'[v] = job[v],
         \A v \in Finalizers \ {w} : found'[v] = found[v],
         \A t \in Txns : rowLock[t] \in Workers \ {w} => rowLock'[t] = rowLock[t]
  PROVE  IInv'
<1>1. UNCHANGED <<status, balance, ledger, outbox, processed, overdue>>
  BY DEF tables
<1>2. TableType' /\ TablesOK'
  BY <1>1 DEF IInv, TableType, TablesOK, OutboxOK, EndsOK, FinalizedHasLedger, NeverOverdrawn
<1>3. ASSUME NEW v \in Workers, v # w PROVE WorkerOK(v)'
  BY <1>1, <1>3, OtherWorkerOK DEF Moved
<1>4. QED
  BY <1>2, <1>3 DEF IInv

\* A worker that goes back to rest.
LEMMA RestControl ==
  ASSUME IInv, NEW w \in Workers, Rest(w), faults' \in Nat
  PROVE  /\ ControlType' /\ pc'[w] = "idle" /\ WorkerOK(w)'
         /\ \A v \in Workers \ {w} : pc'[v] = pc[v] /\ job'[v] = job[v]
         /\ \A v \in Finalizers \ {w} : found'[v] = found[v]
         /\ \A t \in Txns : rowLock[t] \in Workers \ {w} => rowLock'[t] = rowLock[t]
<1>1. ControlType
  BY DEF IInv
<1>2. /\ rowLock' = [t \in Txns |-> IF rowLock[t] = w THEN Nobody ELSE rowLock[t]]
      /\ accountLock' = [a \in Accounts |->
                           IF accountLock[a] = w THEN Nobody ELSE accountLock[a]]
      /\ pc' = [pc EXCEPT ![w] = "idle"]
      /\ job' = [job EXCEPT ![w] = NoJob]
      /\ batch' = [s \in Scans |-> IF s = w THEN {} ELSE batch[s]]
      /\ found' = [f \in Finalizers |-> IF f = w THEN "NONE" ELSE found[f]]
      /\ funds' = [s \in Scans |-> IF s = w THEN 0 ELSE funds[s]]
  BY DEF Rest, Release
<1>3. NoJob \in Jobs /\ "idle" \in Steps
  BY DEF Jobs, Steps
<1>4. /\ rowLock' \in [Txns -> Workers \cup {Nobody}]
      /\ accountLock' \in [Accounts -> Workers \cup {Nobody}]
      /\ pc' \in [Workers -> Steps]
      /\ job' \in [Workers -> Jobs]
  BY <1>1, <1>2, <1>3 DEF ControlType
<1>5. /\ batch' \in [Scans -> SUBSET Txns]
      /\ found' \in [Finalizers -> {"NONE", "COMPLETED", "BLOCKED", "FINALIZED"}]
      /\ funds' \in [Scans -> Int]
  BY <1>1, <1>2 DEF ControlType
<1>6. /\ pc'[w] = "idle" /\ job'[w] = NoJob
      /\ \A v \in Workers \ {w} : pc'[v] = pc[v] /\ job'[v] = job[v]
      /\ \A v \in Finalizers \ {w} : found'[v] = found[v]
      /\ \A t \in Txns : rowLock[t] \in Workers \ {w} => rowLock'[t] = rowLock[t]
  BY <1>1, <1>2 DEF ControlType
<1>7. ControlType'
  BY <1>4, <1>5 DEF ControlType
<1>8. WorkerOK(w)'
  BY <1>6 DEF WorkerOK
<1>9. QED
  BY <1>6, <1>7, <1>8

LEMMA RestInv ==
  ASSUME IInv, NEW w \in Workers,
         RecordFails(w) \/ FinalizeFails(w) \/ EndScan(w) \/ Fail(w)
  PROVE  IInv'
<1>1. Rest(w) /\ UNCHANGED tables /\ overdue' = overdue /\ faults' \in Nat
  BY DEF RecordFails, FinalizeFails, EndScan, Fail, IInv, ControlType
<1>2. passed' \subseteq passed \cup outbox
  <2>1. passed' = passed \/ (pc[w] \in {"read", "finalize"} /\ passed' = passed \cup {job[w]})
    BY DEF RecordFails, FinalizeFails, EndScan, Fail, GiveUpOrRetry
  <2>2. pc[w] \in {"read", "finalize"} => job[w] \in outbox
    BY DEF IInv, WorkerOK
  <2>3. QED
    BY <2>1, <2>2
<1>3. QED
  BY <1>1, <1>2, RestControl, ControlStep

\* An event is passed without a handler.
LEMMA IgnoreInv ==
  ASSUME IInv, NEW w \in Finalizers, Ignore(w)
  PROVE  IInv'
<1>1. /\ UNCHANGED <<tables, overdue, rowLock, accountLock, pc, job, batch, found, funds>>
      /\ faults' \in Nat /\ passed' \subseteq passed \cup outbox
  BY DEF Ignore, locks, IInv, ControlType
<1>2. ControlType'
  BY <1>1 DEF IInv, ControlType
<1>3. w \in Workers /\ WorkerOK(w)'
  BY <1>1 DEF Workers, tables, IInv, WorkerOK, Moved
<1>4. QED
  BY <1>1, <1>2, <1>3, ControlStep

LEMMA DeliverInv ==
  ASSUME IInv, NEW w \in Workers, TakeCompleted(w) \/ TakeLedgerUpdated(w)
  PROVE  IInv'
<1>1. PICK e \in outbox : job' = [job EXCEPT ![w] = e] /\
        (pc' = [pc EXCEPT ![w] = "lockRow"]
           \/ (e.kind = "LedgerUpdated" /\ pc' = [pc EXCEPT ![w] = "read"]))
  BY DEF TakeCompleted, TakeLedgerUpdated, Deliver
<1>2. UNCHANGED <<tables, overdue, passed, rowLock, accountLock, batch, found, funds, faults>>
  BY DEF TakeCompleted, TakeLedgerUpdated, Deliver, locks
<1>3. ControlType /\ e \in Jobs /\ {"lockRow", "read"} \subseteq Steps
  BY DEF IInv, TableType, Jobs, Steps
<1>4. /\ ControlType' /\ job'[w] = e
      /\ pc'[w] = "lockRow" \/ (e.kind = "LedgerUpdated" /\ pc'[w] = "read")
      /\ \A v \in Workers \ {w} : pc'[v] = pc[v] /\ job'[v] = job[v]
  BY <1>1, <1>2, <1>3 DEF ControlType
<1>5. WorkerOK(w)'
  BY <1>2, <1>4 DEF WorkerOK, tables
<1>6. QED
  BY <1>2, <1>4, <1>5, ControlStep

LEMMA LockRowInv ==
  ASSUME IInv, NEW w \in Workers, LockRow(w)
  PROVE  IInv'
<1>1. /\ pc[w] = "lockRow" /\ rowLock[job[w].txn] = Nobody
      /\ rowLock' = [rowLock EXCEPT ![job[w].txn] = w] /\ pc' = [pc EXCEPT ![w] = "record"]
      /\ UNCHANGED <<tables, overdue, passed, accountLock, job, batch, found, funds, faults>>
  BY DEF LockRow
<1>2. ControlType /\ "record" \in Steps /\ job[w] \in outbox /\ job[w].txn \in Txns
  BY <1>1 DEF IInv, WorkerOK, TableType, Event, Steps
<1>3. /\ ControlType' /\ pc'[w] = "record" /\ rowLock'[job[w].txn] = w
      /\ \A v \in Workers \ {w} : pc'[v] = pc[v]
      /\ \A t \in Txns : rowLock[t] \in Workers \ {w} => rowLock'[t] = rowLock[t]
  BY <1>1, <1>2, SettlementAssumption DEF ControlType
<1>4. WorkerOK(w)'
  BY <1>1, <1>2, <1>3 DEF WorkerOK, tables
<1>5. QED
  BY <1>1, <1>3, <1>4, ControlStep

LEMMA ReadStatusInv ==
  ASSUME IInv, NEW w \in Finalizers, ReadStatus(w)
  PROVE  IInv'
<1>1. /\ pc[w] = "read" /\ found' = [found EXCEPT ![w] = status[job[w].txn]]
      /\ pc' = [pc EXCEPT ![w] = "finalize"]
      /\ UNCHANGED <<tables, overdue, passed, rowLock, accountLock, job, batch, funds, faults>>
  BY DEF ReadStatus, locks
<1>2. w \in Workers
  BY DEF Workers
<1>3. /\ ControlType /\ TableType /\ "finalize" \in Steps /\ job[w] \in outbox
      /\ job[w].txn \in Txns /\ job[w].kind = "LedgerUpdated"
  BY <1>1, <1>2 DEF IInv, WorkerOK, TableType, Event, Steps
<1>4. /\ ControlType' /\ pc'[w] = "finalize" /\ found'[w] = status[job[w].txn]
      /\ \A v \in Workers \ {w} : pc'[v] = pc[v]
      /\ \A v \in Finalizers \ {w} : found'[v] = found[v]
  BY <1>1, <1>2, <1>3 DEF ControlType, TableType
<1>5. WorkerOK(w)'
  BY <1>1, <1>2, <1>3, <1>4 DEF WorkerOK, Moved, tables
<1>6. QED
  BY <1>1, <1>2, <1>4, <1>5, ControlStep

LEMMA StartScanInv ==
  ASSUME IInv, NEW s \in Scans, StartScan(s)
  PROVE  IInv'
<1>1. PICK b \in SUBSET Due : batch' = [batch EXCEPT ![s] = b]
  BY DEF StartScan, kSubset
<1>2. /\ pc' = [pc EXCEPT ![s] = "next"]
      /\ UNCHANGED <<tables, overdue, passed, rowLock, accountLock, job, found, funds, faults>>
  BY DEF StartScan, locks
<1>3. s \in Workers /\ ControlType /\ "next" \in Steps /\ b \in SUBSET Txns
  BY DEF IInv, TableType, Due, Workers, Steps
<1>4. /\ ControlType' /\ pc'[s] = "next" /\ \A v \in Workers \ {s} : pc'[v] = pc[v]
  BY <1>1, <1>2, <1>3 DEF ControlType
<1>5. job[s] = NoJob
  BY <1>3 DEF StartScan, IInv, WorkerOK
<1>6. WorkerOK(s)'
  BY <1>2, <1>4, <1>5 DEF WorkerOK
<1>7. QED
  BY <1>2, <1>3, <1>4, <1>6, ControlStep

LEMMA NextCandidateInv ==
  ASSUME IInv, NEW s \in Scans, NextCandidate(s)
  PROVE  IInv'
<1>1. PICK t \in batch[s] : /\ batch' = [batch EXCEPT ![s] = @ \ {t}]
                            /\ job' = [job EXCEPT ![s].txn = t]
  BY DEF NextCandidate
<1>2. /\ pc[s] = "next" /\ pc' = [pc EXCEPT ![s] = "lockCandidate"]
      /\ UNCHANGED <<tables, overdue, passed, rowLock, accountLock, found, funds, faults>>
  BY DEF NextCandidate, locks
<1>3. /\ s \in Workers /\ ControlType /\ "lockCandidate" \in Steps /\ job[s] = NoJob
  BY <1>2 DEF IInv, WorkerOK, Workers, Steps
<1>4. t \in Txns /\ batch' \in [Scans -> SUBSET Txns]
  BY <1>1, <1>3 DEF ControlType
<1>5. job' = [job EXCEPT ![s] = [NoJob EXCEPT !.txn = t]]
  BY <1>1, <1>3
<1>6. [NoJob EXCEPT !.txn = t] = [kind |-> "none", txn |-> t, copy |-> 0]
  BY DEF NoJob
<1>7. [NoJob EXCEPT !.txn = t] \in Jobs
  BY <1>4, <1>6 DEF Jobs
<1>8. /\ job' \in [Workers -> Jobs] /\ job'[s].txn = t
      /\ \A v \in Workers \ {s} : job'[v] = job[v]
  BY <1>3, <1>5, <1>6, <1>7 DEF ControlType
<1>9. /\ ControlType' /\ pc'[s] = "lockCandidate"
      /\ \A v \in Workers \ {s} : pc'[v] = pc[v]
  BY <1>2, <1>3, <1>4, <1>8 DEF ControlType
<1>10. WorkerOK(s)'
  BY <1>4, <1>8, <1>9 DEF WorkerOK
<1>11. QED
  BY <1>2, <1>3, <1>8, <1>9, <1>10, ControlStep

\* A scan that has dealt with a candidate.
LEMMA ContinueControl ==
  ASSUME IInv, NEW s \in Scans, Continue(s)
  PROVE  /\ ControlType' /\ WorkerOK(s)' /\ UNCHANGED <<overdue, passed>>
         /\ \A v \in Workers \ {s} : pc'[v] = pc[v] /\ job'[v] = job[v]
         /\ \A v \in Finalizers \ {s} : found'[v] = found[v]
         /\ \A t \in Txns : rowLock[t] \in Workers \ {s} => rowLock'[t] = rowLock[t]
<1>1. ControlType /\ s \in Workers /\ NoJob \in Jobs /\ "next" \in Steps
  BY DEF IInv, Workers, Jobs, Steps
<1>2. /\ rowLock' = [t \in Txns |-> IF rowLock[t] = s THEN Nobody ELSE rowLock[t]]
      /\ accountLock' = [a \in Accounts |->
                           IF accountLock[a] = s THEN Nobody ELSE accountLock[a]]
      /\ pc' = [pc EXCEPT ![s] = "next"] /\ job' = [job EXCEPT ![s] = NoJob]
      /\ funds' = [funds EXCEPT ![s] = 0] /\ UNCHANGED <<overdue, passed, batch, found, faults>>
  BY DEF Continue, Release
<1>3. ControlType'
  BY <1>1, <1>2 DEF ControlType
<1>4. /\ pc'[s] = "next" /\ job'[s] = NoJob
      /\ \A v \in Workers \ {s} : pc'[v] = pc[v] /\ job'[v] = job[v]
      /\ \A t \in Txns : rowLock[t] \in Workers \ {s} => rowLock'[t] = rowLock[t]
  BY <1>1, <1>2 DEF ControlType
<1>5. WorkerOK(s)'
  BY <1>4 DEF WorkerOK
<1>6. QED
  BY <1>2, <1>3, <1>4, <1>5

LEMMA ContinueInv ==
  ASSUME IInv, NEW s \in Scans, SkipSettled(s) \/ SkipRecorded(s) \/ UnableToCompensate(s)
  PROVE  IInv'
<1>1. Continue(s) /\ UNCHANGED tables /\ s \in Workers
  BY DEF SkipSettled, SkipRecorded, UnableToCompensate, Workers
<1>2. QED
  BY <1>1, ContinueControl, ControlStep

\* A scan goes from one check of its candidate to the next.
LEMMA CheckInv ==
  ASSUME IInv, NEW s \in Scans, LockCandidate(s) \/ LedgerMissing(s) \/ LockBalance(s)
  PROVE  IInv'
<1>1. /\ s \in Workers /\ ControlType /\ TableType /\ WorkerOK(s)
      /\ {"checkLedger", "lockBalance", "compensate"} \subseteq Steps
  BY DEF IInv, Workers, Steps
<1>2. UNCHANGED <<tables, overdue, passed, job, batch, found, faults>>
  BY DEF LockCandidate, LedgerMissing, LockBalance, locks
<1>3. UNCHANGED <<status, ledger, outbox>>
  BY <1>2 DEF tables
<1>4. CASE LockCandidate(s)
  <2>1. /\ pc[s] = "lockCandidate" /\ pc' = [pc EXCEPT ![s] = "checkLedger"]
        /\ rowLock[job[s].txn] = Nobody /\ status[job[s].txn] = "COMPLETED"
        /\ rowLock' = [rowLock EXCEPT ![job[s].txn] = s] /\ UNCHANGED <<accountLock, funds>>
    BY <1>4 DEF LockCandidate
  <2>2. job[s].txn \in Txns
    BY <1>1, <2>1 DEF WorkerOK
  <2>3. /\ ControlType' /\ pc'[s] = "checkLedger" /\ rowLock'[job[s].txn] = s
        /\ \A v \in Workers \ {s} : pc'[v] = pc[v]
        /\ \A t \in Txns : rowLock[t] \in Workers \ {s} => rowLock'[t] = rowLock[t]
    BY <1>1, <1>2, <2>1, <2>2, SettlementAssumption DEF ControlType
  <2>4. WorkerOK(s)'
    BY <1>2, <1>3, <2>1, <2>2, <2>3 DEF WorkerOK
  <2>5. QED
    BY <1>1, <1>2, <2>3, <2>4, ControlStep
<1>5. CASE LedgerMissing(s)
  <2>1. /\ pc[s] = "checkLedger" /\ pc' = [pc EXCEPT ![s] = "lockBalance"]
        /\ job[s].txn \notin ledger /\ UNCHANGED <<rowLock, accountLock, funds>>
    BY <1>5 DEF LedgerMissing, locks
  <2>2. /\ ControlType' /\ pc'[s] = "lockBalance" /\ \A v \in Workers \ {s} : pc'[v] = pc[v]
    BY <1>1, <1>2, <2>1 DEF ControlType
  <2>3. WorkerOK(s)'
    BY <1>1, <1>2, <1>3, <2>1, <2>2 DEF WorkerOK
  <2>4. QED
    BY <1>1, <1>2, <2>1, <2>2, <2>3, ControlStep
<1>6. CASE LockBalance(s)
  <2>1. /\ pc[s] = "lockBalance" /\ pc' = [pc EXCEPT ![s] = "compensate"]
        /\ accountLock' = [accountLock EXCEPT ![AccountOf[job[s].txn]] = s]
        /\ funds' = [funds EXCEPT ![s] = balance[AccountOf[job[s].txn]]] /\ UNCHANGED rowLock
    BY <1>6 DEF LockBalance
  <2>2. job[s].txn \in Txns
    BY <1>1, <2>1 DEF WorkerOK
  <2>3. AccountOf[job[s].txn] \in Accounts /\ balance[AccountOf[job[s].txn]] \in Int
    BY <1>1, <2>2, SettlementAssumption DEF TableType
  <2>4. /\ ControlType' /\ pc'[s] = "compensate" /\ \A v \in Workers \ {s} : pc'[v] = pc[v]
    BY <1>1, <1>2, <2>1, <2>3 DEF ControlType
  <2>5. WorkerOK(s)'
    BY <1>1, <1>2, <1>3, <2>1, <2>4 DEF WorkerOK
  <2>6. QED
    BY <1>1, <1>2, <2>1, <2>4, <2>5, ControlStep
<1>7. QED
  BY <1>4, <1>5, <1>6

-----------------------------------------------------------------------------
(* The steps that change the tables *)

\* A step of w, or of the API if w is Nobody, that others do not notice.
LEMMA OthersOK ==
  ASSUME IInv, NEW w \in Workers \cup {Nobody},
         \A v \in Workers \ {w} : pc'[v] = pc[v] /\ job'[v] = job[v],
         \A v \in Finalizers \ {w} : found'[v] = found[v],
         \A t \in Txns : rowLock[t] \in Workers \ {w} => rowLock'[t] = rowLock[t],
         outbox \subseteq outbox',
         \A t \in Txns : status[t] = "COMPLETED" /\ rowLock[t] \in Workers \ {w} =>
                           status'[t] = "COMPLETED" /\ (t \in ledger' => t \in ledger),
         \A t \in Txns : t \in ledger /\ Moved(t) => Moved(t)'
  PROVE  \A v \in Workers \ {w} : WorkerOK(v)'
BY OtherWorkerOK

LEMMA PostInv ==
  ASSUME IInv, NEW t \in Txns, Post(t)
  PROVE  IInv'
<1>1. /\ status[t] = "NONE" /\ status' = [status EXCEPT ![t] = "COMPLETED"]
      /\ TypeOf[t] = "DEBIT" => AmountOf[t] < balance[AccountOf[t]]
      /\ balance' = [balance EXCEPT ![AccountOf[t]] = @ + Signed(t)]
      /\ Emit("TransactionCompleted", t)
      /\ UNCHANGED <<overdue, passed, ledger, processed, rowLock, accountLock, pc, job, batch,
                     found, funds, faults>>
  BY DEF Post, locks
<1>2. TableType /\ ControlType /\ OutboxOK /\ EndsOK /\ FinalizedHasLedger /\ NeverOverdrawn
  BY DEF IInv, TablesOK
<1>3. PICK e \in Event : /\ e.kind = "TransactionCompleted" /\ e.txn = t
                         /\ outbox' = outbox \cup {e} /\ IsFiniteSet(outbox')
  BY <1>1, <1>2, Emission DEF Kinds
<1>4. AccountOf[t] \in Accounts /\ AmountOf[t] \in Nat /\ Signed(t) \in Int
  BY SignedType, SettlementAssumption
<1>5. TableType'
  BY <1>1, <1>2, <1>3, <1>4 DEF TableType
<1>6. ControlType'
  BY <1>1, <1>2 DEF ControlType
<1>7. \A w \in Workers : WorkerOK(w)'
  BY <1>1, <1>2, <1>3, OthersOK, SettlementAssumption DEF TableType, Moved
<1>8. OutboxOK'
  BY <1>1, <1>2, <1>3 DEF OutboxOK, TableType, Event
<1>9. EndsOK'
  BY <1>1, <1>2, <1>3 DEF EndsOK, Ends, TableType, Event
<1>10. FinalizedHasLedger'
  BY <1>1, <1>2 DEF FinalizedHasLedger, TableType
<1>11. NeverOverdrawn'
  BY <1>1, <1>2, <1>4, SettlementAssumption DEF NeverOverdrawn, Signed, TableType
<1>12. QED
  BY <1>5, <1>6, <1>7, <1>8, <1>9, <1>10, <1>11 DEF IInv, TablesOK

LEMMA BlockInv ==
  ASSUME IInv, NEW t \in Txns, Block(t)
  PROVE  IInv'
<1>1. /\ status[t] = "NONE" /\ status' = [status EXCEPT ![t] = "BLOCKED"]
      /\ Emit("TransactionBlocked", t)
      /\ UNCHANGED <<balance, overdue, passed, ledger, processed, rowLock, accountLock, pc, job,
                     batch, found, funds, faults>>
  BY DEF Block, locks
<1>2. TableType /\ ControlType /\ OutboxOK /\ EndsOK /\ FinalizedHasLedger /\ NeverOverdrawn
  BY DEF IInv, TablesOK
<1>3. PICK e \in Event : /\ e.kind = "TransactionBlocked" /\ e.txn = t
                         /\ outbox' = outbox \cup {e} /\ IsFiniteSet(outbox')
  BY <1>1, <1>2, Emission DEF Kinds
<1>4. TableType' /\ ControlType'
  BY <1>1, <1>2, <1>3 DEF TableType, ControlType
<1>5. \A w \in Workers : WorkerOK(w)'
  BY <1>1, <1>2, <1>3, OthersOK, SettlementAssumption DEF TableType, Moved
<1>6. OutboxOK'
  BY <1>1, <1>2, <1>3 DEF OutboxOK, TableType, Event
<1>7. EndsOK'
  BY <1>1, <1>2, <1>3 DEF EndsOK, Ends, TableType, Event
<1>8. FinalizedHasLedger' /\ NeverOverdrawn'
  BY <1>1, <1>2 DEF FinalizedHasLedger, NeverOverdrawn, TableType
<1>9. QED
  BY <1>4, <1>5, <1>6, <1>7, <1>8 DEF IInv, TablesOK

\* Time passes, or nothing happens.
LEMMA IdleInv ==
  ASSUME IInv, (\E t \in Txns : Expire(t)) \/ UNCHANGED vars
  PROVE  IInv'
<1>1. UNCHANGED <<status, balance, ledger, outbox, processed, passed, rowLock, accountLock, pc,
                  job, batch, found, funds, faults>>
  BY DEF Expire, vars, tables, locks
<1>2. TableType'
  <2>1. overdue' \subseteq Txns
    BY DEF Expire, vars, IInv, TableType
  <2>2. QED
    BY <1>1, <2>1 DEF IInv, TableType
<1>3. ControlType' /\ \A w \in Workers : WorkerOK(w)'
  BY <1>1 DEF IInv, ControlType, WorkerOK, Moved
<1>4. TablesOK'
  BY <1>1 DEF IInv, TablesOK, OutboxOK, EndsOK, FinalizedHasLedger, NeverOverdrawn
<1>5. QED
  BY <1>2, <1>3, <1>4 DEF IInv

LEMMA RecordInv ==
  ASSUME IInv, NEW w \in Workers, Record(w)
  PROVE  IInv'
<1>1. /\ pc[w] = "record" /\ ledger' = ledger \cup {job[w].txn}
      /\ job[w].txn \notin ledger /\ Emit("LedgerUpdated", job[w].txn)
      /\ processed' = processed \cup {<<"ledger", job[w]>>}
      /\ Rest(w) /\ UNCHANGED <<status, balance, overdue, passed, faults>>
  BY DEF Record, Recorded
<1>2. TableType /\ ControlType /\ OutboxOK /\ EndsOK /\ FinalizedHasLedger /\ NeverOverdrawn
  BY DEF IInv, TablesOK
<1>3. PICK t \in Txns : t = job[w].txn /\ job[w] \in Event /\ rowLock[t] = w
  BY <1>1, <1>2 DEF IInv, WorkerOK, TableType, Event
<1>4. PICK e \in Event : /\ e.kind = "LedgerUpdated" /\ e.txn = t
                         /\ outbox' = outbox \cup {e} /\ IsFiniteSet(outbox')
  BY <1>1, <1>2, <1>3, Emission DEF Kinds
<1>5. /\ ControlType' /\ WorkerOK(w)'
      /\ \A v \in Workers \ {w} : pc'[v] = pc[v] /\ job'[v] = job[v]
      /\ \A v \in Finalizers \ {w} : found'[v] = found[v]
      /\ \A x \in Txns : rowLock[x] \in Workers \ {w} => rowLock'[x] = rowLock[x]
  BY <1>1, <1>2, RestControl DEF ControlType
<1>6. TableType'
  BY <1>1, <1>2, <1>3, <1>4 DEF TableType
<1>7. \A v \in Workers \ {w} : WorkerOK(v)'
  BY <1>1, <1>3, <1>4, <1>5, OthersOK DEF Moved
<1>8. OutboxOK'
  <2>1. status[t] # "FINALIZED"
    BY <1>1, <1>2, <1>3 DEF FinalizedHasLedger
  <2>2. QED
    BY <1>1, <1>2, <1>3, <1>4, <2>1 DEF OutboxOK
<1>9. EndsOK'
  BY <1>1, <1>2, <1>4 DEF EndsOK, Ends
<1>10. FinalizedHasLedger' /\ NeverOverdrawn'
  BY <1>1, <1>2 DEF FinalizedHasLedger, NeverOverdrawn
<1>11. QED
  BY <1>5, <1>6, <1>7, <1>8, <1>9, <1>10 DEF IInv, TablesOK

\* Its one LedgerUpdated event makes a transaction go from COMPLETED to FINALIZED once.
LEMMA FinalizeOnce ==
  ASSUME IInv, NEW w \in Finalizers, Finalize(w)
  PROVE  /\ w \in Workers /\ job[w] \in outbox /\ job[w].kind = "LedgerUpdated"
         /\ job[w].txn \in Txns /\ job[w].txn \in ledger /\ status[job[w].txn] = "COMPLETED"
<1>1. pc[w] = "finalize" /\ found[w] = "COMPLETED" /\ <<"finalization", job[w]>> \notin processed
  BY DEF Finalize, Seen
<1>2. w \in Workers /\ WorkerOK(w) /\ OutboxOK /\ TableType
  BY DEF IInv, TablesOK, Workers
<1>3. job[w] \in outbox /\ job[w].kind = "LedgerUpdated" /\ Moved(job[w].txn)
  BY <1>1, <1>2 DEF WorkerOK
<1>4. job[w].txn \in ledger /\ job[w].txn \in Txns /\ status[job[w].txn] # "FINALIZED"
  BY <1>1, <1>2, <1>3 DEF OutboxOK, TableType, Event
<1>5. QED
  BY <1>2, <1>3, <1>4 DEF Moved

LEMMA FinalizeInv ==
  ASSUME IInv, NEW w \in Finalizers, Finalize(w)
  PROVE  IInv'
<1>1. /\ rowLock[job[w].txn] = Nobody
      /\ status' = [status EXCEPT ![job[w].txn] = "FINALIZED"]
      /\ Emit("TransactionFinalized", job[w].txn)
      /\ processed' = processed \cup {<<"finalization", job[w]>>}
      /\ Rest(w) /\ UNCHANGED <<balance, overdue, passed, ledger, faults>>
  BY DEF Finalize
<1>2. TableType /\ ControlType /\ OutboxOK /\ EndsOK /\ FinalizedHasLedger /\ NeverOverdrawn
  BY DEF IInv, TablesOK
<1>3. PICK t \in Txns : t = job[w].txn /\ t \in ledger /\ status[t] = "COMPLETED"
  BY FinalizeOnce
<1>4. w \in Workers /\ job[w] \in outbox /\ job[w] \in Event /\ job[w].kind = "LedgerUpdated"
  BY <1>2, FinalizeOnce DEF TableType
<1>5. PICK e \in Event : /\ e.kind = "TransactionFinalized" /\ e.txn = t
                         /\ outbox' = outbox \cup {e} /\ IsFiniteSet(outbox')
  BY <1>1, <1>2, <1>3, Emission DEF Kinds
<1>6. /\ ControlType' /\ WorkerOK(w)'
      /\ \A v \in Workers \ {w} : pc'[v] = pc[v] /\ job'[v] = job[v]
      /\ \A v \in Finalizers \ {w} : found'[v] = found[v]
      /\ \A x \in Txns : rowLock[x] \in Workers \ {w} => rowLock'[x] = rowLock[x]
  BY <1>1, <1>2, <1>4, RestControl DEF ControlType
<1>7. TableType'
  BY <1>1, <1>2, <1>3, <1>4, <1>5 DEF TableType
<1>8. \A v \in Workers \ {w} : WorkerOK(v)'
  BY <1>1, <1>2, <1>3, <1>4, <1>5, <1>6, OthersOK, SettlementAssumption DEF Moved, TableType
<1>9. OutboxOK'
  BY <1>1, <1>2, <1>3, <1>4, <1>5 DEF OutboxOK, TableType, Event
<1>10. EndsOK'
  BY <1>1, <1>2, <1>3, <1>5 DEF EndsOK, Ends, TableType, Event
<1>11. FinalizedHasLedger' /\ NeverOverdrawn'
  BY <1>1, <1>2, <1>3 DEF FinalizedHasLedger, NeverOverdrawn, TableType
<1>12. QED
  BY <1>6, <1>7, <1>8, <1>9, <1>10, <1>11 DEF IInv, TablesOK

LEMMA NothingToFinalizeInv ==
  ASSUME IInv, NEW w \in Finalizers, NothingToFinalize(w)
  PROVE  IInv'
<1>1. /\ pc[w] = "finalize" /\ processed' = processed \cup {<<"finalization", job[w]>>}
      /\ Rest(w) /\ UNCHANGED <<status, balance, overdue, passed, ledger, outbox, faults>>
  BY DEF NothingToFinalize
<1>2. TableType /\ ControlType /\ OutboxOK /\ EndsOK /\ FinalizedHasLedger /\ NeverOverdrawn
  BY DEF IInv, TablesOK
<1>3. w \in Workers /\ job[w] \in Event
  BY <1>1, <1>2 DEF IInv, WorkerOK, Workers, TableType
<1>4. /\ ControlType' /\ WorkerOK(w)'
      /\ \A v \in Workers \ {w} : pc'[v] = pc[v] /\ job'[v] = job[v]
      /\ \A v \in Finalizers \ {w} : found'[v] = found[v]
      /\ \A x \in Txns : rowLock[x] \in Workers \ {w} => rowLock'[x] = rowLock[x]
  BY <1>1, <1>2, <1>3, RestControl DEF ControlType
<1>5. TableType'
  BY <1>1, <1>2, <1>3 DEF TableType
<1>6. \A v \in Workers \ {w} : WorkerOK(v)'
  BY <1>1, <1>3, <1>4, OthersOK DEF Moved
<1>7. OutboxOK' /\ EndsOK' /\ FinalizedHasLedger' /\ NeverOverdrawn'
  BY <1>1, <1>2 DEF OutboxOK, EndsOK, FinalizedHasLedger, NeverOverdrawn
<1>8. QED
  BY <1>4, <1>5, <1>6, <1>7 DEF IInv, TablesOK

LEMMA CompensateInv ==
  ASSUME IInv, NEW s \in Scans, Compensate(s)
  PROVE  IInv'
<1>1. /\ pc[s] = "compensate" /\ BalanceAfter(s) >= 0
      /\ balance' = [balance EXCEPT ![AccountOf[job[s].txn]] = BalanceAfter(s)]
      /\ status' = [status EXCEPT ![job[s].txn] = "BLOCKED"]
      /\ Emit("TransactionCompensated", job[s].txn)
      /\ Continue(s) /\ UNCHANGED <<ledger, processed>>
  BY DEF Compensate, Undone
<1>2. TableType /\ ControlType /\ OutboxOK /\ EndsOK /\ FinalizedHasLedger /\ NeverOverdrawn
  BY DEF IInv, TablesOK
<1>3. s \in Workers /\ WorkerOK(s)
  BY DEF IInv, Workers
<1>4. PICK t \in Txns : t = job[s].txn /\ t \notin ledger /\ status[t] = "COMPLETED"
                        /\ rowLock[t] = s
  BY <1>1, <1>3 DEF WorkerOK
<1>5. PICK e \in Event : /\ e.kind = "TransactionCompensated" /\ e.txn = t
                         /\ outbox' = outbox \cup {e} /\ IsFiniteSet(outbox')
  BY <1>1, <1>2, <1>4, Emission DEF Kinds
<1>6. /\ ControlType' /\ WorkerOK(s)' /\ UNCHANGED <<overdue, passed>>
      /\ \A v \in Workers \ {s} : pc'[v] = pc[v] /\ job'[v] = job[v]
      /\ \A v \in Finalizers \ {s} : found'[v] = found[v]
      /\ \A x \in Txns : rowLock[x] \in Workers \ {s} => rowLock'[x] = rowLock[x]
  BY <1>1, ContinueControl
<1>7. AccountOf[t] \in Accounts /\ BalanceAfter(s) \in Int
  BY <1>2, <1>4, SignedType, SettlementAssumption DEF BalanceAfter, ControlType
<1>8. TableType'
  BY <1>1, <1>2, <1>4, <1>5, <1>6, <1>7 DEF TableType
<1>9. \A v \in Workers \ {s} : WorkerOK(v)'
  BY <1>1, <1>2, <1>3, <1>4, <1>5, <1>6, OthersOK DEF Moved, TableType
<1>10. OutboxOK'
  BY <1>1, <1>2, <1>4, <1>5 DEF OutboxOK, TableType, Event
<1>11. EndsOK'
  BY <1>1, <1>2, <1>4, <1>5 DEF EndsOK, Ends, TableType, Event
<1>12. FinalizedHasLedger'
  BY <1>1, <1>2, <1>4 DEF FinalizedHasLedger, TableType
<1>13. NeverOverdrawn'
  BY <1>1, <1>2, <1>7 DEF NeverOverdrawn, TableType
<1>14. QED
  BY <1>6, <1>8, <1>9, <1>10, <1>11, <1>12, <1>13 DEF IInv, TablesOK

LEMMA NextInv == IInv /\ [Next]_vars => IInv'
<1> SUFFICES ASSUME IInv, [Next]_vars PROVE IInv'
  OBVIOUS
<1>0. LedgerWorkers \cup Finalizers \cup Scans = Workers
  BY DEF Workers
<1>1. CASE (\E t \in Txns : Post(t) \/ Block(t) \/ Expire(t)) \/ UNCHANGED vars
  BY <1>1, PostInv, BlockInv, IdleInv
<1>2. ASSUME NEW w \in LedgerWorkers, LedgerStep(w) PROVE IInv'
  BY <1>0, <1>2, DeliverInv, LockRowInv, RecordInv, RestInv DEF LedgerStep
<1>3. ASSUME NEW w \in Finalizers, FinalizerStep(w) PROVE IInv'
  BY <1>0, <1>3, DeliverInv, ReadStatusInv, FinalizeInv, NothingToFinalizeInv, RestInv
     DEF FinalizerStep
<1>4. ASSUME NEW s \in Scans, ScanStep(s) PROVE IInv'
  BY <1>0, <1>4, StartScanInv, NextCandidateInv, ContinueInv, CheckInv, CompensateInv, RestInv
     DEF ScanStep
<1>5. ASSUME NEW w \in Workers, Fail(w) PROVE IInv'
  BY <1>5, RestInv
<1>6. ASSUME NEW w \in Finalizers, Ignore(w) PROVE IInv'
  BY <1>6, IgnoreInv
<1>7. QED
  BY <1>1, <1>2, <1>3, <1>4, <1>5, <1>6 DEF Next

LEMMA EndsAreOne == IInv => OneOutcome
<1> SUFFICES ASSUME IInv, NEW t \in Txns
             PROVE  LET done == Emitted("TransactionFinalized", t)
                        undone == Emitted("TransactionCompensated", t)
                    IN  /\ Cardinality(done \cup undone) <= 1
                        /\ done # {} <=> status[t] = "FINALIZED"
                        /\ undone # {} => status[t] = "BLOCKED"
  BY DEF OneOutcome
<1> DEFINE ends == Emitted("TransactionFinalized", t) \cup Emitted("TransactionCompensated", t)
<1>1. EndsOK
  BY DEF IInv, TablesOK
<1>2. \A e, f \in ends : e = f
  BY <1>1 DEF EndsOK, Ends, Emitted
<1>3. ends = {} \/ \E e : ends = {e}
  BY <1>2
<1>4. Cardinality(ends) <= 1
  <2> HIDE DEF ends
  <2>1. CASE ends = {}
    <3>1. Cardinality(ends) = 0
      BY <2>1, FS_EmptySet
    <3>2. QED
      BY <3>1
  <2>2. CASE \E e : ends = {e}
    <3>1. Cardinality(ends) = 1
      BY <2>2, FS_Singleton, Zenon
    <3>2. QED
      BY <3>1
  <2>3. QED
    BY <1>3, <2>1, <2>2
<1>5. Emitted("TransactionFinalized", t) # {} <=> status[t] = "FINALIZED"
  BY <1>1 DEF EndsOK, Emitted
<1>6. Emitted("TransactionCompensated", t) # {} => status[t] = "BLOCKED"
  BY <1>1 DEF EndsOK, Emitted
<1>7. QED
  BY <1>4, <1>5, <1>6

\* No step takes back the money of a recorded transaction.
LEMMA StepKeepsRecorded ==
  ASSUME IInv, [Next]_vars, NEW t \in Txns, t \in ledger, Moved(t)
  PROVE  Moved(t)'
<1>1. status \in [Txns -> {"NONE", "COMPLETED", "BLOCKED", "FINALIZED"}]
  BY DEF IInv, TableType
<1>2. ASSUME NEW s \in Scans, Compensate(s) PROVE status'[t] = status[t]
  <2>1. job[s].txn # t /\ status' = [status EXCEPT ![job[s].txn] = Undone]
    BY <1>2 DEF Compensate, IInv, WorkerOK, Workers
  <2>2. QED
    BY <1>1, <2>1
<1>3. ASSUME NEW w \in Finalizers, Finalize(w)
      PROVE  status'[t] = status[t] \/ status'[t] = "FINALIZED"
  BY <1>1, <1>3 DEF Finalize
<1>4. ASSUME NEW x \in Txns, Post(x) \/ Block(x) PROVE status'[t] = status[t]
  BY <1>1, <1>4 DEF Post, Block, Moved
<1>5. \/ status' = status
      \/ \E s \in Scans : Compensate(s)
      \/ \E w \in Finalizers : Finalize(w)
      \/ \E x \in Txns : Post(x) \/ Block(x)
  BY DEF Next, Expire, LedgerStep, FinalizerStep, ScanStep, TakeCompleted, TakeLedgerUpdated,
     Deliver, LockRow, Record, RecordFails, ReadStatus, NothingToFinalize, FinalizeFails,
     StartScan, NextCandidate, LockCandidate, SkipSettled, SkipRecorded, LedgerMissing,
     LockBalance, UnableToCompensate, EndScan, Fail, Ignore, vars, tables
<1>6. QED
  BY <1>2, <1>3, <1>4, <1>5 DEF Moved

-----------------------------------------------------------------------------
(* The money *)

Money == [t \in Txns |-> Signed(t)]

MovedOf(a) == {t \in Txns : AccountOf[t] = a /\ Moved(t)}

\* A scan about to compensate holds the account, whose balance is what it read.
FundsOK ==
  \A s \in Scans : pc[s] = "compensate" =>
    /\ accountLock[AccountOf[job[s].txn]] = s
    /\ funds[s] = balance[AccountOf[job[s].txn]]

MoneyOK == FundsOK /\ BalanceMatchesStatus /\ \A a \in Accounts : IsFiniteSet(MovedOf(a))

\* What the model adds up is the sum of the money, in any order.
LEMMA MoneyIsSum ==
  ASSUME NEW S, S \subseteq Txns, IsFiniteSet(S)
  PROVE  MapThenSumSet(Signed, S) = SumOf(Money, S)
<1> DEFINE Adds(g) ==
             g = [s \in SUBSET S |-> IF s = {} THEN 0 ELSE Signed(Pick(s)) + g[s \ {Pick(s)}]]
<1>1. MapThenSumSet(Signed, S) = (CHOOSE g : Adds(g))[S]
  BY DEF MapThenSumSet, MapThenFoldSet, Pick
<1>2. ASSUME NEW g PROVE Adds(g) <=> Sums(g, Money, S)
  <2> DEFINE v(s) == IF s = {} THEN 0 ELSE Signed(Pick(s)) + g[s \ {Pick(s)}]
             w(s) == IF s = {} THEN 0 ELSE Money[Pick(s)] + g[s \ {Pick(s)}]
  <2>1. \A s \in SUBSET S : v(s) = w(s)
    BY PickIsIn DEF Money
  <2>2. [s \in SUBSET S |-> v(s)] = [s \in SUBSET S |-> w(s)]
    <3> HIDE DEF v, w
    <3>1. QED
      BY <2>1
  <2>3. QED
    BY <2>2 DEF Sums
<1>3. \E g : Sums(g, Money, S)
  BY SumsExist
<1>4. Sums(CHOOSE g : Adds(g), Money, S)
  <2>1. \E g : Adds(g)
    BY <1>2, <1>3
  <2> HIDE DEF Adds
  <2>2. Adds(CHOOSE g : Adds(g))
    BY <2>1
  <2>3. QED
    BY <1>2, <2>2
<1>5. QED
  BY <1>1, <1>4, SumIsUnique

\* A transaction enters the sum of its account, or leaves it.
LEMMA MoneyWith ==
  ASSUME NEW S, S \subseteq Txns, IsFiniteSet(S), NEW t \in Txns \ S
  PROVE  /\ MapThenSumSet(Signed, S \cup {t}) = MapThenSumSet(Signed, S) + Signed(t)
         /\ MapThenSumSet(Signed, S) \in Int
<1>1. \A x \in Txns : Money[x] \in Int /\ Money[x] = Signed(x)
  BY SignedType DEF Money
<1>2. IsFiniteSet(S \cup {t}) /\ S \cup {t} \subseteq Txns
  BY FS_AddElement
<1>3. SumOf(Money, S \cup {t}) = SumOf(Money, S) + Money[t] /\ SumOf(Money, S) \in Int
  BY <1>1, SumWith, SumIsInt
<1>4. QED
  BY <1>1, <1>2, <1>3, MoneyIsSum

\* No money moves before anything is posted.
LEMMA InitMoney == Init => MoneyOK
<1> SUFFICES ASSUME Init PROVE MoneyOK
  OBVIOUS
<1>1. ASSUME NEW a \in Accounts
      PROVE  IsFiniteSet(MovedOf(a)) /\ balance[a] = Opening[a] + MapThenSumSet(Signed, MovedOf(a))
  <2>1. MovedOf(a) = {} /\ balance[a] = Opening[a] /\ Opening[a] \in Int
    BY SettlementAssumption DEF Init, MovedOf, Moved
  <2>2. MapThenSumSet(Signed, {}) = 0
    BY MoneyIsSum, SumOfNothing, FS_EmptySet
  <2>3. QED
    BY <2>1, <2>2, FS_EmptySet
<1>2. FundsOK
  BY DEF Init, FundsOK, Workers
<1>3. QED
  BY <1>1, <1>2 DEF MoneyOK, BalanceMatchesStatus, MovedOf

\* A step of w, or of the API if w is Nobody, that leaves the accounts others hold.
LEMMA FundsStep ==
  ASSUME IInv, FundsOK, NEW w \in Workers \cup {Nobody},
         \A v \in Scans \ {w} : pc'[v] = pc[v] /\ job'[v] = job[v] /\ funds'[v] = funds[v],
         \A a \in Accounts : accountLock[a] \in Scans \ {w} =>
                               accountLock'[a] = accountLock[a] /\ balance'[a] = balance[a],
         w \in Scans /\ pc'[w] = "compensate" =>
           /\ accountLock'[AccountOf[job'[w].txn]] = w
           /\ funds'[w] = balance'[AccountOf[job'[w].txn]]
  PROVE  FundsOK'
<1>1. ASSUME NEW v \in Scans \ {w}, pc'[v] = "compensate"
      PROVE  /\ accountLock'[AccountOf[job'[v].txn]] = v
             /\ funds'[v] = balance'[AccountOf[job'[v].txn]]
  <2>1. /\ pc[v] = "compensate" /\ job'[v] = job[v] /\ funds'[v] = funds[v]
        /\ accountLock[AccountOf[job[v].txn]] = v
        /\ funds[v] = balance[AccountOf[job[v].txn]]
    BY <1>1 DEF FundsOK
  <2>2. AccountOf[job[v].txn] \in Accounts
    BY <2>1, SettlementAssumption DEF IInv, WorkerOK, Workers
  <2>3. QED
    BY <2>1, <2>2
<1>2. QED
  BY <1>1 DEF FundsOK

\* Resting or going on gives back the accounts of that worker only.
LEMMA RestFunds ==
  ASSUME IInv, NEW w \in Workers, Rest(w) \/ (w \in Scans /\ Continue(w))
  PROVE  /\ \A v \in Scans \ {w} : pc'[v] = pc[v] /\ job'[v] = job[v] /\ funds'[v] = funds[v]
         /\ \A a \in Accounts : accountLock[a] \in Scans \ {w} => accountLock'[a] = accountLock[a]
         /\ pc'[w] # "compensate"
<1>1. /\ pc \in [Workers -> Steps] /\ job \in [Workers -> Jobs] /\ funds \in [Scans -> Int]
      /\ Scans \subseteq Workers
  BY DEF IInv, ControlType, Workers
<1>2. CASE Rest(w)
  BY <1>1, <1>2 DEF Rest, Release
<1>3. CASE w \in Scans /\ Continue(w)
  BY <1>1, <1>3 DEF Continue, Release
<1>4. QED
  BY <1>2, <1>3

\* Who gives back an account, or does not touch one, leaves the other scans theirs.
LEMMA NextFunds ==
  ASSUME IInv, FundsOK, [Next]_vars
  PROVE  FundsOK'
<1>0. /\ ControlType /\ TableType /\ Nobody \notin Workers /\ Scans \subseteq Workers
      /\ LedgerWorkers \subseteq Workers /\ Finalizers \subseteq Workers
      /\ LedgerWorkers \cap Scans = {} /\ Finalizers \cap Scans = {}
  BY SettlementAssumption DEF IInv, Workers
<1>1. ASSUME NEW t \in Txns, Post(t) PROVE FundsOK'
  <2>1. AccountOf[t] \in Accounts /\ accountLock[AccountOf[t]] = Nobody
    BY <1>1, SettlementAssumption DEF Post
  <2>2. \A a \in Accounts : accountLock[a] \in Scans => balance'[a] = balance[a]
    BY <1>0, <1>1, <2>1 DEF Post, TableType
  <2>3. UNCHANGED <<accountLock, pc, job, funds>>
    BY <1>1 DEF Post, locks
  <2>4. QED
    BY <1>0, <2>2, <2>3, FundsStep
<1>2. CASE UNCHANGED <<accountLock, balance, pc, job, funds>>
  BY <1>2 DEF FundsOK
<1>3. ASSUME NEW w \in Workers, UNCHANGED balance, Rest(w) \/ (w \in Scans /\ Continue(w))
      PROVE  FundsOK'
  BY <1>3, RestFunds, FundsStep
<1>4. ASSUME NEW w \in Workers, UNCHANGED <<accountLock, balance, funds>>,
             NEW step \in Steps \ {"compensate"}, pc' = [pc EXCEPT ![w] = step],
             \A v \in Workers \ {w} : job'[v] = job[v]
      PROVE  FundsOK'
  <2>1. pc'[w] = step /\ \A v \in Workers \ {w} : pc'[v] = pc[v]
    BY <1>0, <1>4 DEF ControlType
  <2>2. QED
    BY <1>0, <1>4, <2>1, FundsStep
<1>5. ASSUME NEW s \in Scans, LockBalance(s) PROVE FundsOK'
  <2>1. /\ pc[s] = "lockBalance" /\ pc' = [pc EXCEPT ![s] = "compensate"]
        /\ accountLock[AccountOf[job[s].txn]] = Nobody
        /\ accountLock' = [accountLock EXCEPT ![AccountOf[job[s].txn]] = s]
        /\ funds' = [funds EXCEPT ![s] = balance[AccountOf[job[s].txn]]]
        /\ UNCHANGED <<balance, job>>
    BY <1>5 DEF LockBalance, tables
  <2>2. AccountOf[job[s].txn] \in Accounts
    BY <1>0, <2>1, SettlementAssumption DEF IInv, WorkerOK
  <2>3. /\ accountLock'[AccountOf[job[s].txn]] = s
        /\ funds'[s] = balance[AccountOf[job[s].txn]]
        /\ \A a \in Accounts : accountLock[a] # Nobody => accountLock'[a] = accountLock[a]
        /\ \A v \in Scans \ {s} : pc'[v] = pc[v] /\ funds'[v] = funds[v]
    BY <1>0, <2>1, <2>2 DEF ControlType
  <2>4. QED
    BY <1>0, <2>1, <2>3, FundsStep
<1>6. ASSUME NEW s \in Scans, Compensate(s) PROVE FundsOK'
  <2>1. /\ pc[s] = "compensate" /\ Continue(s)
        /\ balance' = [balance EXCEPT ![AccountOf[job[s].txn]] = BalanceAfter(s)]
    BY <1>6 DEF Compensate
  <2>2. accountLock[AccountOf[job[s].txn]] = s
    BY <2>1 DEF FundsOK
  <2>3. \A a \in Accounts : accountLock[a] \in Scans \ {s} => balance'[a] = balance[a]
    BY <1>0, <2>1, <2>2 DEF TableType
  <2>4. QED
    BY <1>0, <2>1, <2>3, RestFunds, FundsStep
<1>7. ASSUME NEW t \in Txns, Block(t) \/ Expire(t) PROVE FundsOK'
  BY <1>2, <1>7 DEF Block, Expire, tables, locks
<1>8. ASSUME NEW w \in LedgerWorkers, LedgerStep(w) PROVE FundsOK'
  <2>1. CASE TakeCompleted(w)
    BY <1>0, <1>4, <2>1 DEF TakeCompleted, Deliver, tables, locks, Steps, ControlType
  <2>2. CASE LockRow(w)
    BY <1>0, <1>4, <2>2 DEF LockRow, tables, Steps
  <2>3. CASE Record(w) \/ RecordFails(w)
    BY <1>0, <1>3, <2>3 DEF Record, RecordFails, tables
  <2>4. QED
    BY <1>8, <2>1, <2>2, <2>3 DEF LedgerStep
<1>9. ASSUME NEW w \in Finalizers, FinalizerStep(w) PROVE FundsOK'
  <2>1. CASE TakeLedgerUpdated(w)
    BY <1>0, <1>4, <2>1 DEF TakeLedgerUpdated, Deliver, tables, locks, Steps, ControlType
  <2>2. CASE ReadStatus(w)
    BY <1>0, <1>4, <2>2 DEF ReadStatus, tables, locks, Steps
  <2>3. CASE Finalize(w) \/ NothingToFinalize(w) \/ FinalizeFails(w)
    BY <1>0, <1>3, <2>3 DEF Finalize, NothingToFinalize, FinalizeFails, tables
  <2>4. QED
    BY <1>9, <2>1, <2>2, <2>3 DEF FinalizerStep
<1>10. ASSUME NEW s \in Scans, ScanStep(s) PROVE FundsOK'
  <2>1. CASE StartScan(s)
    BY <1>0, <1>4, <2>1 DEF StartScan, tables, locks, Steps
  <2>2. CASE NextCandidate(s)
    BY <1>0, <1>4, <2>2 DEF NextCandidate, tables, locks, Steps, ControlType
  <2>3. CASE LockCandidate(s)
    BY <1>0, <1>4, <2>3 DEF LockCandidate, tables, Steps
  <2>4. CASE LedgerMissing(s)
    BY <1>0, <1>4, <2>4 DEF LedgerMissing, tables, locks, Steps
  <2>5. CASE SkipSettled(s) \/ SkipRecorded(s) \/ UnableToCompensate(s) \/ EndScan(s)
    BY <1>0, <1>3, <2>5 DEF SkipSettled, SkipRecorded, UnableToCompensate, EndScan, tables
  <2>6. QED
    BY <1>5, <1>6, <1>10, <2>1, <2>2, <2>3, <2>4, <2>5 DEF ScanStep
<1>11. ASSUME NEW w \in Workers, Fail(w) PROVE FundsOK'
  BY <1>3, <1>11 DEF Fail, tables
<1>12. CASE UNCHANGED vars
  BY <1>2, <1>12 DEF vars
<1>13. ASSUME NEW w \in Finalizers, Ignore(w) PROVE FundsOK'
  BY <1>2, <1>13 DEF Ignore, tables, locks
<1>14. QED
  BY <1>1, <1>7, <1>8, <1>9, <1>10, <1>11, <1>12, <1>13 DEF Next

\* Only a posting and a compensation move money.
LEMMA Movers ==
  ASSUME IInv, [Next]_vars
  PROVE  \/ UNCHANGED balance /\ \A t \in Txns : Moved(t)' <=> Moved(t)
         \/ \E t \in Txns : Post(t)
         \/ \E s \in Scans : Compensate(s)
<1>1. status \in [Txns -> {"NONE", "COMPLETED", "BLOCKED", "FINALIZED"}]
  BY DEF IInv, TableType
<1>2. ASSUME NEW t \in Txns, Block(t)
      PROVE  UNCHANGED balance /\ \A x \in Txns : Moved(x)' <=> Moved(x)
  BY <1>1, <1>2 DEF Block, Moved
<1>3. ASSUME NEW w \in Finalizers, Finalize(w)
      PROVE  UNCHANGED balance /\ \A x \in Txns : Moved(x)' <=> Moved(x)
  <2>1. job[w].txn \in Txns /\ status[job[w].txn] = "COMPLETED"
    BY <1>3, FinalizeOnce
  <2>2. QED
    BY <1>1, <1>3, <2>1 DEF Finalize, Moved
<1>4. \/ UNCHANGED <<status, balance>>
      \/ \E t \in Txns : Post(t) \/ Block(t)
      \/ \E w \in Finalizers : Finalize(w)
      \/ \E s \in Scans : Compensate(s)
  BY DEF Next, Expire, LedgerStep, FinalizerStep, ScanStep, TakeCompleted, TakeLedgerUpdated,
     Deliver, LockRow, Record, RecordFails, ReadStatus, NothingToFinalize, FinalizeFails,
     StartScan, NextCandidate, LockCandidate, SkipSettled, SkipRecorded, LedgerMissing,
     LockBalance, UnableToCompensate, EndScan, Fail, Ignore, vars, tables
<1>5. CASE UNCHANGED <<status, balance>>
  BY <1>5 DEF Moved
<1>6. QED
  BY <1>2, <1>3, <1>4, <1>5

LEMMA NextMoney ==
  ASSUME IInv, MoneyOK, [Next]_vars
  PROVE  MoneyOK'
<1>1. FundsOK'
  BY NextFunds DEF MoneyOK
<1>2. /\ TableType /\ AccountOf \in [Txns -> Accounts] /\ Opening \in [Accounts -> Nat]
      /\ \A t \in Txns : Signed(t) \in Int
  BY SettlementAssumption, SignedType DEF IInv
<1>3. \A a \in Accounts : /\ balance[a] = Opening[a] + MapThenSumSet(Signed, MovedOf(a))
                          /\ IsFiniteSet(MovedOf(a))
  BY DEF MoneyOK, BalanceMatchesStatus, MovedOf
<1> DEFINE Right(a) == /\ balance'[a] = Opening[a] + MapThenSumSet(Signed, MovedOf(a)')
                       /\ IsFiniteSet(MovedOf(a)')
<1>4. SUFFICES ASSUME NEW a \in Accounts PROVE Right(a)
  BY <1>1 DEF MoneyOK, BalanceMatchesStatus, MovedOf
<1>5. ASSUME balance'[a] = balance[a],
             \A t \in Txns : AccountOf[t] = a => (Moved(t)' <=> Moved(t))
      PROVE  Right(a)
  <2>1. MovedOf(a)' = MovedOf(a)
    BY <1>5 DEF MovedOf
  <2>2. QED
    BY <1>3, <1>5, <2>1
<1>6. ASSUME NEW t \in Txns, Post(t) PROVE Right(a)
  <2>1. /\ status[t] = "NONE" /\ status' = [status EXCEPT ![t] = "COMPLETED"]
        /\ balance' = [balance EXCEPT ![AccountOf[t]] = @ + Signed(t)]
    BY <1>6 DEF Post
  <2>2. CASE a # AccountOf[t]
    BY <1>2, <1>5, <2>1, <2>2 DEF TableType, Moved
  <2>3. CASE a = AccountOf[t]
    <3>1. MovedOf(a)' = MovedOf(a) \cup {t} /\ t \notin MovedOf(a) /\ MovedOf(a) \subseteq Txns
      BY <1>2, <2>1, <2>3 DEF TableType, MovedOf, Moved
    <3>2. /\ MapThenSumSet(Signed, MovedOf(a) \cup {t})
               = MapThenSumSet(Signed, MovedOf(a)) + Signed(t)
          /\ MapThenSumSet(Signed, MovedOf(a)) \in Int
      BY <1>3, <3>1, MoneyWith
    <3>3. balance'[a] = balance[a] + Signed(t)
      BY <1>2, <2>1, <2>3 DEF TableType
    <3>4. IsFiniteSet(MovedOf(a) \cup {t})
      BY <1>3, FS_AddElement
    <3>5. Opening[a] \in Int /\ Signed(t) \in Int
      BY <1>2
    <3> DEFINE before == MapThenSumSet(Signed, MovedOf(a))
               after == MapThenSumSet(Signed, MovedOf(a) \cup {t})
    <3>6. balance'[a] = Opening[a] + after
      <4>1. balance[a] = Opening[a] + before /\ after = before + Signed(t) /\ before \in Int
        BY <1>3, <3>2
      <4> HIDE DEF before, after
      <4>2. QED
        BY <3>3, <3>5, <4>1
    <3>7. QED
      BY <3>1, <3>4, <3>6
  <2>4. QED
    BY <2>2, <2>3
<1>7. ASSUME NEW s \in Scans, Compensate(s) PROVE Right(a)
  <2>1. /\ pc[s] = "compensate" /\ status' = [status EXCEPT ![job[s].txn] = "BLOCKED"]
        /\ balance' = [balance EXCEPT ![AccountOf[job[s].txn]] = BalanceAfter(s)]
    BY <1>7 DEF Compensate, Undone
  <2>2. PICK t \in Txns : t = job[s].txn /\ status[t] = "COMPLETED"
    BY <2>1 DEF IInv, WorkerOK, Workers
  <2>3. BalanceAfter(s) = balance[AccountOf[t]] - Signed(t)
    BY <2>1, <2>2 DEF MoneyOK, FundsOK, BalanceAfter
  <2>4. CASE a # AccountOf[t]
    BY <1>2, <1>5, <2>1, <2>2, <2>4 DEF TableType, Moved
  <2>5. CASE a = AccountOf[t]
    <3> DEFINE S == MovedOf(a) \ {t}
    <3>1. MovedOf(a)' = S /\ t \in MovedOf(a) /\ MovedOf(a) \subseteq Txns
      BY <1>2, <2>1, <2>2, <2>5 DEF TableType, MovedOf, Moved
    <3>2. MovedOf(a) = S \cup {t} /\ t \in Txns \ S /\ S \subseteq Txns
      BY <3>1
    <3>3. IsFiniteSet(S)
      BY <1>3, FS_Subset
    <3>4. /\ MapThenSumSet(Signed, MovedOf(a)) = MapThenSumSet(Signed, S) + Signed(t)
          /\ MapThenSumSet(Signed, S) \in Int
      <4> HIDE DEF S
      <4>1. QED
        BY <3>2, <3>3, MoneyWith
    <3>5. balance'[a] = balance[a] - Signed(t)
      BY <1>2, <2>1, <2>2, <2>3, <2>5 DEF TableType
    <3>6. Opening[a] \in Int /\ Signed(t) \in Int
      BY <1>2
    <3> DEFINE before == MapThenSumSet(Signed, MovedOf(a))
               after == MapThenSumSet(Signed, S)
    <3>7. balance'[a] = Opening[a] + after
      <4>1. balance[a] = Opening[a] + before /\ before = after + Signed(t) /\ after \in Int
        BY <1>3, <3>4
      <4> HIDE DEF before, after, S
      <4>2. QED
        BY <3>5, <3>6, <4>1
    <3>8. QED
      BY <3>1, <3>3, <3>7
  <2>6. QED
    BY <2>4, <2>5
<1>8. QED
  BY <1>5, <1>6, <1>7, Movers

-----------------------------------------------------------------------------
(* What every behaviour satisfies *)

LEMMA Invariance == Spec => []IInv
BY InitInv, NextInv, PTL DEF Spec

\* The variables keep their types.
THEOREM TypeCorrect == Spec => []TypeOK
<1>1. IInv => TypeOK
  BY TypeParts DEF IInv
<1>2. QED
  BY <1>1, Invariance, PTL

\* However handlers and scans race, a transaction ends once, and one event says how.
THEOREM EndsOnce == Spec => []OneOutcome
BY Invariance, EndsAreOne, PTL

\* Only what the ledger recorded is finalized.
THEOREM FinalizedWasRecorded == Spec => []FinalizedHasLedger
<1>1. IInv => FinalizedHasLedger
  BY DEF IInv, TablesOK
<1>2. QED
  BY <1>1, Invariance, PTL

\* Debits and compensated credits never make a balance negative.
THEOREM BalancesStayPositive == Spec => []NeverOverdrawn
<1>1. IInv => NeverOverdrawn
  BY DEF IInv, TablesOK
<1>2. QED
  BY <1>1, Invariance, PTL

\* What the ledger recorded is not compensated any more.
THEOREM RecordedIsKept == Spec => RecordedStaysMoved
<1>1. IInv /\ [Next]_vars => [\A t \in Txns : t \in ledger /\ Moved(t) => Moved(t)']_vars
  BY StepKeepsRecorded
<1>2. QED
  BY <1>1, Invariance, PTL DEF Spec, RecordedStaysMoved

\* Each account holds what it opened with and what its completed and finalized
\* transactions moved: no lost update, no money given back twice or not at all.
THEOREM BalancesMatch == Spec => []BalanceMatchesStatus
<1>1. Init => IInv /\ MoneyOK
  BY InitInv, InitMoney
<1>2. IInv /\ MoneyOK /\ [Next]_vars => (IInv /\ MoneyOK)'
  BY NextInv, NextMoney
<1>3. MoneyOK => BalanceMatchesStatus
  BY DEF MoneyOK
<1>4. QED
  BY <1>1, <1>2, <1>3, PTL DEF Spec

-----------------------------------------------------------------------------
(* Audits *)

\* The status of a row never runs ahead of the events in the outbox.
Explained == \A t \in Txns : status[t] # "NONE" => Told(status[t], Trace(t))

AuditType == audit = NoAudit \/ audit \in [txn : Txns, status : {"COMPLETED", "BLOCKED", "FINALIZED"}]

AuditInv == IInv /\ Explained /\ AuditType /\ AuditExplainsStatus

-----------------------------------------------------------------------------

\* More events explain what fewer explained.
LEMMA ToldMore ==
  ASSUME NEW stat, NEW S, NEW T, S \subseteq T, Told(stat, S),
         stat \in {"COMPLETED", "BLOCKED", "FINALIZED"}
  PROVE  Told(stat, T)
BY DEF Told

\* Events are only ever added to the outbox, and a change of status comes with the
\* events that explain it.
LEMMA StepExplains ==
  ASSUME IInv, Explained, [Next]_vars
  PROVE  Explained' /\ outbox \subseteq outbox'
<1>1. TableType /\ OutboxOK /\ \A w \in Workers : WorkerOK(w)
  BY DEF IInv, TablesOK
<1>2. ASSUME NEW t \in Txns, NEW kind \in Kinds, Emit(kind, t)
      PROVE  outbox \subseteq outbox' /\ kind \in Trace(t)'
  BY <1>1, <1>2, Emission DEF Trace
<1>3. ASSUME NEW t \in Txns, outbox \subseteq outbox' PROVE Trace(t) \subseteq Trace(t)'
  BY <1>3 DEF Trace
<1>4. ASSUME NEW t \in Txns, outbox \subseteq outbox', NEW stat, Told(stat, Trace(t)'),
             stat \in {"COMPLETED", "BLOCKED", "FINALIZED"},
             status' = [status EXCEPT ![t] = stat]
      PROVE  Explained'
  <2>1. SUFFICES ASSUME NEW x \in Txns, status'[x] # "NONE" PROVE Told(status'[x], Trace(x)')
    BY DEF Explained
  <2>2. CASE x = t
    BY <1>1, <1>4, <2>2 DEF TableType
  <2>3. CASE x # t
    BY <1>1, <1>3, <1>4, <2>1, <2>3, ToldMore DEF TableType, Explained
  <2>4. QED
    BY <2>2, <2>3
<1>5. ASSUME NEW t \in Txns, Post(t) PROVE Explained' /\ outbox \subseteq outbox'
  BY <1>2, <1>4, <1>5 DEF Post, Told, Kinds
<1>6. ASSUME NEW t \in Txns, Block(t) PROVE Explained' /\ outbox \subseteq outbox'
  BY <1>2, <1>4, <1>6 DEF Block, Told, Kinds
<1>7. ASSUME NEW w \in Finalizers, Finalize(w) PROVE Explained' /\ outbox \subseteq outbox'
  <2>1. PICK t \in Txns : /\ t = job[w].txn /\ status[t] = "COMPLETED"
                          /\ job[w] \in outbox /\ job[w].kind = "LedgerUpdated"
    BY <1>7, FinalizeOnce
  <2>2. outbox \subseteq outbox' /\ "TransactionFinalized" \in Trace(t)'
    BY <1>2, <1>7, <2>1 DEF Finalize, Kinds
  <2>3. "LedgerUpdated" \in Trace(t) /\ "TransactionCompleted" \in Trace(t)
    BY <2>1 DEF Explained, Told, Trace
  <2>4. Told("FINALIZED", Trace(t)')
    BY <1>3, <2>2, <2>3 DEF Told
  <2>5. QED
    BY <1>4, <1>7, <2>1, <2>2, <2>4 DEF Finalize
<1>8. ASSUME NEW s \in Scans, Compensate(s) PROVE Explained' /\ outbox \subseteq outbox'
  <2>1. PICK t \in Txns : t = job[s].txn /\ status[t] = "COMPLETED"
    BY <1>1, <1>8 DEF Compensate, WorkerOK, Workers
  <2>2. outbox \subseteq outbox' /\ "TransactionCompensated" \in Trace(t)'
    BY <1>2, <1>8, <2>1 DEF Compensate, Kinds
  <2>3. "TransactionCompleted" \in Trace(t)
    BY <2>1 DEF Explained, Told
  <2>4. Told("BLOCKED", Trace(t)')
    BY <1>3, <2>2, <2>3 DEF Told
  <2>5. QED
    BY <1>4, <1>8, <2>1, <2>2, <2>4 DEF Compensate, Undone
<1>9. ASSUME status' = status, outbox \subseteq outbox' PROVE Explained'
  BY <1>1, <1>3, <1>9, ToldMore DEF Explained, TableType
<1>10. ASSUME NEW w \in Workers, Record(w) PROVE status' = status /\ outbox \subseteq outbox'
  <2>1. job[w].txn \in Txns
    BY <1>1, <1>10 DEF Record, WorkerOK, TableType, Event
  <2>2. QED
    BY <1>2, <1>10, <2>1 DEF Record, Kinds
<1>11. \/ UNCHANGED <<status, outbox>>
       \/ \E t \in Txns : Post(t) \/ Block(t)
       \/ \E w \in Workers : Record(w)
       \/ \E w \in Finalizers : Finalize(w)
       \/ \E s \in Scans : Compensate(s)
  BY DEF Next, Expire, LedgerStep, FinalizerStep, ScanStep, TakeCompleted, TakeLedgerUpdated,
     Deliver, LockRow, RecordFails, ReadStatus, NothingToFinalize, FinalizeFails,
     StartScan, NextCandidate, LockCandidate, SkipSettled, SkipRecorded, LedgerMissing,
     LockBalance, UnableToCompensate, EndScan, Fail, Ignore, vars, tables, Workers
<1>12. QED
  BY <1>5, <1>6, <1>7, <1>8, <1>9, <1>10, <1>11

LEMMA AuditInitInv == AuditInit => AuditInv
<1> SUFFICES ASSUME AuditInit PROVE AuditInv
  OBVIOUS
<1>1. IInv
  BY InitInv DEF AuditInit
<1>2. Explained /\ AuditType /\ AuditExplainsStatus
  BY DEF AuditInit, Init, Explained, AuditType, AuditExplainsStatus
<1>3. QED
  BY <1>1, <1>2 DEF AuditInv

LEMMA AuditNextInv == AuditInv /\ [AuditNext]_<<vars, audit>> => AuditInv'
<1> SUFFICES ASSUME AuditInv, [AuditNext]_<<vars, audit>> PROVE AuditInv'
  OBVIOUS
<1>1. CASE [Next]_vars /\ UNCHANGED audit
  <2>1. IInv' /\ Explained' /\ outbox \subseteq outbox'
    BY <1>1, NextInv, StepExplains DEF AuditInv
  <2>2. AuditType' /\ AuditExplainsStatus'
    <3>1. AuditType'
      BY <1>1 DEF AuditInv, AuditType
    <3>2. Trace(audit.txn) \subseteq Trace(audit.txn)'
      BY <1>1, <2>1 DEF Trace
    <3>3. AuditExplainsStatus'
      BY <1>1, <3>2, ToldMore DEF AuditInv, AuditType, AuditExplainsStatus
    <3>4. QED
      BY <3>1, <3>3
  <2>3. QED
    BY <2>1, <2>2 DEF AuditInv
<1>2. CASE UNCHANGED vars /\ ((\E t \in Txns : BeginAudit(t)) \/ EndAudit)
  <2>1. IInv' /\ Explained'
    BY <1>2, NextInv, StepExplains DEF AuditInv
  <2>2. CASE \E t \in Txns : BeginAudit(t)
    <3>1. PICK t \in Txns : status[t] # "NONE" /\ audit' = [txn |-> t, status |-> status[t]]
      BY <2>2 DEF BeginAudit
    <3>2. AuditType'
      BY <3>1 DEF AuditType, AuditInv, IInv, TableType
    <3>3. Told(status[t], Trace(t)) /\ outbox' = outbox
      BY <1>2, <3>1 DEF AuditInv, Explained, vars
    <3>4. AuditExplainsStatus'
      BY <3>1, <3>3 DEF AuditExplainsStatus, Trace
    <3>5. QED
      BY <2>1, <3>2, <3>4 DEF AuditInv
  <2>3. CASE EndAudit
    BY <2>1, <2>3 DEF EndAudit, AuditInv, AuditType, AuditExplainsStatus
  <2>4. QED
    BY <1>2, <2>2, <2>3
<1>3. QED
  BY <1>1, <1>2 DEF AuditNext

-----------------------------------------------------------------------------
(* Replays *)

EventMoney == [e \in Event |-> Signed(e.txn)]

HistoryInv ==
  /\ \A e \in outbox : status[e.txn] # "NONE"
  /\ \A a \in Accounts : IsFiniteSet(GivenBack(a))
  /\ ReplayCountsCompensated

\* What a replay adds up is the sum of the money of its events, in any order.
LEMMA RebuiltIsSum ==
  ASSUME NEW S, S \subseteq Event, IsFiniteSet(S)
  PROVE  Rebuilt(S) = SumOf(EventMoney, S)
<1> DEFINE Adds(g) ==
             g = [s \in SUBSET S |-> IF s = {} THEN 0 ELSE Signed(Pick(s).txn) + g[s \ {Pick(s)}]]
<1>1. Rebuilt(S) = (CHOOSE g : Adds(g))[S]
  BY DEF Rebuilt, MapThenSumSet, MapThenFoldSet, Pick
<1>2. ASSUME NEW g PROVE Adds(g) <=> Sums(g, EventMoney, S)
  <2> DEFINE v(s) == IF s = {} THEN 0 ELSE Signed(Pick(s).txn) + g[s \ {Pick(s)}]
             w(s) == IF s = {} THEN 0 ELSE EventMoney[Pick(s)] + g[s \ {Pick(s)}]
  <2>1. \A s \in SUBSET S : v(s) = w(s)
    BY PickIsIn DEF EventMoney
  <2>2. [s \in SUBSET S |-> v(s)] = [s \in SUBSET S |-> w(s)]
    <3> HIDE DEF v, w
    <3>1. QED
      BY <2>1
  <2>3. QED
    BY <2>2 DEF Sums
<1>3. \E g : Sums(g, EventMoney, S)
  BY SumsExist
<1>4. Sums(CHOOSE g : Adds(g), EventMoney, S)
  <2>1. \E g : Adds(g)
    BY <1>2, <1>3
  <2> HIDE DEF Adds
  <2>2. Adds(CHOOSE g : Adds(g))
    BY <2>1
  <2>3. QED
    BY <1>2, <2>2
<1>5. QED
  BY <1>1, <1>4, SumIsUnique

\* An event enters the history of its account.
LEMMA HistoryWith ==
  ASSUME NEW S, S \subseteq Event, IsFiniteSet(S), NEW e \in Event \ S
  PROVE  Rebuilt(S \cup {e}) = Rebuilt(S) + Signed(e.txn) /\ Rebuilt(S) \in Int
<1>1. \A x \in Event : EventMoney[x] \in Int /\ EventMoney[x] = Signed(x.txn)
  BY SignedType DEF EventMoney, Event
<1>2. IsFiniteSet(S \cup {e}) /\ S \cup {e} \subseteq Event
  BY FS_AddElement
<1>3. SumOf(EventMoney, S \cup {e}) = SumOf(EventMoney, S) + EventMoney[e]
      /\ SumOf(EventMoney, S) \in Int
  BY <1>1, SumWith, SumIsInt
<1>4. QED
  BY <1>1, <1>2, <1>3, RebuiltIsSum

LEMMA HistoryIsFinite ==
  ASSUME IInv, NEW a \in Accounts
  PROVE  HistoryOf(a) \subseteq Event /\ IsFiniteSet(HistoryOf(a)) /\ Rebuilt(HistoryOf(a)) \in Int
<1>1. HistoryOf(a) \subseteq Event /\ IsFiniteSet(HistoryOf(a))
  BY FS_Subset DEF IInv, TableType, TablesOK, OutboxOK, HistoryOf
<1>2. \A x \in HistoryOf(a) : EventMoney[x] \in Int
  BY <1>1, SignedType DEF EventMoney, Event
<1>3. QED
  BY <1>1, <1>2, RebuiltIsSum, SumIsInt

LEMMA InitHistory == Init => HistoryInv
<1> SUFFICES ASSUME Init PROVE HistoryInv
  OBVIOUS
<1>1. ASSUME NEW a \in Accounts
      PROVE  /\ IsFiniteSet(GivenBack(a))
             /\ Opening[a] + Replayed[a] = balance[a] + MapThenSumSet(Signed, GivenBack(a))
  <2>1. GivenBack(a) = {} /\ HistoryOf(a) = {} /\ balance[a] = Opening[a] /\ Opening[a] \in Int
    BY SettlementAssumption DEF Init, GivenBack, HistoryOf, Emitted
  <2>2. MapThenSumSet(Signed, {}) = 0 /\ Rebuilt({}) = 0
    BY MoneyIsSum, RebuiltIsSum, SumOfNothing, FS_EmptySet
  <2>3. Replayed[a] = Rebuilt(HistoryOf(a))
    BY DEF Replayed
  <2>4. QED
    BY <2>1, <2>2, <2>3, FS_EmptySet
<1>2. QED
  BY <1>1 DEF Init, HistoryInv, ReplayCountsCompensated

\* What a step does to the events: one more, of a transaction that has its row.
LEMMA StepEmits ==
  ASSUME IInv, HistoryInv, [Next]_vars
  PROVE  /\ \A e \in outbox' : status'[e.txn] # "NONE"
         /\ \/ \E t \in Txns : Post(t)
            \/ \E s \in Scans : Compensate(s)
            \/ /\ UNCHANGED balance /\ outbox \subseteq outbox'
               /\ \A e \in outbox' \ outbox :
                    e.kind \notin {"TransactionCompleted", "TransactionCompensated"}
<1>1. TableType /\ OutboxOK /\ \A w \in Workers : WorkerOK(w)
  BY DEF IInv, TablesOK
<1>2. ASSUME NEW t \in Txns, NEW kind \in Kinds, Emit(kind, t), status'[t] # "NONE",
             \A x \in Txns : x # t => status'[x] = status[x]
      PROVE  /\ \A e \in outbox' : status'[e.txn] # "NONE"
             /\ outbox \subseteq outbox' /\ \A e \in outbox' \ outbox : e.kind = kind
  <2>1. PICK e \in Event : e.kind = kind /\ e.txn = t /\ outbox' = outbox \cup {e}
    BY <1>1, <1>2, Emission
  <2>2. ASSUME NEW x \in outbox PROVE status'[x.txn] # "NONE"
    <3>1. x.txn \in Txns /\ status[x.txn] # "NONE"
      BY <1>1 DEF HistoryInv, TableType, Event
    <3>2. QED
      BY <1>2, <3>1
  <2>3. QED
    BY <1>2, <2>1, <2>2
<1>3. CASE \E t \in Txns : Post(t)
  <2>1. PICK t \in Txns : Post(t)
    BY <1>3
  <2>2. /\ status'[t] = "COMPLETED" /\ \A x \in Txns : x # t => status'[x] = status[x]
        /\ Emit("TransactionCompleted", t) /\ "TransactionCompleted" \in Kinds
    BY <1>1, <2>1 DEF Post, TableType, Kinds
  <2>3. QED
    BY <1>2, <2>1, <2>2
<1>4. CASE \E t \in Txns : Block(t)
  <2>1. PICK t \in Txns : Block(t)
    BY <1>4
  <2>2. /\ status'[t] = "BLOCKED" /\ \A x \in Txns : x # t => status'[x] = status[x]
        /\ Emit("TransactionBlocked", t) /\ "TransactionBlocked" \in Kinds /\ UNCHANGED balance
    BY <1>1, <2>1 DEF Block, TableType, Kinds
  <2>3. QED
    BY <1>2, <2>2
<1>5. CASE \E w \in Workers : Record(w)
  <2>1. PICK w \in Workers : Record(w)
    BY <1>5
  <2>2. job[w] \in outbox /\ job[w].txn \in Txns
    BY <1>1, <2>1 DEF Record, WorkerOK, TableType, Event
  <2>3. /\ UNCHANGED <<status, balance>> /\ status[job[w].txn] # "NONE"
        /\ Emit("LedgerUpdated", job[w].txn) /\ "LedgerUpdated" \in Kinds
    BY <2>1, <2>2 DEF Record, HistoryInv, Kinds
  <2>4. QED
    BY <1>2, <2>2, <2>3
<1>6. CASE \E w \in Finalizers : Finalize(w)
  <2>1. PICK w \in Finalizers : Finalize(w)
    BY <1>6
  <2>2. PICK t \in Txns : t = job[w].txn /\ status[t] = "COMPLETED"
    BY <2>1, FinalizeOnce
  <2>3. /\ status'[t] = "FINALIZED" /\ \A x \in Txns : x # t => status'[x] = status[x]
        /\ Emit("TransactionFinalized", t) /\ "TransactionFinalized" \in Kinds
        /\ UNCHANGED balance
    BY <1>1, <2>1, <2>2 DEF Finalize, TableType, Kinds
  <2>4. QED
    BY <1>2, <2>3
<1>7. CASE \E s \in Scans : Compensate(s)
  <2>1. PICK s \in Scans : Compensate(s)
    BY <1>7
  <2>2. PICK t \in Txns : t = job[s].txn /\ status[t] = "COMPLETED"
    BY <1>1, <2>1 DEF Compensate, WorkerOK, Workers
  <2>3. /\ status'[t] = "BLOCKED" /\ \A x \in Txns : x # t => status'[x] = status[x]
        /\ Emit("TransactionCompensated", t) /\ "TransactionCompensated" \in Kinds
    BY <1>1, <2>1, <2>2 DEF Compensate, Undone, TableType, Kinds
  <2>4. QED
    BY <1>2, <2>1, <2>3
<1>8. CASE UNCHANGED <<status, balance, outbox>>
  BY <1>8 DEF HistoryInv
<1>9. \/ UNCHANGED <<status, balance, outbox>>
      \/ \E t \in Txns : Post(t) \/ Block(t)
      \/ \E w \in Workers : Record(w)
      \/ \E w \in Finalizers : Finalize(w)
      \/ \E s \in Scans : Compensate(s)
  BY DEF Next, Expire, LedgerStep, FinalizerStep, ScanStep, TakeCompleted, TakeLedgerUpdated,
     Deliver, LockRow, RecordFails, ReadStatus, NothingToFinalize, FinalizeFails,
     StartScan, NextCandidate, LockCandidate, SkipSettled, SkipRecorded, LedgerMissing,
     LockBalance, UnableToCompensate, EndScan, Fail, Ignore, vars, tables, Workers
<1>10. QED
  BY <1>3, <1>4, <1>5, <1>6, <1>7, <1>8, <1>9

LEMMA NextHistory ==
  ASSUME IInv, MoneyOK, HistoryInv, [Next]_vars
  PROVE  HistoryInv'
<1>1. /\ TableType /\ OutboxOK /\ AccountOf \in [Txns -> Accounts]
      /\ Opening \in [Accounts -> Nat] /\ \A t \in Txns : Signed(t) \in Int
  BY SettlementAssumption, SignedType DEF IInv, TablesOK
<1> DEFINE Back(a) == MapThenSumSet(Signed, GivenBack(a))
           Right(a) == /\ IsFiniteSet(GivenBack(a)')
                       /\ Opening[a] + Rebuilt(HistoryOf(a)') =
                            balance'[a] + MapThenSumSet(Signed, GivenBack(a)')
<1>2. \A a \in Accounts : /\ IsFiniteSet(GivenBack(a)) /\ GivenBack(a) \subseteq Txns
                          /\ Opening[a] + Rebuilt(HistoryOf(a)) = balance[a] + Back(a)
  BY DEF HistoryInv, ReplayCountsCompensated, Replayed, GivenBack
<1>3. \A a \in Accounts : Back(a) \in Int
  <2>1. \A t \in Txns : Money[t] \in Int
    BY <1>1 DEF Money
  <2>2. ASSUME NEW a \in Accounts PROVE Back(a) \in Int
    BY <1>2, <2>1, MoneyIsSum, SumIsInt
  <2>3. QED
    BY <2>2
<1>4. SUFFICES ASSUME NEW a \in Accounts PROVE Right(a)
  <2>1. \A b \in Accounts : Replayed'[b] = Rebuilt(HistoryOf(b)')
    BY DEF Replayed
  <2> HIDE DEF Back
  <2>2. QED
    BY <1>4, <2>1, StepEmits DEF HistoryInv, ReplayCountsCompensated
<1>5. /\ balance[a] \in Int /\ Opening[a] \in Int /\ Rebuilt(HistoryOf(a)) \in Int
      /\ HistoryOf(a) \subseteq Event /\ IsFiniteSet(HistoryOf(a))
  BY <1>1, HistoryIsFinite DEF TableType
<1>6. ASSUME balance'[a] = balance[a], HistoryOf(a)' = HistoryOf(a), GivenBack(a)' = GivenBack(a)
      PROVE  Right(a)
  BY <1>2, <1>6
<1>7. ASSUME NEW t \in Txns, Post(t) PROVE Right(a)
  <2>1. /\ status[t] = "NONE" /\ balance' = [balance EXCEPT ![AccountOf[t]] = @ + Signed(t)]
        /\ Emit("TransactionCompleted", t)
    BY <1>7 DEF Post
  <2>2. PICK e \in Event : e.kind = "TransactionCompleted" /\ e.txn = t /\ outbox' = outbox \cup {e}
    BY <1>1, <2>1, Emission DEF Kinds
  <2>3. GivenBack(a)' = GivenBack(a)
    BY <2>2 DEF GivenBack, Emitted
  <2>4. CASE a # AccountOf[t]
    <3>1. HistoryOf(a)' = HistoryOf(a) /\ balance'[a] = balance[a]
      BY <1>1, <2>1, <2>2, <2>4 DEF HistoryOf, TableType
    <3>2. QED
      BY <1>6, <2>3, <3>1
  <2>5. CASE a = AccountOf[t]
    <3>1. HistoryOf(a)' = HistoryOf(a) \cup {e}
      BY <2>2, <2>5 DEF HistoryOf
    <3>2. e \notin outbox /\ e \notin HistoryOf(a)
      BY <2>1, <2>2 DEF HistoryInv, HistoryOf
    <3>3. balance'[a] = balance[a] + Signed(t)
      BY <1>1, <2>1, <2>5 DEF TableType
    <3>4. Rebuilt(HistoryOf(a) \cup {e}) = Rebuilt(HistoryOf(a)) + Signed(t)
      BY <1>5, <2>2, <3>2, HistoryWith
    <3> DEFINE r == Rebuilt(HistoryOf(a))
               s == Rebuilt(HistoryOf(a)')
               b == MapThenSumSet(Signed, GivenBack(a))
    <3>5. s = r + Signed(t) /\ Opening[a] + r = balance[a] + b /\ r \in Int /\ b \in Int
      BY <1>2, <1>3, <1>5, <3>1, <3>4
    <3>6. Opening[a] + s = balance'[a] + b
      <4> HIDE DEF r, s, b
      <4>1. QED
        BY <1>1, <1>5, <3>3, <3>5
    <3>7. QED
      BY <1>2, <2>3, <3>6
  <2>6. QED
    BY <2>4, <2>5
<1>8. ASSUME NEW w \in Scans, Compensate(w) PROVE Right(a)
  <2>1. /\ pc[w] = "compensate" /\ Emit("TransactionCompensated", job[w].txn)
        /\ balance' = [balance EXCEPT ![AccountOf[job[w].txn]] = BalanceAfter(w)]
    BY <1>8 DEF Compensate
  <2>2. PICK t \in Txns : t = job[w].txn /\ status[t] = "COMPLETED"
    BY <2>1 DEF IInv, WorkerOK, Workers
  <2>3. BalanceAfter(w) = balance[AccountOf[t]] - Signed(t)
    BY <2>1, <2>2 DEF MoneyOK, FundsOK, BalanceAfter
  <2>4. PICK e \in Event : e.kind = "TransactionCompensated" /\ e.txn = t /\ outbox' = outbox \cup {e}
    BY <1>1, <2>1, <2>2, Emission DEF Kinds
  <2>5. HistoryOf(a)' = HistoryOf(a)
    BY <2>4 DEF HistoryOf
  <2>6. CASE a # AccountOf[t]
    <3>1. GivenBack(a)' = GivenBack(a) /\ balance'[a] = balance[a]
      BY <1>1, <2>1, <2>2, <2>4, <2>6 DEF GivenBack, Emitted, TableType
    <3>2. QED
      BY <1>6, <2>5, <3>1
  <2>7. CASE a = AccountOf[t]
    <3>1. GivenBack(a)' = GivenBack(a) \cup {t}
      BY <2>4, <2>7 DEF GivenBack, Emitted
    <3>2. t \notin GivenBack(a)
      BY <2>2 DEF IInv, TablesOK, EndsOK, GivenBack, Emitted
    <3>3. balance'[a] = balance[a] - Signed(t)
      BY <1>1, <2>1, <2>2, <2>3, <2>7 DEF TableType
    <3>4. MapThenSumSet(Signed, GivenBack(a) \cup {t}) = MapThenSumSet(Signed, GivenBack(a)) + Signed(t)
      BY <1>2, <3>2, MoneyWith
    <3>5. IsFiniteSet(GivenBack(a)')
      BY <1>2, <3>1, FS_AddElement
    <3> DEFINE r == Rebuilt(HistoryOf(a))
               b == MapThenSumSet(Signed, GivenBack(a))
               c == MapThenSumSet(Signed, GivenBack(a)')
    <3>6. c = b + Signed(t) /\ Opening[a] + r = balance[a] + b /\ r \in Int /\ b \in Int
      BY <1>2, <1>3, <1>5, <3>1, <3>4
    <3>7. Opening[a] + r = balance'[a] + c
      <4> HIDE DEF r, b, c
      <4>1. QED
        BY <1>1, <1>5, <3>3, <3>6
    <3>8. QED
      BY <2>5, <3>5, <3>7
  <2>8. QED
    BY <2>6, <2>7
<1>9. ASSUME UNCHANGED balance, outbox \subseteq outbox',
             \A e \in outbox' \ outbox :
               e.kind \notin {"TransactionCompleted", "TransactionCompensated"}
      PROVE  Right(a)
  <2>1. HistoryOf(a)' = HistoryOf(a) /\ GivenBack(a)' = GivenBack(a)
    BY <1>9 DEF HistoryOf, GivenBack, Emitted
  <2>2. QED
    BY <1>6, <1>9, <2>1
<1>10. QED
  BY <1>7, <1>8, <1>9, StepEmits

-----------------------------------------------------------------------------

\* However far the workers get between its two queries, an audit finds the events
\* that explain the status it reports.
THEOREM AuditsExplain == AuditSpec => []AuditExplainsStatus
<1>1. AuditInv => AuditExplainsStatus
  BY DEF AuditInv
<1>2. QED
  BY <1>1, AuditInitInv, AuditNextInv, PTL DEF AuditSpec

\* A replay rebuilds every balance as if no transaction had been compensated: it is
\* off by the money that was given back, and by nothing else.
THEOREM ReplaysCountCompensated == Spec => []ReplayCountsCompensated
<1>1. Init => IInv /\ MoneyOK /\ HistoryInv
  BY InitInv, InitMoney, InitHistory
<1>2. IInv /\ MoneyOK /\ HistoryInv /\ [Next]_vars => (IInv /\ MoneyOK /\ HistoryInv)'
  BY NextInv, NextMoney, NextHistory
<1>3. HistoryInv => ReplayCountsCompensated
  BY DEF HistoryInv
<1>4. QED
  BY <1>1, <1>2, <1>3, PTL DEF Spec
=============================================================================
