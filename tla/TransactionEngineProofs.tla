----------------------- MODULE TransactionEngineProofs -----------------------
(***************************************************************************)
(* Theorems about TransactionEngine, for every set of users, accounts,     *)
(* requests and inputs and for every limit and window.                     *)
(***************************************************************************)
EXTENDS TransactionEngine, SumTheorems

-----------------------------------------------------------------------------
(* Types *)

\* The seven refusals, the two successes and "error" are replies, and ending a
\* transaction keeps the types of what the engine knows of its requests.
LEMMA FinishType ==
  ASSUME TypeOK, NEW r \in Requests, NEW code \in Replies, Finish(r, code)
  PROVE  /\ pc' \in [Requests -> Steps \cup {"idle"}]
         /\ input' \in [Requests -> Inputs]
         /\ seen' \in [Requests -> Seen]
         /\ reply' \in [Requests -> Replies]
         /\ accountLock' \in [Accounts -> Requests \cup {Nobody}]
         /\ userLock' \in [Users -> Requests \cup {Nobody}]
         /\ now' \in Nat
<1>1. NothingSeen \in Seen
  BY DEF NothingSeen, Seen
<1>2. QED
  BY <1>1 DEF TypeOK, Finish

\* What an input gives rise to: rows and events of the right type.
LEMMA InputType ==
  ASSUME NEW in \in Inputs
  PROVE  /\ in \in Input
         /\ \A t \in Nat : /\ NewRow(in, "COMPLETED", t) \in Row
                           /\ NewRow(in, "BLOCKED", t) \in Row
         /\ \A b \in Int : CompletedOf(in, b) \in Event
         /\ BlockedOf(in) \in Event
         /\ Signed(in) \in Int
         /\ Owner[in.account] \in Users
<1>1. in \in Input
  BY BankAssumption
<1>2. QED
  BY <1>1, BankAssumption DEF Input, NewRow, Row, CompletedOf, BlockedOf, Event,
     CompletedEvent, BlockedEvent, Signed, TxnTypes

\* The initial state is well typed.
LEMMA InitType == Init => TypeOK
<1>1. (CHOOSE in \in Inputs : TRUE) \in Inputs
  BY BankAssumption
<1>2. NothingSeen \in Seen
  BY DEF NothingSeen, Seen
<1>3. QED
  BY <1>1, <1>2, BankAssumption DEF Init, TypeOK, Replies

\* Every step keeps the types.
LEMMA NextType == TypeOK /\ [Next]_vars => TypeOK'
<1> SUFFICES ASSUME TypeOK, [Next]_vars PROVE TypeOK'
  OBVIOUS
<1> USE DEF tables, locks, Steps
<1>1. ASSUME NEW r \in Requests, Submit(r) PROVE TypeOK'
  BY <1>1 DEF Submit, TypeOK, Replies
<1>2. ASSUME NEW r \in Requests, RefuseAccount(r) PROVE TypeOK'
  <2>1. Objection(r) \in Replies
    BY DEF Objection, Replies, Refusals
  <2>2. QED
    BY <1>2, <2>1, FinishType DEF RefuseAccount, TypeOK
<1>3. ASSUME NEW r \in Requests, LockAccount(r) PROVE TypeOK'
  <2>1. AccountOf(r) \in Accounts
    BY InputType DEF TypeOK, AccountOf, Input
  <2>2. seen' \in [Requests -> Seen]
    BY <1>3, <2>1 DEF LockAccount, TypeOK, Seen
  <2>3. QED
    BY <1>3, <2>2 DEF LockAccount, Goto, TypeOK
<1>4. ASSUME NEW r \in Requests, LockUser(r) PROVE TypeOK'
  BY <1>4 DEF LockUser, Goto, TypeOK
<1>5. ASSUME NEW r \in Requests, AnswerExisting(r) PROVE TypeOK'
  BY <1>5, FinishType DEF AnswerExisting, TypeOK, Replies, Refusals, Successes
<1>6. ASSUME NEW r \in Requests, RefuseInsufficient(r) PROVE TypeOK'
  BY <1>6, FinishType DEF RefuseInsufficient, TypeOK, Replies, Refusals
<1>7. ASSUME NEW r \in Requests, AcceptNew(r) PROVE TypeOK'
  BY <1>7 DEF AcceptNew, Goto, TypeOK
<1>8. ASSUME NEW r \in Requests, CountRecent(r) PROVE TypeOK'
  <2>1. RecentOf(txns, OwnerOf(r), now) \in SUBSET Row
    BY DEF RecentOf, TypeOK
  <2>2. seen' \in [Requests -> Seen]
    <3>1. \A s \in Seen : [s EXCEPT !.countedAt = now,
                             !.counted = RecentOf(txns, OwnerOf(r), now)] \in Seen
      BY <2>1 DEF TypeOK, Seen
    <3>2. QED
      BY <1>8, <3>1 DEF CountRecent, TypeOK
  <2>3. QED
    BY <1>8, <2>2 DEF CountRecent, Goto, TypeOK
<1>9. ASSUME NEW r \in Requests, SumDebits(r) PROVE TypeOK'
  <2>1. Debits(RecentOf(txns, OwnerOf(r), now)) \in SUBSET Row
    BY DEF Debits, RecentOf, TypeOK
  <2>2. seen' \in [Requests -> Seen]
    <3>1. \A s \in Seen : [s EXCEPT !.summedAt = now,
            !.debits = Debits(RecentOf(txns, OwnerOf(r), now))] \in Seen
      BY <2>1 DEF TypeOK, Seen
    <3>2. QED
      BY <1>9, <3>1 DEF SumDebits, TypeOK
  <2>3. QED
    BY <1>9, <2>2 DEF SumDebits, Goto, TypeOK
<1>10. ASSUME NEW r \in Requests, CommitCompleted(r) PROVE TypeOK'
  <2>1. /\ input[r] \in Inputs
        /\ seen[r].balance \in Int /\ seen[r].summedAt \in Nat
    BY DEF TypeOK, Seen
  <2>2. txns' \subseteq Row
    <3>1. PICK t \in seen[r].summedAt..now :
            txns' = txns \cup {NewRow(input[r], "COMPLETED", t)}
      BY <1>10 DEF CommitCompleted
    <3>2. t \in Nat
      BY <2>1 DEF TypeOK
    <3>3. QED
      BY <2>1, <3>1, <3>2, InputType DEF TypeOK
  <2>3. seen[r].balance + Signed(input[r]) \in Int
    BY <2>1, InputType
  <2>4. balance' \in [Accounts -> Int] /\ outbox' \in Seq(Event)
    <3>1. balance' \in [Accounts -> Int]
      BY <1>10, <2>3 DEF CommitCompleted, TypeOK
    <3>2. CompletedOf(input[r], seen[r].balance + Signed(input[r])) \in Event
      BY <2>1, <2>3, InputType
    <3>3. outbox' \in Seq(Event)
      BY <1>10, <3>2 DEF CommitCompleted, TypeOK
    <3>4. QED
      BY <3>1, <3>3
  <2>5. QED
    BY <1>10, <2>2, <2>4, FinishType
    DEF CommitCompleted, TypeOK, Replies, Successes
<1>11. ASSUME NEW r \in Requests, CommitBlocked(r) PROVE TypeOK'
  <2>1. input[r] \in Inputs /\ seen[r].summedAt \in Nat
    BY DEF TypeOK, Seen
  <2>2. txns' \subseteq Row
    <3>1. PICK t \in seen[r].summedAt..now :
            txns' = txns \cup {NewRow(input[r], "BLOCKED", t)}
      BY <1>11 DEF CommitBlocked
    <3>2. t \in Nat
      BY <2>1 DEF TypeOK
    <3>3. QED
      BY <2>1, <3>1, <3>2, InputType DEF TypeOK
  <2>3. outbox' \in Seq(Event)
    BY <1>11, <2>1, InputType DEF CommitBlocked, TypeOK
  <2>4. QED
    BY <1>11, <2>2, <2>3, FinishType
    DEF CommitBlocked, TypeOK, Replies, Refusals
<1>12. ASSUME NEW r \in Requests, RejectDuplicate(r) PROVE TypeOK'
  BY <1>12, FinishType DEF RejectDuplicate, TypeOK, Replies, Refusals
<1>13. ASSUME NEW r \in Requests, Rollback(r) PROVE TypeOK'
  BY <1>13, FinishType DEF Rollback, TypeOK, Replies
<1>14. ASSUME NEW a \in Accounts, OpenAccount(a) PROVE TypeOK'
  BY <1>14 DEF OpenAccount, TypeOK, AccountStatuses
<1>15. CASE Tick
  BY <1>15 DEF Tick, TypeOK
<1>16. CASE UNCHANGED vars
  BY <1>16 DEF vars, TypeOK
<1>17. QED
  BY <1>1, <1>2, <1>3, <1>4, <1>5, <1>6, <1>7, <1>8, <1>9, <1>10, <1>11, <1>12,
     <1>13, <1>14, <1>15, <1>16 DEF Next, Progress

\* Every variable keeps its type in every behaviour of the engine.
THEOREM TypeCorrect == Spec => []TypeOK
BY InitType, NextType, PTL DEF Spec
-----------------------------------------------------------------------------
(* The locks protect the reads *)

\* The part of the engine's state that belongs to request r is left alone.
Aside(r) == /\ pc'[r] = pc[r] /\ input'[r] = input[r] /\ seen'[r] = seen[r]
            /\ \A a \in Accounts : accountLock[a] = r => accountLock'[a] = r
            /\ \A u \in Users : userLock[u] = r => userLock'[u] = r

\* What r relies on: rows it holds keep balance and status, rows of its owner
\* stay what they are, and time does not go back.
Intact(r) == /\ HoldsRow(r) => /\ balance'[AccountOf(r)] = balance[AccountOf(r)]
                               /\ status'[AccountOf(r)] = status[AccountOf(r)]
             /\ HoldsOwner(r) => \A t \in Nat :
                  RecentOf(txns', OwnerOf(r), t) = RecentOf(txns, OwnerOf(r), t)
             /\ now' >= now

Reads(r) == /\ RowRead(r) /\ OwnerHeld(r) /\ CoverRead(r)
            /\ CountRead(r) /\ SumRead(r)

\* A request that is left aside, with its reads intact, keeps its reads true.
LEMMA AsideKeepsReads ==
  ASSUME TypeOK, TypeOK', NEW r \in Requests, Reads(r), Aside(r), Intact(r)
  PROVE  Reads(r)'
<1> USE DEF HoldsRow, HoldsOwner, Steps
<1>1. /\ AccountOf(r) \in Accounts /\ OwnerOf(r) \in Users
      /\ AccountOf(r)' = AccountOf(r) /\ OwnerOf(r)' = OwnerOf(r)
  BY BankAssumption DEF TypeOK, AccountOf, OwnerOf, Input, Aside
<1>2. seen[r].countedAt \in Nat /\ seen[r].summedAt \in Nat
  BY DEF TypeOK, Seen
<1>3. RowRead(r)' /\ OwnerHeld(r)' /\ CoverRead(r)'
  BY <1>1 DEF Reads, RowRead, OwnerHeld, CoverRead, Aside, Intact
<1>4. CountRead(r)'
  BY <1>1, <1>2 DEF Reads, CountRead, Aside, Intact, TypeOK
<1>5. SumRead(r)'
  BY <1>1, <1>2 DEF Reads, SumRead, Aside, Intact, TypeOK
<1>6. QED
  BY <1>3, <1>4, <1>5 DEF Reads

\* Ending a transaction leaves the other requests aside and the ended one idle.
LEMMA FinishAside ==
  ASSUME TypeOK, NEW r \in Requests, NEW code, Finish(r, code)
  PROVE  /\ \A q \in Requests \ {r} : Aside(q)
         /\ pc'[r] = "idle"
BY EngineAssumption DEF TypeOK, Finish, Aside

\* A request that holds nothing has no reads to protect.
LEMMA NothingToProtect ==
  ASSUME NEW r \in Requests, pc'[r] \in {"idle", "lockAccount"}
  PROVE  Reads(r)'
BY DEF Reads, RowRead, OwnerHeld, CoverRead, CountRead, SumRead, HoldsRow,
       HoldsOwner, Steps

\* A row of another owner does not enter the recent rows of an owner.
LEMMA RecentOfOthers ==
  ASSUME NEW rows, NEW x, NEW u, Owner[x.account] # u
  PROVE  \A t : RecentOf(rows \cup {x}, u, t) = RecentOf(rows, u, t)
BY DEF RecentOf

\* No step that writes nothing but locks and reads disturbs what others rely on.
LEMMA QuietIsIntact ==
  ASSUME TypeOK, NEW r \in Requests, UNCHANGED tables, now' = now
  PROVE  Intact(r)
BY DEF TypeOK, tables, Intact

\* A commit disturbs no other request: it changes the balance of a row it holds,
\* and inserts a row of an owner it holds.
LEMMA CommitIsIntact ==
  ASSUME TypeOK, NEW r \in Requests, NEW q \in Requests \ {r}, NEW t,
         NEW verdict, Reads(r), Reads(q), pc[r] = "commit",
         txns' = txns \cup {NewRow(input[r], verdict, t)},
         \A a \in Accounts \ {AccountOf(r)} : balance'[a] = balance[a],
         UNCHANGED <<status, now>>
  PROVE  Intact(q)
<1> USE DEF HoldsRow, HoldsOwner, Steps
<1>1. AccountOf(q) \in Accounts /\ OwnerOf(q) \in Users
  BY BankAssumption DEF TypeOK, AccountOf, OwnerOf, Input
<1>2. HoldsRow(q) => AccountOf(q) # AccountOf(r)
  BY DEF Reads, RowRead
<1>3. HoldsOwner(q) => OwnerOf(q) # OwnerOf(r)
  BY DEF Reads, OwnerHeld
<1>4. Owner[NewRow(input[r], verdict, t).account] = OwnerOf(r)
  BY DEF NewRow, OwnerOf, AccountOf
<1>5. HoldsOwner(q) => \A n \in Nat :
        RecentOf(txns', OwnerOf(q), n) = RecentOf(txns, OwnerOf(q), n)
  BY <1>3, <1>4, RecentOfOthers
<1>6. HoldsRow(q) => /\ balance'[AccountOf(q)] = balance[AccountOf(q)]
                     /\ status'[AccountOf(q)] = status[AccountOf(q)]
  BY <1>1, <1>2
<1>7. now' >= now
  BY DEF TypeOK
<1>8. QED
  BY <1>5, <1>6, <1>7 DEF Intact
\* A transaction that ends without writing keeps everybody's reads true.
LEMMA EndKeepsReads ==
  ASSUME TypeOK, TypeOK', LocksProtectReads, NEW r \in Requests, NEW code,
         Finish(r, code), \A q \in Requests \ {r} : Intact(q)
  PROVE  LocksProtectReads'
<1>1. Reads(r)'
  BY FinishAside, NothingToProtect
<1>2. ASSUME NEW q \in Requests \ {r} PROVE Reads(q)'
  BY <1>2, FinishAside, AsideKeepsReads DEF LocksProtectReads, Reads
<1>3. QED
  BY <1>1, <1>2 DEF LocksProtectReads, Reads

\* The locks protect the reads from the first state on.
LEMMA InitReads == Init => LocksProtectReads
BY DEF Init, LocksProtectReads, RowRead, OwnerHeld, CoverRead, CountRead,
       SumRead, HoldsRow, HoldsOwner, Steps

\* Every step keeps the reads of every request true.
LEMMA NextReads ==
  TypeOK /\ TypeOK' /\ LocksProtectReads /\ [Next]_vars => LocksProtectReads'
<1> SUFFICES ASSUME TypeOK, TypeOK', LocksProtectReads, [Next]_vars
             PROVE  LocksProtectReads'
  OBVIOUS
<1>0. \A r \in Requests : Reads(r)
  BY DEF LocksProtectReads, Reads
<1>e. ASSUME NEW r \in Requests, NEW code, Finish(r, code), UNCHANGED tables
      PROVE  LocksProtectReads'
  <2>1. now' = now
    BY <1>e DEF Finish
  <2>2. QED
    BY <1>e, <2>1, QuietIsIntact, EndKeepsReads
<1>s. ASSUME NEW r \in Requests, UNCHANGED tables, now' = now,
             \A q \in Requests \ {r} : Aside(q), Reads(r)'
      PROVE  LocksProtectReads'
  <2>1. ASSUME NEW q \in Requests \ {r} PROVE Reads(q)'
    BY <1>0, <1>s, <2>1, QuietIsIntact, AsideKeepsReads
  <2>2. QED
    BY <1>s, <2>1 DEF LocksProtectReads, Reads
<1>1. ASSUME NEW r \in Requests, Submit(r) PROVE LocksProtectReads'
  <2>1. \A q \in Requests \ {r} : Aside(q)
    BY <1>1 DEF Submit, Aside, locks, TypeOK
  <2>2. Reads(r)'
    BY <1>1, NothingToProtect DEF Submit, TypeOK
  <2>3. QED
    BY <1>1, <1>s, <2>1, <2>2 DEF Submit
<1>2. ASSUME NEW r \in Requests, RefuseAccount(r) PROVE LocksProtectReads'
  BY <1>2, <1>e DEF RefuseAccount
<1>3. ASSUME NEW r \in Requests, LockAccount(r) PROVE LocksProtectReads'
  <2>1. AccountOf(r) \in Accounts
    BY InputType DEF TypeOK, AccountOf, Input
  <2>2. /\ status[AccountOf(r)] = "ACTIVE" /\ Authorized(input[r])
        /\ accountLock[AccountOf(r)] = Nobody
    BY <1>3, <2>1 DEF LockAccount, Objection, RowFree, TypeOK, AccountStatuses
  <2>3. \A q \in Requests \ {r} : Aside(q)
    BY <1>3, <2>1, <2>2, EngineAssumption DEF LockAccount, Goto, Aside, TypeOK
  <2>4. Reads(r)'
    BY <1>3, <2>1, <2>2 DEF LockAccount, Goto, TypeOK, Reads, RowRead,
       OwnerHeld, CoverRead, CountRead, SumRead, HoldsRow, HoldsOwner, Steps,
       AccountOf, tables, Seen
  <2>5. QED
    BY <1>3, <1>s, <2>3, <2>4 DEF LockAccount
<1>4. ASSUME NEW r \in Requests, LockUser(r) PROVE LocksProtectReads'
  <2>1. AccountOf(r) \in Accounts /\ OwnerOf(r) \in Users
    BY InputType DEF TypeOK, AccountOf, OwnerOf, Input
  <2>2. \A q \in Requests \ {r} : Aside(q)
    BY <1>4, <2>1, EngineAssumption DEF LockUser, Goto, Aside, TypeOK
  <2>3. Reads(r)'
    BY <1>0, <1>4, <2>1 DEF LockUser, Goto, TypeOK, Reads, RowRead,
       OwnerHeld, CoverRead, CountRead, SumRead, HoldsRow, HoldsOwner, Steps,
       AccountOf, OwnerOf, tables
  <2>4. QED
    BY <1>4, <1>s, <2>2, <2>3 DEF LockUser
<1>5. ASSUME NEW r \in Requests, AnswerExisting(r) PROVE LocksProtectReads'
  BY <1>5, <1>e DEF AnswerExisting
<1>6. ASSUME NEW r \in Requests, RefuseInsufficient(r) PROVE LocksProtectReads'
  BY <1>6, <1>e DEF RefuseInsufficient
<1>7. ASSUME NEW r \in Requests, AcceptNew(r) PROVE LocksProtectReads'
  <2>1. \A q \in Requests \ {r} : Aside(q)
    BY <1>7 DEF AcceptNew, Goto, Aside, TypeOK, locks
  <2>2. Reads(r)'
    BY <1>0, <1>7 DEF AcceptNew, Goto, TypeOK, Reads, RowRead,
       OwnerHeld, CoverRead, CountRead, SumRead, HoldsRow, HoldsOwner, Steps,
       AccountOf, OwnerOf, tables, locks
  <2>3. QED
    BY <1>7, <1>s, <2>1, <2>2 DEF AcceptNew
<1>8. ASSUME NEW r \in Requests, CountRecent(r) PROVE LocksProtectReads'
  <2>1. \A q \in Requests \ {r} : Aside(q)
    BY <1>8 DEF CountRecent, Goto, Aside, TypeOK, locks
  <2>2. /\ seen'[r].balance = seen[r].balance
        /\ seen'[r].countedAt = now
        /\ seen'[r].counted = RecentOf(txns, OwnerOf(r), now)
    BY <1>8 DEF CountRecent, TypeOK, Seen
  <2>3. Reads(r)'
    BY <1>0, <1>8, <2>2 DEF CountRecent, Goto, TypeOK, Reads, RowRead,
       OwnerHeld, CoverRead, CountRead, SumRead, HoldsRow, HoldsOwner, Steps,
       AccountOf, OwnerOf, tables, locks
  <2>4. QED
    BY <1>8, <1>s, <2>1, <2>3 DEF CountRecent
<1>9. ASSUME NEW r \in Requests, SumDebits(r) PROVE LocksProtectReads'
  <2>1. \A q \in Requests \ {r} : Aside(q)
    BY <1>9 DEF SumDebits, Goto, Aside, TypeOK, locks
  <2>2. /\ seen'[r].balance = seen[r].balance
        /\ seen'[r].countedAt = seen[r].countedAt
        /\ seen'[r].counted = seen[r].counted
        /\ seen'[r].summedAt = now
        /\ seen'[r].debits = Debits(RecentOf(txns, OwnerOf(r), now))
    BY <1>9 DEF SumDebits, TypeOK, Seen
  <2>3. Reads(r)'
    BY <1>0, <1>9, <2>2 DEF SumDebits, Goto, TypeOK, Reads, RowRead,
       OwnerHeld, CoverRead, CountRead, SumRead, HoldsRow, HoldsOwner, Steps,
       AccountOf, OwnerOf, tables, locks
  <2>4. QED
    BY <1>9, <1>s, <2>1, <2>3 DEF SumDebits
<1>10. ASSUME NEW r \in Requests, CommitCompleted(r) PROVE LocksProtectReads'
  <2>1. PICK t \in seen[r].summedAt..now :
          txns' = txns \cup {NewRow(input[r], "COMPLETED", t)}
    BY <1>10 DEF CommitCompleted
  <2>2. PICK code \in {"created", "error"} : Finish(r, code)
    BY <1>10 DEF CommitCompleted
  <2>3. \A a \in Accounts \ {AccountOf(r)} : balance'[a] = balance[a]
    BY <1>10 DEF CommitCompleted, TypeOK
  <2>4. \A q \in Requests \ {r} : Intact(q)
    BY <1>0, <1>10, <2>1, <2>2, <2>3, CommitIsIntact
    DEF CommitCompleted, Finish
  <2>5. QED
    BY <2>2, <2>4, EndKeepsReads
<1>11. ASSUME NEW r \in Requests, CommitBlocked(r) PROVE LocksProtectReads'
  <2>1. PICK t \in seen[r].summedAt..now :
          txns' = txns \cup {NewRow(input[r], "BLOCKED", t)}
    BY <1>11 DEF CommitBlocked
  <2>2. PICK code \in {"blocked", "error"} : Finish(r, code)
    BY <1>11 DEF CommitBlocked
  <2>3. \A q \in Requests \ {r} : Intact(q)
    BY <1>0, <1>11, <2>1, <2>2, CommitIsIntact DEF CommitBlocked, Finish
  <2>4. QED
    BY <2>2, <2>3, EndKeepsReads
<1>12. ASSUME NEW r \in Requests, RejectDuplicate(r) PROVE LocksProtectReads'
  BY <1>12, <1>e DEF RejectDuplicate
<1>13. ASSUME NEW r \in Requests, Rollback(r) PROVE LocksProtectReads'
  BY <1>13, <1>e DEF Rollback
<1>14. ASSUME NEW a \in Accounts, OpenAccount(a) PROVE LocksProtectReads'
  <2>1. ASSUME NEW r \in Requests PROVE Aside(r) /\ Intact(r)
    <3>1. Aside(r)
      BY <1>14 DEF OpenAccount, Aside, locks
    <3>2. HoldsRow(r) => AccountOf(r) # a
      BY <1>0, <1>14 DEF OpenAccount, Reads, RowRead
    <3>3. HoldsRow(r) => status'[AccountOf(r)] = status[AccountOf(r)]
      BY <1>14, <3>2 DEF OpenAccount, TypeOK
    <3>4. QED
      BY <1>14, <3>1, <3>3 DEF OpenAccount, Intact, TypeOK
  <2>2. QED
    BY <1>0, <2>1, AsideKeepsReads DEF LocksProtectReads, Reads
<1>15. CASE Tick
  <2>1. ASSUME NEW r \in Requests PROVE Aside(r) /\ Intact(r)
    BY <1>15 DEF Tick, Aside, Intact, locks, tables, TypeOK
  <2>2. QED
    BY <1>0, <2>1, AsideKeepsReads DEF LocksProtectReads, Reads
<1>16. CASE UNCHANGED vars
  <2>1. ASSUME NEW r \in Requests PROVE Aside(r) /\ Intact(r)
    BY <1>16 DEF vars, Aside, Intact, TypeOK
  <2>2. QED
    BY <1>0, <2>1, AsideKeepsReads DEF LocksProtectReads, Reads
<1>17. QED
  BY <1>1, <1>2, <1>3, <1>4, <1>5, <1>6, <1>7, <1>8, <1>9, <1>10, <1>11, <1>12,
     <1>13, <1>14, <1>15, <1>16 DEF Next, Progress

\* Whatever a request has read under its locks is still true when it writes.
THEOREM ReadsProtected == Spec => []LocksProtectReads
<1>1. Init => TypeOK /\ LocksProtectReads
  BY InitType, InitReads
<1>2. TypeOK /\ LocksProtectReads /\ [Next]_vars => (TypeOK /\ LocksProtectReads)'
  BY NextType, NextReads
<1>3. QED
  BY <1>1, <1>2, PTL DEF Spec
-----------------------------------------------------------------------------
(* Concurrent requests are a sequence of indivisible postings *)

\* The bank and the engine go by the same rules.
LEMMA SameRules ==
  ASSUME NEW in, NEW b, NEW rows, NEW counted, NEW debits, NEW u, NEW t, NEW v
  PROVE  /\ Promise!Covered(in, b) <=> Covered(in, b)
         /\ Promise!Authorized(in) <=> Authorized(in)
         /\ Promise!RecentOf(rows, u, t) = RecentOf(rows, u, t)
         /\ Promise!Debits(rows) = Debits(rows)
         /\ Promise!Exceeds(in, counted, debits) <=> Exceeds(in, counted, debits)
         /\ Promise!NewRow(in, v, t) = NewRow(in, v, t)
         /\ Promise!Signed(in) = Signed(in)
         /\ Promise!CompletedOf(in, b) = CompletedOf(in, b)
         /\ Promise!BlockedOf(in) = BlockedOf(in)
<1>1. Promise!Total(debits) = Total(debits)
  BY DEF Total, Promise!Total, MapThenSumSet, Promise!MapThenSumSet,
     MapThenFoldSet, Promise!MapThenFoldSet
<1>2. Promise!Exceeds(in, counted, debits) <=> Exceeds(in, counted, debits)
  <2>1. Promise!Cardinality(counted) = Cardinality(counted)
    BY DEF Cardinality, Promise!Cardinality, IsFiniteSet, Promise!IsFiniteSet
  <2>2. QED
    BY <1>1, <2>1 DEF Exceeds, Promise!Exceeds
<1>3. Promise!RecentOf(rows, u, t) = RecentOf(rows, u, t)
  BY DEF RecentOf, Promise!RecentOf
<1>4. Promise!Debits(rows) = Debits(rows)
  BY DEF Debits, Promise!Debits
<1>5. QED
  BY <1>2, <1>3, <1>4
  DEF Covered, Promise!Covered, Authorized, Promise!Authorized, NewRow,
      Promise!NewRow, Signed, Promise!Signed, CompletedOf, Promise!CompletedOf,
      BlockedOf, Promise!BlockedOf

\* Rows counted and debits summed under the locks give the verdict of the bank.
LEMMA FlaggedIsSuspicious ==
  ASSUME NEW r \in Requests, NEW in, NEW c, NEW s, in = input[r],
         seen[r].counted = RecentOf(txns, Owner[in.account], c),
         seen[r].debits = Debits(RecentOf(txns, Owner[in.account], s))
  PROVE  Promise!Suspicious(in, c, s) <=> Flagged(r)
<1> DEFINE u == Owner[in.account]
<1>1. Promise!RecentOf(txns, u, c) = seen[r].counted
  BY SameRules
<1>2. Promise!Debits(Promise!RecentOf(txns, u, s)) = seen[r].debits
  <2>1. Promise!RecentOf(txns, u, s) = RecentOf(txns, u, s)
    BY SameRules
  <2>2. Promise!Debits(RecentOf(txns, u, s)) = Debits(RecentOf(txns, u, s))
    BY SameRules
  <2>3. QED
    BY <2>1, <2>2
<1>3. Promise!Suspicious(in, c, s)
        <=> Promise!Exceeds(in, seen[r].counted, seen[r].debits)
  BY <1>1, <1>2 DEF Promise!Suspicious
<1>4. Promise!Exceeds(in, seen[r].counted, seen[r].debits)
        <=> Exceeds(in, seen[r].counted, seen[r].debits)
  BY SameRules
<1>5. QED
  BY <1>3, <1>4 DEF Flagged

\* Committing a request that is not flagged is a posting of the bank.
LEMMA CommitIsPost ==
  ASSUME TypeOK, LocksProtectReads, NEW r \in Requests, CommitCompleted(r)
  PROVE  Promise!Next
<1> DEFINE in == input[r]
           c == seen[r].countedAt
           s == seen[r].summedAt
<1>1. in \in Inputs /\ AccountOf(r) = in.account /\ OwnerOf(r) = Owner[in.account]
  BY DEF TypeOK, AccountOf, OwnerOf
<1>2. PICK t \in s..now : txns' = txns \cup {NewRow(in, "COMPLETED", t)}
  BY DEF CommitCompleted
<1>3. /\ status[in.account] = "ACTIVE" /\ Authorized(in)
      /\ seen[r].balance = balance[in.account]
      /\ Covered(in, balance[in.account])
      /\ seen[r].counted = RecentOf(txns, Owner[in.account], c)
      /\ seen[r].debits = Debits(RecentOf(txns, Owner[in.account], s))
      /\ c <= s /\ s <= now
  BY <1>1 DEF CommitCompleted, LocksProtectReads, RowRead, CoverRead, CountRead,
     SumRead, HoldsRow, Steps
<1>4. c \in 0..now /\ s \in c..now
  BY <1>3 DEF TypeOK, Seen
<1>5. Promise!Acceptable(in)
  BY <1>3, SameRules DEF Promise!Acceptable, Promise!Fresh, CommitCompleted, Unknown
<1>6. ~Promise!Suspicious(in, c, s)
  BY <1>3, FlaggedIsSuspicious DEF CommitCompleted
<1>7. /\ balance' = [balance EXCEPT ![in.account] = @ + Signed(in)]
      /\ outbox' = Append(outbox, CompletedOf(in, balance[in.account] + Signed(in)))
      /\ UNCHANGED <<status, now>>
  BY <1>1, <1>3 DEF CommitCompleted, Finish
<1>8. Promise!Post(in, c, s, t)
  BY <1>2, <1>5, <1>6, <1>7, SameRules DEF Promise!Post
<1>9. QED
  BY <1>1, <1>4, <1>8 DEF Promise!Next

\* Committing a flagged request is a block of the bank.
LEMMA CommitIsBlock ==
  ASSUME TypeOK, LocksProtectReads, NEW r \in Requests, CommitBlocked(r)
  PROVE  Promise!Next
<1> DEFINE in == input[r]
           c == seen[r].countedAt
           s == seen[r].summedAt
<1>1. in \in Inputs /\ AccountOf(r) = in.account /\ OwnerOf(r) = Owner[in.account]
  BY DEF TypeOK, AccountOf, OwnerOf
<1>2. PICK t \in s..now : txns' = txns \cup {NewRow(in, "BLOCKED", t)}
  BY DEF CommitBlocked
<1>3. /\ status[in.account] = "ACTIVE" /\ Authorized(in)
      /\ Covered(in, balance[in.account])
      /\ seen[r].counted = RecentOf(txns, Owner[in.account], c)
      /\ seen[r].debits = Debits(RecentOf(txns, Owner[in.account], s))
      /\ c <= s /\ s <= now
  BY <1>1 DEF CommitBlocked, LocksProtectReads, RowRead, CoverRead, CountRead,
     SumRead, HoldsRow, Steps
<1>4. c \in 0..now /\ s \in c..now
  BY <1>3 DEF TypeOK, Seen
<1>5. Promise!Acceptable(in)
  BY <1>3, SameRules DEF Promise!Acceptable, Promise!Fresh, CommitBlocked, Unknown
<1>6. Promise!Suspicious(in, c, s)
  BY <1>3, FlaggedIsSuspicious DEF CommitBlocked
<1>7. Promise!Block(in, c, s, t)
  BY <1>1, <1>2, <1>5, <1>6, SameRules DEF Promise!Block, CommitBlocked, Finish
<1>8. QED
  BY <1>1, <1>4, <1>7 DEF Promise!Next

\* Every step of the engine is a posting, a blocking, an account opening or a
\* tick of the bank, or leaves the bank's tables and clock alone.
LEMMA NextRefines ==
  TypeOK /\ LocksProtectReads /\ [Next]_vars => [Promise!Next]_(Promise!vars)
<1> SUFFICES ASSUME TypeOK, LocksProtectReads, [Next]_vars
             PROVE  Promise!Next \/ UNCHANGED Promise!vars
  OBVIOUS
<1> USE DEF Promise!vars, tables
<1>1. ASSUME NEW r \in Requests,
             Submit(r) \/ LockAccount(r) \/ LockUser(r) \/ AcceptNew(r)
               \/ CountRecent(r) \/ SumDebits(r)
      PROVE  UNCHANGED Promise!vars
  BY <1>1 DEF Submit, LockAccount, LockUser, AcceptNew, CountRecent, SumDebits
<1>2. ASSUME NEW r \in Requests,
             RefuseAccount(r) \/ AnswerExisting(r) \/ RefuseInsufficient(r)
               \/ RejectDuplicate(r) \/ Rollback(r)
      PROVE  UNCHANGED Promise!vars
  BY <1>2 DEF RefuseAccount, AnswerExisting, RefuseInsufficient,
     RejectDuplicate, Rollback, Finish
<1>3. ASSUME NEW r \in Requests, CommitCompleted(r) \/ CommitBlocked(r)
      PROVE  Promise!Next
  BY <1>3, CommitIsPost, CommitIsBlock
<1>4. ASSUME NEW a \in Accounts, OpenAccount(a) PROVE Promise!Next
  BY <1>4 DEF OpenAccount, Promise!OpenAccount, Promise!Next
<1>5. CASE Tick
  BY <1>5 DEF Tick, Promise!Tick, Promise!Next
<1>6. CASE UNCHANGED vars
  BY <1>6 DEF vars
<1>7. QED
  BY <1>1, <1>2, <1>3, <1>4, <1>5, <1>6 DEF Next, Progress

\* The statement-by-statement engine implements the bank that serves each request
\* in one indivisible step.
THEOREM EngineImplementsBank == Spec => BankSpec
<1>1. Init => Promise!Init
  BY DEF Init, Promise!Init
<1>2. QED
  BY <1>1, NextRefines, TypeCorrect, ReadsProtected, PTL
  DEF Spec, BankSpec, Promise!Spec
-----------------------------------------------------------------------------
(* What the tables record *)

\* Only commits write the Transaction table and the outbox.
LEMMA OnlyCommitsWrite ==
  ASSUME [Next]_vars,
         \A r \in Requests : ~CommitCompleted(r) /\ ~CommitBlocked(r)
  PROVE  UNCHANGED <<txns, outbox>>
<1> USE DEF tables
<1>1. ASSUME NEW r \in Requests,
             Submit(r) \/ LockAccount(r) \/ LockUser(r) \/ AcceptNew(r)
               \/ CountRecent(r) \/ SumDebits(r) \/ RefuseAccount(r)
               \/ AnswerExisting(r) \/ RefuseInsufficient(r)
               \/ RejectDuplicate(r) \/ Rollback(r)
      PROVE  UNCHANGED <<txns, outbox>>
  BY <1>1 DEF Submit, LockAccount, LockUser, AcceptNew, CountRecent, SumDebits,
     RefuseAccount, AnswerExisting, RefuseInsufficient, RejectDuplicate, Rollback
<1>2. ASSUME NEW a \in Accounts, OpenAccount(a) PROVE UNCHANGED <<txns, outbox>>
  BY <1>2 DEF OpenAccount
<1>3. QED
  BY <1>1, <1>2 DEF Next, Progress, Tick, vars

\* A commit inserts one row and appends one event, both with a new id.
LEMMA CommitWrites ==
  ASSUME TypeOK, LocksProtectReads, NEW r \in Requests,
         CommitCompleted(r) \/ CommitBlocked(r)
  PROVE  \E x \in Row, e \in Event :
           /\ txns' = txns \cup {x} /\ outbox' = Append(outbox, e)
           /\ x.id = e.id /\ \A y \in txns : y.id # x.id
           /\ x.createdAt <= now /\ now' = now
           /\ x.status = "COMPLETED" =>
                /\ CommitCompleted(r)
                /\ seen[r].countedAt <= x.createdAt
                /\ seen[r].summedAt <= x.createdAt
                /\ x.account = AccountOf(r)
                /\ x.type = input[r].type /\ x.amount = input[r].amount
           /\ e.kind = "TransactionCompleted" /\ e.type = "DEBIT" =>
                e.balanceAfter > 0
<1>1. /\ input[r] \in Inputs /\ input[r] \in Input
      /\ seen[r].summedAt \in Nat /\ seen[r].countedAt \in Nat
      /\ seen[r].balance \in Int /\ now \in Nat
  BY InputType DEF TypeOK, Seen
<1>2. /\ seen[r].countedAt <= seen[r].summedAt
      /\ Covered(input[r], seen[r].balance)
  BY DEF CommitCompleted, CommitBlocked, LocksProtectReads, SumRead, CoverRead
<1>3. CASE CommitCompleted(r)
  <2>1. PICK t \in seen[r].summedAt..now :
          txns' = txns \cup {NewRow(input[r], "COMPLETED", t)}
    BY <1>3 DEF CommitCompleted
  <2> DEFINE x == NewRow(input[r], "COMPLETED", t)
             b == seen[r].balance + Signed(input[r])
             e == CompletedOf(input[r], b)
  <2>2. x \in Row /\ e \in Event /\ b \in Int
    BY <1>1, InputType
  <2>3. /\ x.id = input[r].id /\ x.createdAt = t /\ x.account = AccountOf(r)
        /\ x.type = input[r].type /\ x.amount = input[r].amount
        /\ e.id = input[r].id /\ e.type = input[r].type /\ e.balanceAfter = b
    BY DEF NewRow, CompletedOf, AccountOf
  <2>4. input[r].type = "DEBIT" => b > 0
    BY <1>1, <1>2 DEF Covered, Signed, Input
  <2>5. \A y \in txns : y.id # x.id
    BY <1>3, <2>3 DEF CommitCompleted, Unknown
  <2>6. seen[r].countedAt <= t /\ seen[r].summedAt <= t /\ t <= now
    BY <1>1, <1>2
  <2>7. outbox' = Append(outbox, e) /\ now' = now
    BY <1>3 DEF CommitCompleted, Finish
  <2>8. QED
    BY <1>3, <2>1, <2>2, <2>3, <2>4, <2>5, <2>6, <2>7
<1>4. CASE CommitBlocked(r)
  <2>1. PICK t \in seen[r].summedAt..now :
          txns' = txns \cup {NewRow(input[r], "BLOCKED", t)}
    BY <1>4 DEF CommitBlocked
  <2> DEFINE x == NewRow(input[r], "BLOCKED", t)
             e == BlockedOf(input[r])
  <2>2. x \in Row /\ e \in Event
    BY <1>1, InputType
  <2>3. /\ x.id = input[r].id /\ x.createdAt = t /\ x.status = "BLOCKED"
        /\ e.id = input[r].id /\ e.kind = "TransactionBlocked"
    BY DEF NewRow, BlockedOf
  <2>4. \A y \in txns : y.id # x.id
    BY <1>4, <2>3 DEF CommitBlocked, Unknown
  <2>5. t <= now
    BY <1>1
  <2>6. outbox' = Append(outbox, e) /\ now' = now
    BY <1>4 DEF CommitBlocked, Finish
  <2>7. QED
    BY <2>1, <2>2, <2>3, <2>4, <2>5, <2>6
<1>5. QED
  BY <1>3, <1>4

\* A debit leaves its account positive: the step.
LEMMA NextDebit ==
  TypeOK /\ LocksProtectReads /\ DebitLeavesPositive /\ [Next]_vars
    => DebitLeavesPositive'
<1> SUFFICES ASSUME TypeOK, LocksProtectReads, DebitLeavesPositive, [Next]_vars
             PROVE  DebitLeavesPositive'
  OBVIOUS
<1>1. ASSUME NEW r \in Requests, CommitCompleted(r) \/ CommitBlocked(r)
      PROVE  DebitLeavesPositive'
  <2>1. PICK e \in Event :
          /\ outbox' = Append(outbox, e)
          /\ e.kind = "TransactionCompleted" /\ e.type = "DEBIT" =>
               e.balanceAfter > 0
    BY <1>1, CommitWrites
  <2>2. \A i \in DOMAIN outbox' :
          (i \in DOMAIN outbox /\ outbox'[i] = outbox[i]) \/ outbox'[i] = e
    BY <2>1 DEF TypeOK
  <2>3. QED
    BY <2>1, <2>2 DEF DebitLeavesPositive
<1>2. CASE UNCHANGED <<txns, outbox>>
  BY <1>2 DEF DebitLeavesPositive
<1>3. QED
  BY <1>1, <1>2, OnlyCommitsWrite

\* No two rows and no two events share an id: the step.
LEMMA NextUnique ==
  TypeOK /\ LocksProtectReads /\ OneRowOneEvent /\ [Next]_vars
    => OneRowOneEvent'
<1> SUFFICES ASSUME TypeOK, LocksProtectReads, OneRowOneEvent, [Next]_vars
             PROVE  OneRowOneEvent'
  OBVIOUS
<1>1. ASSUME NEW r \in Requests, CommitCompleted(r) \/ CommitBlocked(r)
      PROVE  OneRowOneEvent'
  <2>1. PICK x \in Row, e \in Event :
          /\ txns' = txns \cup {x} /\ outbox' = Append(outbox, e)
          /\ x.id = e.id /\ \A y \in txns : y.id # x.id
    BY <1>1, CommitWrites
  <2>2. /\ DOMAIN outbox' = DOMAIN outbox \cup {Len(outbox) + 1}
        /\ outbox'[Len(outbox) + 1] = e
        /\ \A i \in DOMAIN outbox : outbox'[i] = outbox[i]
    BY <2>1 DEF TypeOK
  <2>3. \A i \in DOMAIN outbox : outbox[i].id # e.id
    BY <2>1 DEF OneRowOneEvent
  <2>4. \A y, z \in txns' : y.id = z.id => y = z
    BY <2>1 DEF OneRowOneEvent
  <2>5. \A i, j \in DOMAIN outbox' : outbox'[i].id = outbox'[j].id => i = j
    BY <2>2, <2>3 DEF OneRowOneEvent
  <2>6. {outbox'[i].id : i \in DOMAIN outbox'} = {y.id : y \in txns'}
    <3>1. {outbox'[i].id : i \in DOMAIN outbox'}
            = {outbox[i].id : i \in DOMAIN outbox} \cup {e.id}
      BY <2>2
    <3>2. {y.id : y \in txns'} = {y.id : y \in txns} \cup {x.id}
      BY <2>1
    <3>3. QED
      BY <2>1, <3>1, <3>2 DEF OneRowOneEvent
  <2>7. QED
    BY <2>4, <2>5, <2>6 DEF OneRowOneEvent
<1>2. CASE UNCHANGED <<txns, outbox>>
  BY <1>2 DEF OneRowOneEvent
<1>3. QED
  BY <1>1, <1>2, OnlyCommitsWrite
\* Request r, if it was answered with a success, finds its own row completed.
Recorded(r) ==
  reply[r] \in Successes =>
    \E x \in txns : /\ x.id = input[r].id /\ x.status = "COMPLETED"
                   /\ SameRequest(input[r], x)

\* A success tells of a row that is there: the step.
LEMMA NextSuccess ==
  TypeOK /\ LocksProtectReads /\ SuccessIsRecorded /\ [Next]_vars
    => SuccessIsRecorded'
<1> SUFFICES ASSUME TypeOK, LocksProtectReads, SuccessIsRecorded, [Next]_vars,
                    NEW q \in Requests
             PROVE  Recorded(q)'
  BY DEF SuccessIsRecorded, Recorded, SameRequest, AccountOf
<1> USE DEF tables, locks
<1>1. txns \subseteq txns'
  <2>1. ASSUME NEW r \in Requests, CommitCompleted(r) \/ CommitBlocked(r)
        PROVE  txns \subseteq txns'
    BY <2>1, CommitWrites
  <2>2. QED
    BY <2>1, OnlyCommitsWrite
<1>2. ASSUME reply'[q] = reply[q], input'[q] = input[q]
      PROVE  Recorded(q)'
  BY <1>1, <1>2 DEF SuccessIsRecorded, Recorded, SameRequest, AccountOf
<1>3. ASSUME reply'[q] \notin Successes PROVE Recorded(q)'
  BY <1>3 DEF Recorded
<1>4. ASSUME NEW r \in Requests, NEW code, Finish(r, code)
      PROVE  /\ input'[q] = input[q]
             /\ reply'[q] = IF q = r THEN code ELSE reply[q]
  BY <1>4 DEF Finish, TypeOK
<1>5. ASSUME NEW r \in Requests, Submit(r) PROVE Recorded(q)'
  BY <1>2, <1>3, <1>5 DEF Submit, TypeOK, Successes
<1>6. ASSUME NEW r \in Requests,
             LockAccount(r) \/ LockUser(r) \/ AcceptNew(r) \/ CountRecent(r)
               \/ SumDebits(r)
      PROVE  Recorded(q)'
  BY <1>2, <1>6 DEF LockAccount, LockUser, AcceptNew, CountRecent, SumDebits, Goto
<1>7. ASSUME NEW r \in Requests, NEW code, Finish(r, code), code \notin Successes
      PROVE  Recorded(q)'
  BY <1>2, <1>3, <1>4, <1>7
<1>8. ASSUME NEW r \in Requests,
             RefuseAccount(r) \/ RefuseInsufficient(r) \/ RejectDuplicate(r)
               \/ Rollback(r) \/ CommitBlocked(r)
      PROVE  Recorded(q)'
  <2>1. Objection(r) \notin Successes
    BY DEF Objection, Successes
  <2>2. QED
    BY <1>7, <1>8, <2>1 DEF RefuseAccount, RefuseInsufficient, RejectDuplicate,
       Rollback, CommitBlocked, Successes
<1>9. ASSUME NEW r \in Requests, AnswerExisting(r) PROVE Recorded(q)'
  <2>1. PICK x \in txns :
          /\ x.id = input[r].id
          /\ Finish(r, IF ~SameRequest(input[r], x) THEN "conflict"
                       ELSE IF x.status = "BLOCKED" THEN "blocked" ELSE "existing")
    BY <1>9 DEF AnswerExisting
  <2>2. CASE SameRequest(input[r], x) /\ x.status # "BLOCKED"
    <3>1. x.status = "COMPLETED"
      BY <2>2 DEF TypeOK, Row
    <3>2. CASE q = r
      BY <1>1, <1>4, <2>1, <2>2, <3>1, <3>2 DEF Recorded
    <3>3. CASE q # r
      BY <1>2, <1>4, <2>1, <3>3
    <3>4. QED
      BY <3>2, <3>3
  <2>3. CASE ~(SameRequest(input[r], x) /\ x.status # "BLOCKED")
    BY <1>7, <2>1, <2>3 DEF Successes
  <2>4. QED
    BY <2>2, <2>3
<1>10. ASSUME NEW r \in Requests, CommitCompleted(r) PROVE Recorded(q)'
  <2>1. PICK t : txns' = txns \cup {NewRow(input[r], "COMPLETED", t)}
    BY <1>10 DEF CommitCompleted
  <2>2. PICK code : Finish(r, code)
    BY <1>10 DEF CommitCompleted
  <2>3. CASE q = r
    <3>1. /\ NewRow(input[r], "COMPLETED", t).id = input[r].id
          /\ NewRow(input[r], "COMPLETED", t).status = "COMPLETED"
          /\ SameRequest(input[r], NewRow(input[r], "COMPLETED", t))
      BY DEF NewRow, SameRequest
    <3>2. QED
      BY <1>4, <2>1, <2>2, <2>3, <3>1 DEF Recorded
  <2>4. CASE q # r
    BY <1>2, <1>4, <2>2, <2>4
  <2>5. QED
    BY <2>3, <2>4
<1>11. ASSUME NEW a \in Accounts, OpenAccount(a) PROVE Recorded(q)'
  BY <1>2, <1>11 DEF OpenAccount
<1>12. CASE Tick \/ UNCHANGED vars
  BY <1>2, <1>12 DEF Tick, vars
<1>13. QED
  BY <1>5, <1>6, <1>8, <1>9, <1>10, <1>11, <1>12 DEF Next, Progress

-----------------------------------------------------------------------------
(* The velocity rule *)

CompletedIn(u, t) ==
  {x \in txns : InWindow(x, u, t) /\ x.status = "COMPLETED"}

\* The table is finite and holds no row from the future.
PastRows == IsFiniteSet(txns) /\ \A x \in txns : x.createdAt <= now

\* The table stays finite and of the past.
LEMMA NextPast ==
  TypeOK /\ LocksProtectReads /\ PastRows /\ [Next]_vars => PastRows'
<1> SUFFICES ASSUME TypeOK, LocksProtectReads, PastRows, [Next]_vars
             PROVE  PastRows'
  OBVIOUS
<1>1. ASSUME NEW r \in Requests, CommitCompleted(r) \/ CommitBlocked(r)
      PROVE  PastRows'
  <2>1. PICK x \in Row :
          txns' = txns \cup {x} /\ x.createdAt <= now /\ now' = now
    BY <1>1, CommitWrites
  <2>2. IsFiniteSet(txns')
    BY <2>1, FS_AddElement DEF PastRows
  <2>3. QED
    BY <2>1, <2>2 DEF PastRows
<1>2. CASE UNCHANGED txns
  <2>1. now' >= now
    BY NextRefines DEF Promise!Next, Promise!vars, Promise!Post, Promise!Block,
       Promise!OpenAccount, Promise!Tick, TypeOK
  <2>2. now' \in Nat
    BY NextType DEF TypeOK
  <2>3. \A x \in txns : x.createdAt <= now'
    BY <2>1, <2>2 DEF PastRows, TypeOK, Row
  <2>4. QED
    BY <1>2, <2>3 DEF PastRows
<1>3. QED
  BY <1>1, <1>2, OnlyCommitsWrite

\* The rows completed in a window, when one row is added to the table.
LEMMA NextVelocity ==
  TypeOK /\ LocksProtectReads /\ PastRows /\ VelocityLimit /\ [Next]_vars
    => VelocityLimit'
<1> SUFFICES ASSUME TypeOK, LocksProtectReads, PastRows, VelocityLimit,
                    [Next]_vars, NEW u \in Users, NEW t \in 0..now'
             PROVE  Cardinality(CompletedIn(u, t)') <= MaxTxn
  BY DEF VelocityLimit, CompletedIn
<1>1. MaxTxn \in Nat /\ Window \in Nat /\ now \in Nat /\ now' \in Nat /\ t \in Nat
  <2>1. now' \in Nat
    BY NextType DEF TypeOK
  <2>2. QED
    BY <2>1, BankAssumption DEF TypeOK
<1>2. \A n \in 0..now : /\ IsFiniteSet(CompletedIn(u, n))
                        /\ Cardinality(CompletedIn(u, n)) \in Nat
                        /\ Cardinality(CompletedIn(u, n)) <= MaxTxn
  <2>1. \A n : CompletedIn(u, n) \subseteq txns
    BY DEF CompletedIn
  <2>2. QED
    BY <2>1, FS_Subset, FS_CardinalityType DEF PastRows, VelocityLimit, CompletedIn
<1>3. ASSUME UNCHANGED txns PROVE Cardinality(CompletedIn(u, t)') <= MaxTxn
  <2>1. CompletedIn(u, t)' = CompletedIn(u, t)
    BY <1>3 DEF CompletedIn, InWindow
  <2>2. CASE t <= now
    BY <1>1, <1>2, <2>1, <2>2
  <2>3. CASE t > now
    <3>1. CompletedIn(u, t) \subseteq CompletedIn(u, now)
      BY <1>1, <2>3 DEF CompletedIn, InWindow, PastRows, TypeOK, Row
    <3>2. Cardinality(CompletedIn(u, t)) <= Cardinality(CompletedIn(u, now))
      BY <1>1, <1>2, <3>1, FS_Subset
    <3>3. Cardinality(CompletedIn(u, t)) \in Nat
      BY <1>1, <1>2, <3>1, FS_Subset, FS_CardinalityType
    <3>4. QED
      BY <1>1, <1>2, <2>1, <3>2, <3>3
  <2>4. QED
    BY <1>1, <2>2, <2>3
<1>4. ASSUME NEW r \in Requests, CommitCompleted(r) \/ CommitBlocked(r)
      PROVE  Cardinality(CompletedIn(u, t)') <= MaxTxn
  <2>1. PICK x \in Row :
          /\ txns' = txns \cup {x} /\ x.createdAt <= now /\ now' = now
          /\ x.status = "COMPLETED" => /\ CommitCompleted(r)
                                       /\ seen[r].countedAt <= x.createdAt
                                       /\ x.account = AccountOf(r)
    BY <1>4, CommitWrites
  <2>2. CASE ~(InWindow(x, u, t) /\ x.status = "COMPLETED")
    <3>1. CompletedIn(u, t)' = CompletedIn(u, t)
      BY <2>1, <2>2 DEF CompletedIn, InWindow
    <3>2. QED
      BY <1>2, <2>1, <3>1
  <2>3. CASE InWindow(x, u, t) /\ x.status = "COMPLETED"
    <3>1. CompletedIn(u, t)' = CompletedIn(u, t) \cup {x}
      BY <2>1, <2>3 DEF CompletedIn, InWindow
    <3>2. OwnerOf(r) = u /\ seen[r].countedAt \in Nat /\ seen[r].countedAt <= t
      BY <1>1, <2>1, <2>3 DEF InWindow, OwnerOf, TypeOK, Seen, Row
    <3>3. seen[r].counted = RecentOf(txns, u, seen[r].countedAt)
      BY <2>1, <2>3, <3>2 DEF CommitCompleted, LocksProtectReads, CountRead
    <3>4. CompletedIn(u, t) \subseteq seen[r].counted
      BY <1>1, <3>2, <3>3 DEF CompletedIn, InWindow, RecentOf, TypeOK, Row
    <3>5. IsFiniteSet(seen[r].counted)
      <4>1. seen[r].counted \subseteq txns
        BY <3>3 DEF RecentOf
      <4>2. QED
        BY <4>1, FS_Subset DEF PastRows
    <3>6. Cardinality(seen[r].counted) + 1 <= MaxTxn
      <4>1. Cardinality(seen[r].counted) \in Nat
        BY <3>5, FS_CardinalityType
      <4>2. ~(Cardinality(seen[r].counted) + 1 > MaxTxn)
        BY <2>1, <2>3 DEF CommitCompleted, Flagged, Exceeds
      <4>3. QED
        BY <1>1, <4>1, <4>2
    <3>7. /\ Cardinality(CompletedIn(u, t)) <= Cardinality(seen[r].counted)
          /\ Cardinality(CompletedIn(u, t)) \in Nat
          /\ Cardinality(seen[r].counted) \in Nat
      BY <3>4, <3>5, FS_Subset, FS_CardinalityType
    <3>8. Cardinality(CompletedIn(u, t) \cup {x}) <= Cardinality(CompletedIn(u, t)) + 1
      <4>1. IsFiniteSet(CompletedIn(u, t))
        BY <3>4, <3>5, FS_Subset
      <4>2. \/ Cardinality(CompletedIn(u, t) \cup {x}) = Cardinality(CompletedIn(u, t))
            \/ Cardinality(CompletedIn(u, t) \cup {x})
                 = Cardinality(CompletedIn(u, t)) + 1
        BY <4>1, FS_AddElement
      <4>3. QED
        BY <3>7, <4>2
    <3>9. Cardinality(CompletedIn(u, t) \cup {x}) \in Nat
      <4>1. IsFiniteSet(CompletedIn(u, t) \cup {x})
        BY <3>4, <3>5, FS_Subset, FS_AddElement
      <4>2. QED
        BY <4>1, FS_CardinalityType
    <3>10. QED
      BY <1>1, <3>1, <3>6, <3>7, <3>8, <3>9
  <2>4. QED
    BY <2>2, <2>3
<1>5. QED
  BY <1>3, <1>4, OnlyCommitsWrite

-----------------------------------------------------------------------------
(* The cumulative rule *)

Amount == [x \in Row |-> x.amount]

\* What the engine adds up is the sum of the amounts, in any order.
LEMMA TotalIsSum ==
  ASSUME NEW rows, rows \subseteq Row, IsFiniteSet(rows)
  PROVE  Total(rows) = SumOf(Amount, rows)
<1> DEFINE Adds(g) ==
             g = [s \in SUBSET rows |->
                    IF s = {} THEN 0 ELSE Pick(s).amount + g[s \ {Pick(s)}]]
<1>1. Total(rows) = (CHOOSE g : Adds(g))[rows]
  BY DEF Total, MapThenSumSet, MapThenFoldSet, Pick
<1>2. ASSUME NEW g PROVE Adds(g) <=> Sums(g, Amount, rows)
  <2> DEFINE v(s) == IF s = {} THEN 0 ELSE Pick(s).amount + g[s \ {Pick(s)}]
             w(s) == IF s = {} THEN 0 ELSE Amount[Pick(s)] + g[s \ {Pick(s)}]
  <2>1. \A s \in SUBSET rows : v(s) = w(s)
    BY PickIsIn DEF Amount
  <2>2. [s \in SUBSET rows |-> v(s)] = [s \in SUBSET rows |-> w(s)]
    <3> HIDE DEF v, w
    <3>1. QED
      BY <2>1
  <2>3. QED
    BY <2>2 DEF Sums
<1>3. \E g : Sums(g, Amount, rows)
  BY SumsExist
<1>4. Sums(CHOOSE g : Adds(g), Amount, rows)
  <2>1. \E g : Adds(g)
    BY <1>2, <1>3
  <2> HIDE DEF Adds
  <2>2. Adds(CHOOSE g : Adds(g))
    BY <2>1
  <2>3. QED
    BY <1>2, <2>2
<1>5. QED
  BY <1>1, <1>4, SumIsUnique

\* The debits of a window: what the sums of the cumulative rule do.
LEMMA TotalFacts ==
  ASSUME NEW rows, rows \subseteq Row, IsFiniteSet(rows)
  PROVE  /\ Total(rows) \in Int
         /\ \A few \in SUBSET rows : Total(few) <= Total(rows)
         /\ \A x \in Row \ rows : Total(rows \cup {x}) = Total(rows) + x.amount
<1>1. \A x \in Row : Amount[x] \in Nat /\ Amount[x] = x.amount
  BY DEF Amount, Row
<1>2. Total(rows) = SumOf(Amount, rows) /\ Total(rows) \in Int
  BY <1>1, TotalIsSum, SumIsInt
<1>3. ASSUME NEW few \in SUBSET rows PROVE Total(few) <= Total(rows)
  <2>1. IsFiniteSet(few) /\ few \subseteq Row
    BY FS_Subset
  <2>2. Total(few) = SumOf(Amount, few)
    BY <2>1, TotalIsSum
  <2>3. SumOf(Amount, few) <= SumOf(Amount, rows)
    BY <1>1, SumOfFewer
  <2>4. QED
    BY <1>2, <2>2, <2>3
<1>4. ASSUME NEW x \in Row \ rows
      PROVE  Total(rows \cup {x}) = Total(rows) + x.amount
  <2>1. rows \cup {x} \subseteq Row /\ IsFiniteSet(rows \cup {x})
    BY FS_AddElement
  <2>2. \A y \in rows \cup {x} : Amount[y] \in Int
    BY <1>1
  <2>3. SumOf(Amount, rows \cup {x}) = SumOf(Amount, rows) + Amount[x]
    BY <2>2, SumWith
  <2>4. QED
    BY <1>1, <1>2, <2>1, <2>3, TotalIsSum
<1>5. QED
  BY <1>2, <1>3, <1>4

DebitsIn(u, t) == Debits(CompletedIn(u, t))

\* The debits completed in a window, when one row is added to the table.
LEMMA NextAmount ==
  TypeOK /\ LocksProtectReads /\ PastRows /\ AmountLimit /\ [Next]_vars => AmountLimit'
<1> SUFFICES ASSUME TypeOK, LocksProtectReads, PastRows, AmountLimit,
                    [Next]_vars, NEW u \in Users, NEW t \in 0..now'
             PROVE  Total(DebitsIn(u, t)') <= FraudTxnAmount
  BY DEF AmountLimit, DebitsIn, CompletedIn
<1>1. FraudTxnAmount \in Nat /\ Window \in Nat /\ now \in Nat /\ now' \in Nat /\ t \in Nat
  <2>1. now' \in Nat
    BY NextType DEF TypeOK
  <2>2. QED
    BY <2>1, BankAssumption DEF TypeOK
<1>2. ASSUME NEW n
      PROVE  /\ DebitsIn(u, n) \subseteq Row /\ IsFiniteSet(DebitsIn(u, n))
             /\ Total(DebitsIn(u, n)) \in Int
  <2>1. DebitsIn(u, n) \subseteq txns
    BY DEF DebitsIn, Debits, CompletedIn
  <2>2. DebitsIn(u, n) \subseteq Row /\ IsFiniteSet(DebitsIn(u, n))
    BY <2>1, FS_Subset DEF PastRows, TypeOK
  <2>3. QED
    BY <2>2, TotalFacts
<1>3. \A n \in 0..now : Total(DebitsIn(u, n)) <= FraudTxnAmount
  BY DEF AmountLimit, DebitsIn, CompletedIn
<1>4. ASSUME UNCHANGED txns PROVE Total(DebitsIn(u, t)') <= FraudTxnAmount
  <2>1. DebitsIn(u, t)' = DebitsIn(u, t)
    BY <1>4 DEF DebitsIn, Debits, CompletedIn, InWindow
  <2>2. CASE t <= now
    BY <1>1, <1>3, <2>1, <2>2
  <2>3. CASE t > now
    <3>1. DebitsIn(u, t) \subseteq DebitsIn(u, now)
      BY <1>1, <2>3 DEF DebitsIn, Debits, CompletedIn, InWindow, PastRows, TypeOK, Row
    <3>2. Total(DebitsIn(u, t)) <= Total(DebitsIn(u, now))
      BY <1>2, <3>1, TotalFacts
    <3>3. Total(DebitsIn(u, now)) <= FraudTxnAmount
      BY <1>1, <1>3
    <3>4. Total(DebitsIn(u, t)) <= FraudTxnAmount
      BY <1>1, <1>2, <3>2, <3>3
    <3>5. QED
      BY <2>1, <3>4
  <2>4. QED
    BY <1>1, <2>2, <2>3
<1>5. ASSUME NEW r \in Requests, CommitCompleted(r) \/ CommitBlocked(r)
      PROVE  Total(DebitsIn(u, t)') <= FraudTxnAmount
  <2>1. PICK x \in Row :
          /\ txns' = txns \cup {x} /\ now' = now
          /\ \A y \in txns : y.id # x.id
          /\ x.status = "COMPLETED" => /\ CommitCompleted(r)
                                       /\ seen[r].summedAt <= x.createdAt
                                       /\ x.account = AccountOf(r)
                                       /\ x.type = input[r].type
                                       /\ x.amount = input[r].amount
    BY <1>5, CommitWrites
  <2>2. CASE ~(InWindow(x, u, t) /\ x.status = "COMPLETED" /\ x.type = "DEBIT")
    <3>1. DebitsIn(u, t)' = DebitsIn(u, t)
      BY <2>1, <2>2 DEF DebitsIn, Debits, CompletedIn, InWindow
    <3>2. QED
      BY <1>3, <2>1, <3>1
  <2>3. CASE InWindow(x, u, t) /\ x.status = "COMPLETED" /\ x.type = "DEBIT"
    <3>1. DebitsIn(u, t)' = DebitsIn(u, t) \cup {x}
      BY <2>1, <2>3 DEF DebitsIn, Debits, CompletedIn, InWindow
    <3>2. OwnerOf(r) = u /\ seen[r].summedAt \in Nat /\ seen[r].summedAt <= t
      BY <1>1, <2>1, <2>3 DEF InWindow, OwnerOf, TypeOK, Seen, Row
    <3>3. seen[r].debits = Debits(RecentOf(txns, u, seen[r].summedAt))
      BY <2>1, <2>3, <3>2 DEF CommitCompleted, LocksProtectReads, SumRead
    <3>4. DebitsIn(u, t) \subseteq seen[r].debits
      <4>1. SUFFICES ASSUME NEW y \in DebitsIn(u, t) PROVE y \in seen[r].debits
        OBVIOUS
      <4>2. /\ y \in txns /\ y.type = "DEBIT" /\ Owner[y.account] = u
            /\ y.createdAt >= t - Window
        BY DEF DebitsIn, Debits, CompletedIn, InWindow
      <4>3. y.createdAt \in Nat
        BY <4>2 DEF TypeOK, Row
      <4>4. y.createdAt >= seen[r].summedAt - Window
        BY <1>1, <3>2, <4>2, <4>3
      <4>5. QED
        BY <3>3, <4>2, <4>4 DEF Debits, RecentOf
    <3>5. seen[r].debits \subseteq Row /\ IsFiniteSet(seen[r].debits)
      <4>1. seen[r].debits \subseteq txns
        BY <3>3 DEF Debits, RecentOf
      <4>2. QED
        BY <4>1, FS_Subset DEF PastRows, TypeOK
    <3>6. Total(seen[r].debits) \in Int /\ Total(DebitsIn(u, t)) <= Total(seen[r].debits)
      BY <3>4, <3>5, TotalFacts
    <3>7. ~(Total(seen[r].debits) + x.amount > FraudTxnAmount)
      BY <2>1, <2>3 DEF CommitCompleted, Flagged, Exceeds
    <3>8. x \notin DebitsIn(u, t)
      BY <2>1 DEF DebitsIn, Debits, CompletedIn
    <3>9. Total(DebitsIn(u, t) \cup {x}) = Total(DebitsIn(u, t)) + x.amount
      BY <1>2, <3>8, TotalFacts
    <3>10. x.amount \in Nat
      BY DEF Row
    <3>11. Total(DebitsIn(u, t)) + x.amount <= FraudTxnAmount
      BY <1>1, <1>2, <3>6, <3>7, <3>10
    <3>12. QED
      BY <3>1, <3>9, <3>11
  <2>4. QED
    BY <2>2, <2>3
<1>6. QED
  BY <1>4, <1>5, OnlyCommitsWrite

-----------------------------------------------------------------------------
(* The invariants of the engine *)

IInv == /\ TypeOK /\ LocksProtectReads /\ PastRows /\ VelocityLimit /\ AmountLimit
        /\ DebitLeavesPositive /\ OneRowOneEvent /\ SuccessIsRecorded

\* The inductive invariant holds at the start.
LEMMA InitIInv == Init => IInv
<1> SUFFICES ASSUME Init PROVE IInv
  OBVIOUS
<1>1. PastRows
  BY FS_EmptySet DEF Init, PastRows
<1>2. VelocityLimit
  <2>1. ASSUME NEW u, NEW t PROVE Cardinality(CompletedIn(u, t)) <= MaxTxn
    <3>1. CompletedIn(u, t) = {}
      BY DEF Init, CompletedIn
    <3>2. Cardinality({}) = 0 /\ 0 <= MaxTxn
      BY FS_EmptySet, BankAssumption
    <3>3. QED
      BY <3>1, <3>2
  <2>2. QED
    BY <2>1 DEF VelocityLimit, CompletedIn
<1>3. AmountLimit
  <2>1. Total({}) = 0
    BY TotalIsSum, SumOfNothing, FS_EmptySet
  <2>2. ASSUME NEW u, NEW t PROVE Total(DebitsIn(u, t)) <= FraudTxnAmount
    <3>1. DebitsIn(u, t) = {}
      BY DEF Init, DebitsIn, Debits, CompletedIn
    <3>2. 0 <= FraudTxnAmount
      BY BankAssumption
    <3>3. QED
      BY <2>1, <3>1, <3>2
  <2>3. QED
    BY <2>2 DEF AmountLimit, DebitsIn, CompletedIn
<1>4. DebitLeavesPositive /\ OneRowOneEvent /\ SuccessIsRecorded
  BY DEF Init, DebitLeavesPositive, OneRowOneEvent, SuccessIsRecorded, Successes
<1>5. QED
  BY <1>1, <1>2, <1>3, <1>4, InitType, InitReads DEF IInv

\* The inductive invariant holds in every reachable state.
LEMMA Inductive == Spec => []IInv
<1>1. IInv /\ [Next]_vars => IInv'
  BY NextType, NextReads, NextPast, NextVelocity, NextAmount, NextDebit, NextUnique,
     NextSuccess DEF IInv
<1>2. QED
  BY <1>1, InitIInv, PTL DEF Spec

\* Concurrent requests never complete more than MaxTxn transactions of one user
\* inside a window, whichever of the user's accounts they are on.
THEOREM VelocityLimited == Spec => []VelocityLimit
BY Inductive, PTL DEF IInv

\* The debits completed for one user inside a window never add up to more than the
\* limit of the cumulative rule, however many requests ran side by side.
THEOREM AmountLimited == Spec => []AmountLimit
BY Inductive, PTL DEF IInv

\* No debit takes an account to zero or below.
THEOREM DebitsStayPositive == Spec => []DebitLeavesPositive
BY Inductive, PTL DEF IInv

\* Rows and events correspond one to one through the client's transactionId.
THEOREM IdsAreUnique == Spec => []OneRowOneEvent
BY Inductive, PTL DEF IInv

\* A reported success is a completed row of that very request.
THEOREM SuccessesAreRecorded == Spec => []SuccessIsRecorded
BY Inductive, PTL DEF IInv
=============================================================================
