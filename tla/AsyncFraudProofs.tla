--------------------------- MODULE AsyncFraudProofs ---------------------------
(***************************************************************************)
(* Theorems about AsyncFraud, for any events, handlers, window and limit.  *)
(***************************************************************************)
EXTENDS AsyncFraud, FiniteSetTheorems, TLAPS

\* A handler that calls its event suspicious, or is about to flag the account, has
\* counted too many observations in the minute before the event.
SuspectedWithCause ==
  \A h \in Handlers :
    pc[h] # "idle" /\ (suspicious[h] \/ unflagged[h]) => Excessive(job[h])

\* Signals are stored with the ProcessedEvent row of their event, and not otherwise.
RecordedIsProcessed == recorded = processed

IInv == TypeOK /\ RecordedIsProcessed /\ SuspectedWithCause /\ FlaggedWithCause

-----------------------------------------------------------------------------

\* What a handler counts was seen in the window of its event.
LEMMA CountedIsSeen ==
  ASSUME TypeOK, RecordedIsProcessed, NEW h \in Handlers, pc[h] # "idle",
         NEW s \in SignalsOf[job[h]], TooMany(CountOf(h, s))
  PROVE  Excessive(job[h])
<1>1. job[h] \in Events /\ processed \subseteq Events
  BY DEF TypeOK
<1>2. \A f \in Events : TimeOf[f] \in Nat /\ Window \in Nat
  BY FraudAssumption
<1>3. SeenAmong(processed, job[h], s) =
        {f \in recorded \cup {job[h]} : s \in SignalsOf[f] /\ InWindow(f, job[h])}
  BY <1>1, <1>2 DEF SeenAmong, InWindow, RecordedIsProcessed
<1>4. QED
  BY <1>3 DEF Excessive, TooMany, CountOf

\* More events that were seen are no fewer observations.
LEMMA MoreSeen ==
  ASSUME NEW D \in SUBSET Events, NEW E \in SUBSET Events, D \subseteq E, NEW e \in Events, NEW s
  PROVE  Cardinality(SeenAmong(D, e, s)) > Limit => Cardinality(SeenAmong(E, e, s)) > Limit
<1>1. SeenAmong(D, e, s) \subseteq SeenAmong(E, e, s) /\ SeenAmong(E, e, s) \subseteq Events
  BY DEF SeenAmong
<1>2. IsFiniteSet(SeenAmong(E, e, s))
  BY <1>1, FraudAssumption, FS_Subset
<1>3. /\ IsFiniteSet(SeenAmong(D, e, s))
      /\ Cardinality(SeenAmong(D, e, s)) <= Cardinality(SeenAmong(E, e, s))
  BY <1>1, <1>2, FS_Subset
<1>4. Cardinality(SeenAmong(D, e, s)) \in Nat /\ Cardinality(SeenAmong(E, e, s)) \in Nat
  BY <1>2, <1>3, FS_CardinalityType
<1>5. QED
  BY <1>3, <1>4, FraudAssumption

\* An excess remains one.
LEMMA StaysExcessive ==
  ASSUME TypeOK, TypeOK', processed \subseteq processed', NEW e \in Events, Excessive(e)
  PROVE  Excessive(e)'
<1>1. PICK s \in SignalsOf[e] : Cardinality(SeenAmong(processed, e, s)) > Limit
  BY DEF Excessive
<1>2. Cardinality(SeenAmong(processed', e, s)) > Limit
  BY <1>1, MoreSeen DEF TypeOK
<1>3. QED
  BY <1>2 DEF Excessive, SeenAmong

LEMMA InitInv == Init => IInv
BY DEF Init, IInv, TypeOK, RecordedIsProcessed, SuspectedWithCause, FlaggedWithCause, Never, Nothing

\* Steps that leave the tables and the handlers' findings alone, but for one whose
\* findings are cleared.
LEMMA QuietStep ==
  ASSUME IInv, NEW h \in Handlers, UNCHANGED <<tables, before>>,
         looked' \in [Handlers -> SUBSET Events],
         pc' \in [Handlers -> {"idle", "look", "insert", "count", "commit"}],
         job' \in [Handlers -> Events \cup {Nothing}],
         uncounted' \in [Handlers -> SUBSET Signals],
         suspicious' \in [Handlers -> BOOLEAN], unflagged' \in [Handlers -> BOOLEAN],
         \A k \in Handlers \ {h} :
           /\ pc'[k] = pc[k] /\ job'[k] = job[k] /\ uncounted'[k] = uncounted[k]
           /\ suspicious'[k] = suspicious[k] /\ unflagged'[k] = unflagged[k],
         pc'[h] # "idle" =>
           /\ job'[h] \in Events /\ uncounted'[h] \subseteq SignalsOf[job'[h]]
           /\ suspicious'[h] \/ unflagged'[h] => Excessive(job'[h])
  PROVE  IInv'
<1>1. TypeOK'
  BY DEF IInv, TypeOK, tables
<1>2. SuspectedWithCause' /\ RecordedIsProcessed'
  <2>1. ASSUME NEW k \in Handlers \ {h}, pc'[k] # "idle", suspicious'[k] \/ unflagged'[k]
        PROVE  Excessive(job'[k])
    <3>1. job'[k] = job[k] /\ pc[k] # "idle" /\ (suspicious[k] \/ unflagged[k])
      BY <2>1
    <3>2. Excessive(job[k])
      BY <3>1 DEF IInv, SuspectedWithCause
    <3>3. QED
      BY <3>1, <3>2
  <2>2. \A k \in Handlers : pc'[k] # "idle" /\ (suspicious'[k] \/ unflagged'[k])
          => Excessive(job'[k])
    BY <2>1
  <2>3. QED
    BY <2>2 DEF SuspectedWithCause, Excessive, SeenAmong, IInv, RecordedIsProcessed, tables
<1>3. FlaggedWithCause'
  BY DEF IInv, FlaggedWithCause, tables, Excessive, SeenAmong
<1>4. QED
  BY <1>1, <1>2, <1>3 DEF IInv

LEMMA DeliverInv ==
  ASSUME IInv, NEW h \in Handlers, NEW e \in Events, Deliver(h, e)
  PROVE  IInv'
<1>1. SignalsOf[e] \in SUBSET Signals
  BY DEF Signals
<1>2. TypeOK
  BY DEF IInv
<1>3. QED
  BY <1>1, <1>2, QuietStep DEF TypeOK, Deliver

LEMMA RestInv ==
  ASSUME IInv, NEW h \in Handlers, Rest(h), UNCHANGED <<tables, before>>
  PROVE  IInv'
<1>1. TypeOK
  BY DEF IInv
<1>2. QED
  BY <1>1, QuietStep DEF TypeOK, Rest, GoTo, findings

LEMMA GoOnInv ==
  ASSUME IInv, NEW h \in Handlers, Look(h) \/ Insert(h)
  PROVE  IInv'
<1>1. TypeOK /\ SuspectedWithCause
  BY DEF IInv
<1>2. QED
  BY <1>1, QuietStep DEF TypeOK, SuspectedWithCause, Look, Insert, GoTo, findings, tables

LEMMA CountInv ==
  ASSUME IInv, NEW h \in Handlers, Count(h)
  PROVE  IInv'
<1>1. TypeOK /\ RecordedIsProcessed /\ SuspectedWithCause
  BY DEF IInv
<1>2. PICK s \in uncounted[h] :
        /\ uncounted' = [uncounted EXCEPT ![h] = @ \ {s}]
        /\ suspicious' = [suspicious EXCEPT ![h] = @ \/ TooMany(CountOf(h, s))]
  BY DEF Count
<1>3. pc[h] = "count" /\ UNCHANGED <<tables, job, pc, unflagged, looked, before>>
  BY DEF Count
<1>4. s \in SignalsOf[job[h]] /\ job[h] \in Events
  BY <1>1, <1>3 DEF TypeOK
<1>5. suspicious[h] \/ TooMany(CountOf(h, s)) => Excessive(job[h])
  BY <1>1, <1>3, <1>4, CountedIsSeen DEF SuspectedWithCause
<1>6. TooMany(CountOf(h, s)) \in BOOLEAN
  BY DEF TooMany
<1>7. suspicious' \in [Handlers -> BOOLEAN]
  BY <1>1, <1>2, <1>6 DEF TypeOK
<1>8. uncounted' \in [Handlers -> SUBSET Signals] /\ uncounted'[h] \subseteq uncounted[h]
  BY <1>1, <1>2 DEF TypeOK
<1>9. suspicious'[h] => Excessive(job[h])
  BY <1>1, <1>2, <1>5 DEF TypeOK
<1>10. unflagged'[h] => Excessive(job[h])
  BY <1>1, <1>3 DEF SuspectedWithCause
<1>11. \A k \in Handlers \ {h} : uncounted'[k] = uncounted[k] /\ suspicious'[k] = suspicious[k]
  BY <1>1, <1>2 DEF TypeOK
<1>12. QED
  BY <1>1, <1>3, <1>4, <1>7, <1>8, <1>9, <1>10, <1>11, QuietStep DEF TypeOK

LEMMA ReadAccountInv ==
  ASSUME IInv, NEW h \in Handlers, ReadAccount(h)
  PROVE  IInv'
<1>1. TypeOK /\ SuspectedWithCause
  BY DEF IInv
<1>2. FoundUnflagged(h) \in BOOLEAN
  BY DEF FoundUnflagged
<1>3. /\ pc[h] = "count" /\ UNCHANGED <<tables, job, uncounted, suspicious, looked, before>>
      /\ unflagged' = [unflagged EXCEPT ![h] = suspicious[h] /\ FoundUnflagged(h)]
      /\ pc' = [pc EXCEPT ![h] = "commit"]
  BY DEF ReadAccount, GoTo
<1>4. suspicious[h] => Excessive(job[h])
  BY <1>1, <1>3 DEF SuspectedWithCause
<1>5. unflagged' \in [Handlers -> BOOLEAN] /\ (unflagged'[h] => suspicious[h])
  BY <1>1, <1>2, <1>3 DEF TypeOK
<1>6. \A k \in Handlers \ {h} : unflagged'[k] = unflagged[k]
  BY <1>1, <1>3 DEF TypeOK
<1>7. QED
  BY <1>1, <1>3, <1>4, <1>5, <1>6, QuietStep DEF TypeOK

\* The one step that changes the tables.
LEMMA CommitInv ==
  ASSUME IInv, NEW h \in Handlers, Commit(h)
  PROVE  IInv'
<1>1. TypeOK /\ SuspectedWithCause /\ FlaggedWithCause
  BY DEF IInv
<1>2. /\ pc[h] = "commit" /\ processed' = processed \cup {job[h]}
      /\ recorded' = recorded \cup {job[h]}
      /\ before' = [before EXCEPT ![job[h]] = looked[h]]
      /\ looked' = [looked EXCEPT ![h] = {}]
      /\ flaggedAt' = IF unflagged[h]
                      THEN [flaggedAt EXCEPT ![Account(h)] = TimeOf[job[h]]] ELSE flaggedAt
      /\ announced' = IF unflagged[h] THEN announced \cup {job[h]} ELSE announced
      /\ pc' = [pc EXCEPT ![h] = "idle"] /\ job' = [job EXCEPT ![h] = Nothing]
      /\ UNCHANGED <<uncounted, suspicious, unflagged>>
  BY DEF Commit, Rest, GoTo, findings
<1>3. job[h] \in Events /\ Account(h) = AccountOf[job[h]] /\ Account(h) \in Accounts
  BY <1>1, <1>2, FraudAssumption DEF TypeOK, Account
<1>4. TimeOf[job[h]] \in Nat /\ TimeOf[job[h]] # Never
  BY <1>3, FraudAssumption DEF Never
<1>5. flaggedAt' \in [Accounts -> Nat \cup {Never}]
  BY <1>1, <1>2, <1>3, <1>4 DEF TypeOK
<1>6. TypeOK'
  <2>1. before' \in [Events -> SUBSET Events] /\ looked' \in [Handlers -> SUBSET Events]
    BY <1>1, <1>2, <1>3 DEF TypeOK
  <2>2. QED
    BY <1>1, <1>2, <1>3, <1>5, <2>1 DEF TypeOK
<1>7. \A e \in Events : Excessive(e) => Excessive(e)'
  BY <1>1, <1>2, <1>6, StaysExcessive
<1>8. SuspectedWithCause'
  <2>1. \A k \in Handlers : pc'[k] # "idle" => pc[k] # "idle" /\ job'[k] = job[k]
    BY <1>1, <1>2 DEF TypeOK
  <2>2. \A k \in Handlers : pc'[k] # "idle" /\ (suspicious'[k] \/ unflagged'[k])
          => job'[k] \in Events /\ Excessive(job'[k])
    BY <1>1, <1>2, <2>1 DEF SuspectedWithCause, TypeOK
  <2>3. \A k \in Handlers : pc'[k] # "idle" /\ (suspicious'[k] \/ unflagged'[k])
          => Excessive(job[k])'
    BY <1>7, <2>2 DEF Excessive, SeenAmong
  <2>4. QED
    BY <2>3 DEF SuspectedWithCause
<1>9. FlaggedWithCause'
  <2>1. CASE ~unflagged[h]
    <3>1. flaggedAt' = flaggedAt /\ announced' = announced /\ announced \subseteq Events
      BY <1>1, <1>2, <2>1 DEF TypeOK
    <3>2. QED
      BY <1>1, <1>7, <3>1 DEF FlaggedWithCause
  <2>2. CASE unflagged[h]
    <3>1. Excessive(job[h])
      BY <1>1, <1>2, <2>2 DEF SuspectedWithCause
    <3>2. /\ flaggedAt' = [flaggedAt EXCEPT ![Account(h)] = TimeOf[job[h]]]
          /\ announced' = announced \cup {job[h]}
      BY <1>2, <2>2
    <3>3. SUFFICES ASSUME NEW a \in Accounts
                   PROVE  /\ flaggedAt'[a] # Never =>
                               \E e \in announced' : AccountOf[e] = a /\ flaggedAt'[a] = TimeOf[e]
                          /\ \A e \in announced' :
                               AccountOf[e] = a => flaggedAt'[a] # Never /\ Excessive(e)'
      BY DEF FlaggedWithCause
    <3>4. CASE a = Account(h)
      <4>1. flaggedAt'[a] = TimeOf[job[h]]
        BY <1>1, <3>2, <3>4 DEF TypeOK
      <4>2. \A e \in announced' : AccountOf[e] = a => Excessive(e)'
        BY <1>1, <1>3, <1>7, <3>1, <3>2 DEF FlaggedWithCause, TypeOK
      <4>3. QED
        BY <1>3, <1>4, <3>2, <3>4, <4>1, <4>2
    <3>5. CASE a # Account(h)
      <4>1. flaggedAt'[a] = flaggedAt[a]
        BY <1>1, <3>2, <3>5 DEF TypeOK
      <4>2. \A e \in announced' : AccountOf[e] = a => e \in announced
        BY <1>3, <3>2, <3>5
      <4>3. \A e \in announced : AccountOf[e] = a => flaggedAt[a] # Never /\ Excessive(e)'
        BY <1>1, <1>7 DEF FlaggedWithCause, TypeOK
      <4>4. QED
        BY <1>1, <3>2, <4>1, <4>2, <4>3 DEF FlaggedWithCause
    <3>6. QED
      BY <3>4, <3>5
  <2>3. QED
    BY <2>1, <2>2
<1>10. RecordedIsProcessed'
  BY <1>2 DEF IInv, RecordedIsProcessed
<1>11. QED
  BY <1>6, <1>8, <1>9, <1>10 DEF IInv

LEMMA NextInv == IInv /\ [Next]_vars => IInv'
<1> SUFFICES ASSUME IInv, [Next]_vars PROVE IInv'
  OBVIOUS
<1>1. CASE UNCHANGED vars
  <2>1. UNCHANGED <<processed, recorded, flaggedAt, announced, job, pc, uncounted,
                    suspicious, unflagged, looked, before>>
    BY <1>1 DEF vars, tables, findings
  <2>2. TypeOK'
    BY <2>1 DEF IInv, TypeOK
  <2>3. SuspectedWithCause'
    BY <2>1 DEF IInv, SuspectedWithCause, Excessive, SeenAmong
  <2>4. FlaggedWithCause' /\ RecordedIsProcessed'
    BY <2>1 DEF IInv, FlaggedWithCause, Excessive, SeenAmong, RecordedIsProcessed
  <2>5. QED
    BY <2>2, <2>3, <2>4 DEF IInv
<1>2. CASE Next
  <2>1. PICK h \in Handlers :
          \/ \E e \in Events : Deliver(h, e)
          \/ SkipProcessed(h) \/ Look(h) \/ Insert(h) \/ Count(h) \/ ReadAccount(h)
          \/ Commit(h) \/ Fail(h)
    BY <1>2 DEF Next
  <2>2. CASE \E e \in Events : Deliver(h, e)
    BY <2>2, DeliverInv
  <2>3. CASE SkipProcessed(h) \/ Fail(h)
    BY <2>3, RestInv DEF SkipProcessed, Fail, tables
  <2>4. CASE Look(h) \/ Insert(h)
    BY <2>4, GoOnInv
  <2>5. CASE Count(h)
    BY <2>5, CountInv
  <2>6. CASE ReadAccount(h)
    BY <2>6, ReadAccountInv
  <2>7. CASE Commit(h)
    BY <2>7, CommitInv
  <2>8. QED
    BY <2>1, <2>2, <2>3, <2>4, <2>5, <2>6, <2>7
<1>3. QED
  BY <1>1, <1>2

-----------------------------------------------------------------------------

\* The variables keep their types.
THEOREM TypeCorrect == Spec => []TypeOK
<1>1. IInv => TypeOK
  BY DEF IInv
<1>2. QED
  BY <1>1, InitInv, NextInv, PTL DEF Spec

\* No account is flagged without more observations in a minute than the limit, and
\* nobody is announced without a flag: for any handlers, deliveries and rollbacks.
THEOREM FlagsHaveCause == Spec => []FlaggedWithCause
<1>1. IInv => FlaggedWithCause
  BY DEF IInv
<1>2. QED
  BY <1>1, InitInv, NextInv, PTL DEF Spec
-----------------------------------------------------------------------------
(* How often an account is announced *)

AboutAccount(a) == {e \in announced : AccountOf[e] = a}

\* Handlers that have seen the account without a flag, and will announce it.
Announcers(a) == {h \in Handlers : pc[h] = "commit" /\ unflagged[h] /\ AccountOf[job[h]] = a}

\* Every announcement is one of a handler, made or still to be made.
AnnouncedByHandlers ==
  \A a \in Accounts :
    Cardinality(AboutAccount(a)) + Cardinality(Announcers(a)) <= Cardinality(Handlers)

LEMMA FiniteSides ==
  ASSUME TypeOK, NEW a \in Accounts
  PROVE  /\ IsFiniteSet(AboutAccount(a)) /\ Cardinality(AboutAccount(a)) \in Nat
         /\ IsFiniteSet(Announcers(a)) /\ Cardinality(Announcers(a)) \in Nat
         /\ Cardinality(Announcers(a)) <= Cardinality(Handlers)
         /\ Cardinality(Handlers) \in Nat
<1>1. AboutAccount(a) \in SUBSET Events /\ Announcers(a) \in SUBSET Handlers
  BY DEF TypeOK, AboutAccount, Announcers
<1>2. QED
  BY <1>1, FraudAssumption, FS_Subset, FS_CardinalityType

\* A step after which no further handler is about to announce an account.
LEMMA FewerAnnouncers ==
  ASSUME TypeOK, TypeOK', NEW a \in Accounts, AboutAccount(a)' = AboutAccount(a),
         Announcers(a)' \subseteq Announcers(a),
         Cardinality(AboutAccount(a)) + Cardinality(Announcers(a)) <= Cardinality(Handlers)
  PROVE  Cardinality(AboutAccount(a)') + Cardinality(Announcers(a)') <= Cardinality(Handlers)
<1>1. /\ IsFiniteSet(Announcers(a)) /\ Cardinality(Announcers(a)) \in Nat
      /\ Cardinality(AboutAccount(a)) \in Nat /\ Cardinality(Handlers) \in Nat
  BY FiniteSides
<1>2. /\ IsFiniteSet(Announcers(a)') /\ Cardinality(Announcers(a)') \in Nat
      /\ Cardinality(Announcers(a)') <= Cardinality(Announcers(a))
  BY <1>1, FS_Subset, FS_CardinalityType
<1>3. QED
  BY <1>1, <1>2

LEMMA ReadAccountAnnounced ==
  ASSUME IInv, IInv', AnnouncedByHandlers, NEW h \in Handlers, ReadAccount(h)
  PROVE  AnnouncedByHandlers'
<1>1. TypeOK /\ TypeOK' /\ FlaggedWithCause
  BY DEF IInv
<1>2. /\ pc[h] = "count" /\ UNCHANGED <<processed, flaggedAt, announced, job>>
      /\ unflagged' = [unflagged EXCEPT ![h] = suspicious[h] /\ FoundUnflagged(h)]
      /\ pc' = [pc EXCEPT ![h] = "commit"]
  BY DEF ReadAccount, GoTo, tables
<1>3. \A k \in Handlers \ {h} : pc'[k] = pc[k] /\ unflagged'[k] = unflagged[k]
  BY <1>1, <1>2 DEF TypeOK
<1>4. unflagged'[h] => flaggedAt[AccountOf[job[h]]] = Never
  BY <1>1, <1>2 DEF TypeOK, FoundUnflagged, Account
<1>5. ASSUME NEW a \in Accounts
      PROVE  Cardinality(AboutAccount(a)') + Cardinality(Announcers(a)') <= Cardinality(Handlers)
  <2>1. AboutAccount(a)' = AboutAccount(a)
    BY <1>2 DEF AboutAccount
  <2>2. CASE flaggedAt[a] = Never
    <3>1. AboutAccount(a) = {}
      BY <1>1, <2>2 DEF AboutAccount, FlaggedWithCause
    <3>2. Cardinality(AboutAccount(a)') = 0
      BY <2>1, <3>1, FS_EmptySet
    <3>3. /\ Cardinality(Announcers(a)') \in Nat /\ Cardinality(Handlers) \in Nat
          /\ Cardinality(Announcers(a)') <= Cardinality(Handlers)
      <4>1. Announcers(a)' \in SUBSET Handlers
        BY DEF Announcers
      <4>2. QED
        BY <4>1, FraudAssumption, FS_Subset, FS_CardinalityType
    <3>4. QED
      BY <3>2, <3>3
  <2>3. CASE flaggedAt[a] # Never
    <3>1. Announcers(a)' \subseteq Announcers(a)
      BY <1>2, <1>3, <1>4, <2>3 DEF Announcers
    <3>2. QED
      BY <1>1, <2>1, <3>1, FewerAnnouncers DEF AnnouncedByHandlers
  <2>4. QED
    BY <2>2, <2>3
<1>6. QED
  BY <1>5 DEF AnnouncedByHandlers

LEMMA CommitAnnounced ==
  ASSUME IInv, IInv', AnnouncedByHandlers, NEW h \in Handlers, Commit(h)
  PROVE  AnnouncedByHandlers'
<1>1. TypeOK /\ TypeOK'
  BY DEF IInv
<1>2. /\ pc[h] = "commit" /\ unflagged' = unflagged
      /\ announced' = IF unflagged[h] THEN announced \cup {job[h]} ELSE announced
      /\ pc' = [pc EXCEPT ![h] = "idle"] /\ job' = [job EXCEPT ![h] = Nothing]
  BY DEF Commit, Rest, GoTo, findings
<1>3. /\ pc'[h] = "idle"
      /\ \A k \in Handlers \ {h} : pc'[k] = pc[k] /\ job'[k] = job[k]
  BY <1>1, <1>2 DEF TypeOK
<1>4. ASSUME NEW a \in Accounts
      PROVE  Cardinality(AboutAccount(a)') + Cardinality(Announcers(a)') <= Cardinality(Handlers)
  <2>1. Announcers(a)' = Announcers(a) \ {h}
    BY <1>2, <1>3 DEF Announcers
  <2>2. CASE unflagged[h] /\ AccountOf[job[h]] = a
    <3>1. AboutAccount(a)' = AboutAccount(a) \cup {job[h]} /\ h \in Announcers(a)
      BY <1>2, <2>2 DEF AboutAccount, Announcers
    <3>2. /\ IsFiniteSet(AboutAccount(a)) /\ Cardinality(AboutAccount(a)) \in Nat
          /\ IsFiniteSet(Announcers(a)) /\ Cardinality(Announcers(a)) \in Nat
          /\ Cardinality(Handlers) \in Nat
      BY <1>1, FiniteSides
    <3>3. Cardinality(AboutAccount(a)') \in
            {Cardinality(AboutAccount(a)), Cardinality(AboutAccount(a)) + 1}
      BY <3>1, <3>2, FS_AddElement
    <3>4. Cardinality(Announcers(a)') = Cardinality(Announcers(a)) - 1
      BY <2>1, <3>1, <3>2, FS_RemoveElement
    <3>5. Cardinality(AboutAccount(a)) + Cardinality(Announcers(a)) <= Cardinality(Handlers)
      BY DEF AnnouncedByHandlers
    <3>6. QED
      BY <3>2, <3>3, <3>4, <3>5
  <2>3. CASE ~(unflagged[h] /\ AccountOf[job[h]] = a)
    <3>1. AboutAccount(a)' = AboutAccount(a)
      BY <1>2, <2>3 DEF AboutAccount
    <3>2. QED
      BY <1>1, <2>1, <3>1, FewerAnnouncers DEF AnnouncedByHandlers
  <2>4. QED
    BY <2>2, <2>3
<1>5. QED
  BY <1>4 DEF AnnouncedByHandlers

LEMMA NextAnnounced == IInv /\ AnnouncedByHandlers /\ [Next]_vars => AnnouncedByHandlers'
<1> SUFFICES ASSUME IInv, AnnouncedByHandlers, [Next]_vars PROVE AnnouncedByHandlers'
  OBVIOUS
<1>1. IInv' /\ TypeOK /\ TypeOK'
  BY NextInv DEF IInv
<1>2. ASSUME NEW h \in Handlers, ReadAccount(h) \/ Commit(h) PROVE AnnouncedByHandlers'
  BY <1>1, <1>2, ReadAccountAnnounced, CommitAnnounced
<1>3. ASSUME announced' = announced, \A a \in Accounts : Announcers(a)' \subseteq Announcers(a)
      PROVE  AnnouncedByHandlers'
  BY <1>1, <1>3, FewerAnnouncers DEF AnnouncedByHandlers, AboutAccount
<1>4. ASSUME NEW h \in Handlers,
             \/ \E e \in Events : Deliver(h, e)
             \/ SkipProcessed(h) \/ Look(h) \/ Insert(h) \/ Count(h) \/ Fail(h)
      PROVE  AnnouncedByHandlers'
  <2>1. announced' = announced
    BY <1>4 DEF Deliver, SkipProcessed, Look, Insert, Count, Fail, tables
  <2>2. /\ pc'[h] # "commit" \/ (pc'[h] = pc[h] /\ job'[h] = job[h] /\ unflagged'[h] = unflagged[h])
        /\ \A k \in Handlers \ {h} :
             pc'[k] = pc[k] /\ job'[k] = job[k] /\ unflagged'[k] = unflagged[k]
    BY <1>1, <1>4 DEF Deliver, SkipProcessed, Look, Insert, Count, Fail, Rest, GoTo, findings, TypeOK
  <2>3. \A a \in Accounts : Announcers(a)' \subseteq Announcers(a)
    BY <2>2 DEF Announcers
  <2>4. QED
    BY <1>3, <2>1, <2>3
<1>5. CASE UNCHANGED vars
  <2>1. UNCHANGED <<announced, pc, job, unflagged>>
    BY <1>5 DEF vars, tables, findings
  <2>2. \A a \in Accounts : Announcers(a)' \subseteq Announcers(a)
    BY <2>1 DEF Announcers
  <2>3. QED
    BY <1>3, <2>1, <2>2
<1>6. QED
  BY <1>2, <1>4, <1>5 DEF Next

\* An account is announced once by each handler at most, however often its events
\* are delivered: whoever reads it after the first flag announces nothing.
THEOREM AnnouncedOncePerHandler == Spec => []AnnouncedBoundedly
<1>1. Init => AnnouncedByHandlers
  <2> SUFFICES ASSUME Init, NEW a \in Accounts
               PROVE  Cardinality(AboutAccount(a)) + Cardinality(Announcers(a)) <= Cardinality(Handlers)
    BY DEF AnnouncedByHandlers
  <2>1. AboutAccount(a) = {} /\ Announcers(a) = {}
    BY DEF Init, AboutAccount, Announcers
  <2>2. Cardinality(Handlers) \in Nat
    BY FraudAssumption, FS_CardinalityType
  <2>3. QED
    BY <2>1, <2>2, FS_EmptySet
<1>2. IInv /\ AnnouncedByHandlers => AnnouncedBoundedly
  <2> SUFFICES ASSUME IInv, AnnouncedByHandlers, NEW a \in Accounts
               PROVE  Cardinality(AboutAccount(a)) <= Cardinality(Handlers)
    BY DEF AnnouncedBoundedly, AboutAccount
  <2>1. /\ Cardinality(AboutAccount(a)) \in Nat /\ Cardinality(Announcers(a)) \in Nat
        /\ Cardinality(Handlers) \in Nat
    BY FiniteSides DEF IInv
  <2>2. QED
    BY <2>1 DEF AnnouncedByHandlers
<1>3. QED
  BY <1>1, <1>2, InitInv, NextInv, NextAnnounced, PTL DEF Spec
-----------------------------------------------------------------------------
(* What an excess flags *)

Flagged(a) == flaggedAt[a] # Never

\* What was recorded when the handler looked still is when it counts; an excess among
\* it that was counted is remembered, and a handler that is to commit flags or has
\* found a flag.
CountsEnough(h) ==
  /\ pc[h] = "idle" => looked[h] = {}
  /\ pc[h] = "look" => uncounted[h] = SignalsOf[job[h]]
  /\ pc[h] # "idle" =>
       /\ looked[h] \subseteq recorded
       /\ \A s \in SignalsOf[job[h]] \ uncounted[h] :
            Cardinality(SeenAmong(looked[h], job[h], s)) > Limit => suspicious[h]
  /\ pc[h] = "commit" =>
       uncounted[h] = {} /\ (suspicious[h] => unflagged[h] \/ Flagged(AccountOf[job[h]]))

ExcessInv == ObservedIsFlagged /\ \A h \in Handlers : CountsEnough(h)

\* A handler counts at least what was recorded when it looked.
LEMMA CountIsEnough ==
  ASSUME TypeOK, NEW h \in Handlers, pc[h] # "idle", looked[h] \subseteq recorded,
         NEW s \in SignalsOf[job[h]], Cardinality(SeenAmong(looked[h], job[h], s)) > Limit
  PROVE  TooMany(CountOf(h, s))
<1>1. job[h] \in Events /\ recorded \in SUBSET Events /\ looked[h] \in SUBSET Events
  BY DEF TypeOK
<1>2. \A f \in Events : TimeOf[f] \in Nat /\ Window \in Nat
  BY FraudAssumption
<1>3. Cardinality(SeenAmong(recorded, job[h], s)) > Limit
  BY <1>1, MoreSeen
<1>4. SeenAmong(recorded, job[h], s) =
        {f \in recorded \cup {job[h]} : s \in SignalsOf[f] /\ InWindow(f, job[h])}
  BY <1>1, <1>2 DEF SeenAmong, InWindow
<1>5. QED
  BY <1>3, <1>4 DEF CountOf, TooMany

\* What the steps of others, and what takes no flag away, leave as it is.
LEMMA OthersCount ==
  ASSUME NEW h \in Handlers, CountsEnough(h), recorded \subseteq recorded',
         \A a \in Accounts : Flagged(a) => Flagged(a)', TypeOK,
         pc'[h] = pc[h], job'[h] = job[h], uncounted'[h] = uncounted[h],
         suspicious'[h] = suspicious[h], unflagged'[h] = unflagged[h], looked'[h] = looked[h]
  PROVE  CountsEnough(h)'
<1>1. pc[h] # "idle" => AccountOf[job[h]] \in Accounts
  BY FraudAssumption DEF TypeOK
<1>2. QED
  BY <1>1 DEF CountsEnough, SeenAmong

LEMMA CommitExcess ==
  ASSUME IInv, ExcessInv, NEW h \in Handlers, Commit(h)
  PROVE  ExcessInv'
<1>1. TypeOK /\ ObservedIsFlagged /\ CountsEnough(h)
  BY DEF IInv, ExcessInv
<1>2. /\ pc[h] = "commit" /\ processed' = processed \cup {job[h]} /\ job[h] \notin processed
      /\ recorded' = recorded \cup {job[h]}
      /\ before' = [before EXCEPT ![job[h]] = looked[h]]
      /\ looked' = [looked EXCEPT ![h] = {}]
      /\ flaggedAt' = IF unflagged[h]
                      THEN [flaggedAt EXCEPT ![Account(h)] = TimeOf[job[h]]] ELSE flaggedAt
      /\ pc' = [pc EXCEPT ![h] = "idle"] /\ job' = [job EXCEPT ![h] = Nothing]
      /\ UNCHANGED <<uncounted, suspicious, unflagged>>
  BY DEF Commit, Rest, GoTo, findings
<1>3. job[h] \in Events /\ Account(h) = AccountOf[job[h]] /\ Account(h) \in Accounts
  BY <1>1, <1>2, FraudAssumption DEF TypeOK, Account
<1>4. TimeOf[job[h]] # Never
  BY <1>3, FraudAssumption DEF Never
<1>5. /\ \A a \in Accounts : Flagged(a) => Flagged(a)'
      /\ unflagged[h] => flaggedAt'[Account(h)] # Never
  <2>1. CASE unflagged[h]
    <3>1. flaggedAt' = [flaggedAt EXCEPT ![Account(h)] = TimeOf[job[h]]]
      BY <1>2, <2>1
    <3>2. \A a \in Accounts :
            flaggedAt'[a] = IF a = Account(h) THEN TimeOf[job[h]] ELSE flaggedAt[a]
      BY <1>1, <3>1 DEF TypeOK
    <3>3. QED
      BY <1>3, <1>4, <3>2 DEF Flagged
  <2>2. CASE ~unflagged[h]
    BY <1>2, <2>2 DEF Flagged
  <2>3. QED
    BY <2>1, <2>2
<1>6. ASSUME NEW s \in SignalsOf[job[h]],
             Cardinality(SeenAmong(looked[h], job[h], s)) > Limit
      PROVE  flaggedAt'[Account(h)] # Never
  <2>1. suspicious[h]
    BY <1>1, <1>2, <1>6 DEF CountsEnough
  <2>2. unflagged[h] \/ Flagged(Account(h))
    BY <1>1, <1>2, <1>3, <2>1 DEF CountsEnough
  <2>3. CASE Flagged(Account(h))
    BY <1>3, <1>5, <2>3 DEF Flagged
  <2>4. QED
    BY <1>5, <2>2, <2>3
<1>7. ASSUME NEW e \in processed', NEW s \in SignalsOf[e],
             Cardinality(SeenAmong(before'[e], e, s)) > Limit
      PROVE  flaggedAt'[AccountOf[e]] # Never
  <2>1. CASE e = job[h]
    <3>1. before'[e] = looked[h]
      BY <1>1, <1>2, <1>3, <2>1 DEF TypeOK
    <3>2. QED
      BY <1>3, <1>6, <1>7, <2>1, <3>1
  <2>2. CASE e # job[h]
    <3>1. e \in processed /\ before'[e] = before[e]
      BY <1>1, <1>2, <2>2 DEF TypeOK
    <3>2. Flagged(AccountOf[e]) /\ AccountOf[e] \in Accounts
      BY <1>1, <1>7, <3>1, FraudAssumption DEF ObservedIsFlagged, Flagged, TypeOK
    <3>3. QED
      BY <1>5, <3>2 DEF Flagged
  <2>3. QED
    BY <2>1, <2>2
<1>8. ObservedIsFlagged'
  BY <1>7 DEF ObservedIsFlagged, SeenAmong
<1>9. ASSUME NEW k \in Handlers, k # h PROVE CountsEnough(k)'
  <2>1. pc'[k] = pc[k] /\ job'[k] = job[k] /\ looked'[k] = looked[k] /\ CountsEnough(k)
    BY <1>1, <1>2, <1>9 DEF TypeOK, ExcessInv
  <2>2. QED
    BY <1>1, <1>2, <1>5, <2>1, OthersCount
<1>10. CountsEnough(h)'
  BY <1>1, <1>2 DEF CountsEnough, TypeOK
<1>11. QED
  BY <1>8, <1>9, <1>10 DEF ExcessInv

LEMMA CountExcess ==
  ASSUME IInv, ExcessInv, NEW h \in Handlers, Count(h)
  PROVE  CountsEnough(h)'
<1>1. TypeOK /\ CountsEnough(h)
  BY DEF IInv, ExcessInv
<1>2. PICK s \in uncounted[h] :
        /\ uncounted' = [uncounted EXCEPT ![h] = @ \ {s}]
        /\ suspicious' = [suspicious EXCEPT ![h] = @ \/ TooMany(CountOf(h, s))]
  BY DEF Count
<1>3. pc[h] = "count" /\ UNCHANGED <<recorded, flaggedAt, job, pc, unflagged, looked>>
  BY DEF Count, tables
<1>4. s \in SignalsOf[job[h]] /\ looked[h] \subseteq recorded
  BY <1>1, <1>3 DEF TypeOK, CountsEnough
<1>5. Cardinality(SeenAmong(looked[h], job[h], s)) > Limit => TooMany(CountOf(h, s))
  BY <1>1, <1>3, <1>4, CountIsEnough
<1>6. /\ uncounted'[h] = uncounted[h] \ {s}
      /\ suspicious'[h] = (suspicious[h] \/ TooMany(CountOf(h, s)))
  BY <1>1, <1>2 DEF TypeOK
<1>7. \A t \in SignalsOf[job[h]] \ uncounted'[h] :
        Cardinality(SeenAmong(looked[h], job[h], t)) > Limit => suspicious'[h]
  BY <1>1, <1>3, <1>5, <1>6 DEF CountsEnough
<1>8. QED
  BY <1>3, <1>4, <1>7 DEF CountsEnough, SeenAmong

LEMMA NextExcess ==
  ASSUME IInv, ExcessInv, [Next]_vars
  PROVE  ExcessInv'
<1>1. TypeOK /\ ObservedIsFlagged /\ \A h \in Handlers : CountsEnough(h)
  BY DEF IInv, ExcessInv
<1>2. ASSUME NEW h \in Handlers, Commit(h) PROVE ExcessInv'
  BY <1>2, CommitExcess
<1>3. ASSUME UNCHANGED <<processed, recorded, flaggedAt, before>>, NEW h \in Handlers,
             CountsEnough(h)',
             \A k \in Handlers \ {h} :
               /\ pc'[k] = pc[k] /\ job'[k] = job[k] /\ uncounted'[k] = uncounted[k]
               /\ suspicious'[k] = suspicious[k] /\ unflagged'[k] = unflagged[k]
               /\ looked'[k] = looked[k]
      PROVE  ExcessInv'
  <2>1. ObservedIsFlagged'
    BY <1>1, <1>3 DEF ObservedIsFlagged, SeenAmong
  <2>2. \A k \in Handlers \ {h} : CountsEnough(k)'
    BY <1>1, <1>3, OthersCount DEF Flagged
  <2>3. QED
    BY <1>3, <2>1, <2>2 DEF ExcessInv
<1>4. ASSUME NEW h \in Handlers, NEW e \in Events, Deliver(h, e) PROVE ExcessInv'
  <2>1. /\ pc[h] = "idle" /\ UNCHANGED <<processed, recorded, flaggedAt, looked, before>>
        /\ pc'[h] = "look" /\ job'[h] = e /\ uncounted'[h] = SignalsOf[e]
    BY <1>1, <1>4 DEF Deliver, tables, TypeOK
  <2>2. looked[h] = {}
    BY <1>1, <2>1 DEF CountsEnough
  <2>3. CountsEnough(h)'
    BY <2>1, <2>2 DEF CountsEnough
  <2>4. \A k \in Handlers \ {h} :
          /\ pc'[k] = pc[k] /\ job'[k] = job[k] /\ uncounted'[k] = uncounted[k]
          /\ suspicious'[k] = suspicious[k] /\ unflagged'[k] = unflagged[k]
    BY <1>1, <1>4 DEF Deliver, TypeOK
  <2>5. QED
    BY <1>3, <2>1, <2>3, <2>4
<1>5. ASSUME NEW h \in Handlers, SkipProcessed(h) \/ Fail(h) PROVE ExcessInv'
  <2>1. /\ UNCHANGED <<processed, recorded, flaggedAt, before, uncounted, suspicious, unflagged>>
        /\ pc'[h] = "idle" /\ looked'[h] = {}
        /\ \A k \in Handlers \ {h} : pc'[k] = pc[k] /\ job'[k] = job[k] /\ looked'[k] = looked[k]
    BY <1>1, <1>5 DEF SkipProcessed, Fail, Rest, GoTo, tables, findings, TypeOK
  <2>2. CountsEnough(h)'
    BY <2>1 DEF CountsEnough
  <2>3. QED
    BY <1>3, <2>1, <2>2
<1>6. ASSUME NEW h \in Handlers, Look(h) \/ Insert(h) PROVE ExcessInv'
  <2>1. /\ UNCHANGED <<processed, recorded, flaggedAt, before, job, uncounted, suspicious, unflagged>>
        /\ \A k \in Handlers \ {h} : pc'[k] = pc[k] /\ looked'[k] = looked[k]
    BY <1>1, <1>6 DEF Look, Insert, GoTo, tables, findings, TypeOK
  <2>2. CASE Look(h)
    <3>1. pc[h] = "look" /\ pc'[h] = "insert" /\ looked'[h] = recorded
      BY <1>1, <2>2 DEF Look, GoTo, TypeOK
    <3>2. SignalsOf[job[h]] \ uncounted[h] = {}
      BY <1>1, <3>1 DEF CountsEnough
    <3>3. CountsEnough(h)'
      BY <2>1, <3>1, <3>2 DEF CountsEnough
    <3>4. QED
      BY <1>3, <2>1, <3>3
  <2>3. CASE Insert(h)
    <3>1. pc[h] = "insert" /\ pc'[h] = "count" /\ looked'[h] = looked[h]
      BY <1>1, <2>3 DEF Insert, GoTo, TypeOK
    <3>2. CountsEnough(h)'
      BY <1>1, <2>1, <3>1 DEF CountsEnough, SeenAmong
    <3>3. QED
      BY <1>3, <2>1, <3>2
  <2>4. QED
    BY <1>6, <2>2, <2>3
<1>7. ASSUME NEW h \in Handlers, Count(h) PROVE ExcessInv'
  <2>1. CountsEnough(h)'
    BY <1>7, CountExcess
  <2>2. /\ UNCHANGED <<processed, recorded, flaggedAt, before, job, pc, unflagged, looked>>
        /\ \A k \in Handlers \ {h} :
             uncounted'[k] = uncounted[k] /\ suspicious'[k] = suspicious[k]
    BY <1>1, <1>7 DEF Count, tables, TypeOK
  <2>3. QED
    BY <1>3, <2>1, <2>2
<1>8. ASSUME NEW h \in Handlers, ReadAccount(h) PROVE ExcessInv'
  <2>1. /\ UNCHANGED <<processed, recorded, flaggedAt, before, job, uncounted, suspicious, looked>>
        /\ pc[h] = "count" /\ uncounted[h] = {} /\ pc'[h] = "commit"
        /\ unflagged'[h] = (suspicious[h] /\ flaggedAt[AccountOf[job[h]]] = Never)
        /\ \A k \in Handlers \ {h} : pc'[k] = pc[k] /\ unflagged'[k] = unflagged[k]
    BY <1>1, <1>8 DEF ReadAccount, GoTo, FoundUnflagged, Account, tables, TypeOK
  <2>2. CountsEnough(h)'
    <3>1. /\ looked[h] \subseteq recorded
          /\ \A s \in SignalsOf[job[h]] \ uncounted[h] :
               Cardinality(SeenAmong(looked[h], job[h], s)) > Limit => suspicious[h]
      BY <1>1, <2>1 DEF CountsEnough
    <3>2. suspicious'[h] => unflagged'[h] \/ flaggedAt'[AccountOf[job'[h]]] # Never
      BY <2>1
    <3>3. QED
      BY <2>1, <3>1, <3>2 DEF CountsEnough, SeenAmong, Flagged
  <2>3. QED
    BY <1>3, <2>1, <2>2
<1>9. CASE UNCHANGED vars
  <2>1. UNCHANGED <<processed, recorded, flaggedAt, before, job, pc, uncounted, suspicious,
                    unflagged, looked>>
    BY <1>9 DEF vars, tables, findings
  <2>2. ObservedIsFlagged'
    BY <1>1, <2>1 DEF ObservedIsFlagged, SeenAmong
  <2>3. \A h \in Handlers : CountsEnough(h)'
    BY <1>1, <2>1, OthersCount DEF Flagged
  <2>4. QED
    BY <2>2, <2>3 DEF ExcessInv
<1>10. QED
  BY <1>2, <1>4, <1>5, <1>6, <1>7, <1>8, <1>9 DEF Next

\* More observations of a device or an address than the limit, in the minute that ends
\* with an event and recorded when its handler looked, flag the account of the event:
\* in any order, at any times, and whatever runs beside, fails and is repeated.
THEOREM ExcessFlags == Spec => []ObservedIsFlagged
<1>1. Init => ExcessInv
  BY DEF Init, ExcessInv, ObservedIsFlagged, CountsEnough
<1>2. IInv /\ ExcessInv /\ [Next]_vars => ExcessInv'
  BY NextExcess
<1>3. ExcessInv => ObservedIsFlagged
  BY DEF ExcessInv
<1>4. QED
  BY <1>1, <1>2, <1>3, InitInv, NextInv, PTL DEF Spec
=============================================================================
