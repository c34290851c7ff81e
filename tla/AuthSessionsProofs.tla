-------------------------- MODULE AuthSessionsProofs --------------------------
(***************************************************************************)
(* Theorems about AuthSessions, for any number of logins, tokens and       *)
(* requests, and any TTL and clock.                                        *)
(***************************************************************************)
EXTENDS AuthSessions, TLAPS

\* A token that was not issued has never been revoked.
FreshIsUnrevoked == \A t \in Tokens : loginOf[t] = None => revokedAt[t] = -1

\* What was replaced was issued, and is revoked.
ReplacedIsRevoked ==
  \A t \in Issued : parent[t] \in Tokens =>
    parent[t] \in Issued /\ revokedAt[parent[t]] # -1

\* A login that is being served has no session yet, and is served once.
LoginIsFresh ==
  \A r \in Requests : pc[r] = "create" =>
    /\ \A t \in Tokens : loginOf[t] # subject[r]
    /\ \A q \in Requests : pc[q] = "create" /\ subject[q] = subject[r] => q = r

IInv == TypeOK /\ FreshIsUnrevoked /\ ReplacedIsRevoked /\ LoginIsFresh /\ OneLivePerLogin

-----------------------------------------------------------------------------

\* The actions that leave the table alone.
Elsewhere ==
  \/ \E r \in Requests :
       \/ \E l \in Logins : BeginLogin(r, l)
       \/ \E t \in Tokens : BeginRefresh(r, t)
       \/ ReadSession(r) \/ Refuse(r) \/ RotatedMeanwhile(r) \/ Fail(r)
  \/ \E u \in Users : Deactivate(u)
  \/ Tick
  \/ UNCHANGED vars

\* Every step is one of four kinds.
LEMMA StepKinds ==
  ASSUME [Next]_vars
  PROVE  \/ Elsewhere
         \/ \E r \in Requests : CreateSession(r)
         \/ \E r \in Requests : Rotate(r)
         \/ \E t \in Tokens : Logout(t)
BY DEF Next, Elsewhere

LEMMA ElsewhereKeepsSessions == Elsewhere => UNCHANGED sessions
BY DEF Elsewhere, BeginLogin, BeginRefresh, Begin, ReadSession, Refuse,
       RotatedMeanwhile, Fail, Deactivate, Tick, vars, sessions

\* The initial state is well typed.
LEMMA InitType == Init => TypeOK
BY SessionAssumption DEF Init, TypeOK

\* What the end of a request does to its registers.
LEMMA FinishType ==
  ASSUME TypeOK, NEW r \in Requests, Finish(r)
  PROVE  /\ active' \subseteq Users /\ now' = now
         /\ pc' \in [Requests -> {"idle", "create", "read", "rotate"}]
         /\ subject' \in [Requests -> Logins \cup Tokens \cup {None}]
         /\ at' \in [Requests -> 0..now]
         /\ \A q \in Requests : pc'[q] = "create" => pc[q] = "create" /\ subject'[q] = subject[q]
         /\ \A q \in Requests : pc'[q] \in {"read", "rotate"} =>
              pc[q] = pc'[q] /\ subject'[q] = subject[q]
BY DEF Finish, TypeOK

\* What a new session does to the table.
LEMMA CreateType ==
  ASSUME TypeOK, NEW t \in Tokens, NEW l \in Logins, NEW f \in Tokens \cup {None},
         NEW time \in 0..now, Create(t, l, f, time)
  PROVE  /\ loginOf' \in [Tokens -> Logins \cup {None}]
         /\ expiresAt' \in [Tokens -> 0..(now + TTL)]
         /\ parent' \in [Tokens -> Tokens \cup {None}]
         /\ Issued' = Issued \cup {t}
<1>1. time + TTL \in 0..(now + TTL)
  BY SessionAssumption DEF TypeOK
<1>2. l # None
  BY SessionAssumption
<1>3. QED
  BY <1>1, <1>2 DEF Create, TypeOK, Issued, Expiry

\* Every step keeps the types.
LEMMA NextType == TypeOK /\ [Next]_vars => TypeOK'
<1> SUFFICES ASSUME TypeOK, [Next]_vars PROVE TypeOK'
  OBVIOUS
<1>1. ASSUME NEW r \in Requests, NEW l \in Logins, BeginLogin(r, l) PROVE TypeOK'
  BY <1>1 DEF BeginLogin, Begin, sessions, TypeOK, Issued
<1>2. ASSUME NEW r \in Requests, NEW t \in Tokens, BeginRefresh(r, t) PROVE TypeOK'
  BY <1>2 DEF BeginRefresh, Begin, sessions, TypeOK, Issued
<1>3. ASSUME NEW r \in Requests, CreateSession(r) PROVE TypeOK'
  <2>1. PICK t \in Tokens : Create(t, subject[r], None, now)
    BY <1>3 DEF CreateSession
  <2>2. subject[r] \in Logins /\ now \in 0..now
    BY <1>3 DEF CreateSession, TypeOK
  <2>3. Finish(r) /\ revokedAt' = revokedAt
    BY <1>3 DEF CreateSession
  <2>4. QED
    BY <2>1, <2>2, <2>3, FinishType, CreateType DEF TypeOK
<1>4. ASSUME NEW r \in Requests, ReadSession(r) PROVE TypeOK'
  BY <1>4 DEF ReadSession, sessions, TypeOK, Issued
<1>5. ASSUME NEW r \in Requests, Refuse(r) \/ RotatedMeanwhile(r) \/ Fail(r) PROVE TypeOK'
  <2>1. Finish(r) /\ UNCHANGED sessions
    BY <1>5 DEF Refuse, RotatedMeanwhile, Fail
  <2>2. QED
    BY <2>1, FinishType DEF TypeOK, sessions, Issued
<1>6. ASSUME NEW r \in Requests, Rotate(r) PROVE TypeOK'
  <2>1. subject[r] \in Issued /\ at[r] \in 0..now
    BY <1>6 DEF Rotate, TypeOK
  <2>2. subject[r] \in Tokens /\ loginOf[subject[r]] \in Logins
    BY <2>1 DEF Issued, TypeOK
  <2>3. PICK t \in Tokens : Create(t, loginOf[subject[r]], subject[r], at[r])
    BY <1>6 DEF Rotate
  <2>4. Finish(r) /\ revokedAt' = [revokedAt EXCEPT ![subject[r]] = at[r]]
    BY <1>6 DEF Rotate
  <2>5. revokedAt' \in [Tokens -> -1..now]
    <3>1. at[r] \in -1..now /\ revokedAt \in [Tokens -> -1..now]
      BY <2>1 DEF TypeOK
    <3>2. QED
      BY <2>4, <3>1
  <2>6. QED
    BY <2>1, <2>2, <2>3, <2>4, <2>5, FinishType, CreateType DEF TypeOK
<1>7. ASSUME NEW t \in Tokens, Logout(t) PROVE TypeOK'
  BY <1>7 DEF Logout, TypeOK, Issued
<1>8. ASSUME NEW u \in Users, Deactivate(u) PROVE TypeOK'
  BY <1>8 DEF Deactivate, sessions, TypeOK, Issued
<1>9. ASSUME Tick PROVE TypeOK'
  <2>1. 0..now \subseteq 0..now' /\ -1..now \subseteq -1..now'
        /\ 0..(now + TTL) \subseteq 0..(now' + TTL) /\ now' \in 0..Horizon
    BY <1>9, SessionAssumption DEF Tick, TypeOK
  <2>2. QED
    BY <1>9, <2>1 DEF Tick, sessions, TypeOK, Issued
<1>10. CASE UNCHANGED vars
  BY <1>10 DEF vars, sessions, TypeOK, Issued
<1>11. QED
  BY <1>1, <1>2, <1>3, <1>4, <1>5, <1>6, <1>7, <1>8, <1>9, <1>10 DEF Next

\* The types hold in every reachable state: whatever a request remembers of a
\* session, and every time it stores, lies in the past or within the TTL.
THEOREM TypeCorrect == Spec => []TypeOK
<1>1. QED
  BY InitType, NextType, PTL DEF Spec

-----------------------------------------------------------------------------

LEMMA InitInv == Init => IInv
<1> SUFFICES ASSUME Init PROVE IInv
  OBVIOUS
<1>1. TypeOK
  BY InitType
<1>2. Issued = {} /\ \A t \in Tokens : revokedAt[t] = -1
  BY DEF Init, Issued
<1>3. \A l \in Logins : Live(l) = {}
  BY SessionAssumption DEF Init, Live
<1>4. QED
  BY <1>1, <1>2, <1>3 DEF Init, IInv, FreshIsUnrevoked, ReplacedIsRevoked,
     LoginIsFresh, OneLivePerLogin

\* A step that leaves the table alone creates no login that already has a session.
LEMMA ElsewhereInv == IInv /\ Elsewhere /\ TypeOK' => IInv'
<1> SUFFICES ASSUME IInv, Elsewhere, TypeOK' PROVE IInv'
  OBVIOUS
<1>1. UNCHANGED sessions
  BY ElsewhereKeepsSessions
<1>2. FreshIsUnrevoked' /\ ReplacedIsRevoked' /\ OneLivePerLogin'
  BY <1>1 DEF IInv, sessions, FreshIsUnrevoked, ReplacedIsRevoked, OneLivePerLogin,
     Issued, Live
<1>3. LoginIsFresh'
  <2>1. ASSUME NEW r \in Requests, NEW l \in Logins, BeginLogin(r, l) PROVE LoginIsFresh'
    BY <2>1 DEF BeginLogin, Begin, sessions, IInv, LoginIsFresh, TypeOK
  <2>2. ASSUME NEW r \in Requests, NEW t \in Tokens, BeginRefresh(r, t) PROVE LoginIsFresh'
    BY <2>2 DEF BeginRefresh, Begin, sessions, IInv, LoginIsFresh, TypeOK
  <2>3. ASSUME NEW r \in Requests, ReadSession(r) PROVE LoginIsFresh'
    BY <2>3 DEF ReadSession, sessions, IInv, LoginIsFresh, TypeOK
  <2>4. ASSUME NEW r \in Requests, Refuse(r) \/ RotatedMeanwhile(r) \/ Fail(r)
        PROVE LoginIsFresh'
    <3>1. Finish(r)
      BY <2>4 DEF Refuse, RotatedMeanwhile, Fail
    <3>2. QED
      BY <1>1, <3>1, FinishType DEF sessions, IInv, LoginIsFresh
  <2>5. CASE (\E u \in Users : Deactivate(u)) \/ Tick \/ UNCHANGED vars
    BY <2>5 DEF Deactivate, Tick, vars, sessions, IInv, LoginIsFresh
  <2>6. QED
    BY <2>1, <2>2, <2>3, <2>4, <2>5 DEF Elsewhere
<1>4. QED
  BY <1>2, <1>3 DEF IInv

\* The first session of a login is its only one.
LEMMA CreateInv ==
  ASSUME IInv, TypeOK', NEW r \in Requests, CreateSession(r)
  PROVE  IInv'
<1>1. PICK t \in Tokens : Create(t, subject[r], None, now)
  BY DEF CreateSession
<1>2. pc[r] = "create" /\ Finish(r) /\ revokedAt' = revokedAt
  BY DEF CreateSession
<1> DEFINE l == subject[r]
<1>3. l \in Logins /\ l # None /\ \A x \in Tokens : loginOf[x] # l
  BY <1>2, SessionAssumption DEF IInv, TypeOK, LoginIsFresh
<1>4. loginOf[t] = None /\ loginOf' = [loginOf EXCEPT ![t] = l]
      /\ parent' = [parent EXCEPT ![t] = None]
  BY <1>1 DEF Create, Issued
<1>5. loginOf \in [Tokens -> Logins \cup {None}] /\ parent \in [Tokens -> Tokens \cup {None}]
      /\ None \notin Tokens
  BY SessionAssumption DEF IInv, TypeOK
<1> HIDE DEF l
<1>6. FreshIsUnrevoked'
  BY <1>2, <1>3, <1>4, <1>5 DEF IInv, FreshIsUnrevoked
<1>7. ReplacedIsRevoked'
  BY <1>2, <1>3, <1>4, <1>5 DEF IInv, ReplacedIsRevoked, Issued
<1>8. LoginIsFresh'
  <2>1. ASSUME NEW q \in Requests, pc'[q] = "create"
        PROVE  q # r /\ pc[q] = "create" /\ subject'[q] = subject[q]
    BY <1>2, <2>1 DEF Finish, IInv, TypeOK
  <2>2. \A q \in Requests : pc'[q] = "create" => subject'[q] # l
    BY <1>2, <2>1 DEF IInv, LoginIsFresh, l
  <2>3. QED
    BY <1>4, <1>5, <2>1, <2>2 DEF IInv, LoginIsFresh
<1>9. OneLivePerLogin'
  <2>1. ASSUME NEW k \in Logins, NEW x \in Live(k)', NEW y \in Live(k)' PROVE x = y
    <3>1. x \in Tokens /\ y \in Tokens /\ loginOf'[x] = k /\ loginOf'[y] = k
          /\ revokedAt[x] = -1 /\ revokedAt[y] = -1
      BY <1>2, <2>1 DEF Live
    <3>2. CASE k = l
      BY <1>3, <1>4, <1>5, <3>1, <3>2
    <3>3. CASE k # l
      BY <1>4, <1>5, <3>1, <3>3 DEF IInv, OneLivePerLogin, Live
    <3>4. QED
      BY <3>2, <3>3
  <2>2. \A x, y \in Issued' : parent'[x] \in Tokens /\ parent'[x] = parent'[y] => x = y
    BY <1>3, <1>4, <1>5 DEF IInv, OneLivePerLogin, Issued
  <2>3. QED
    BY <2>1, <2>2 DEF OneLivePerLogin
<1>10. QED
  BY <1>6, <1>7, <1>8, <1>9 DEF IInv

\* A refresh that revokes the session it replaces puts one session in its place.
LEMMA RotateInv ==
  ASSUME IInv, TypeOK', NEW r \in Requests, Rotate(r)
  PROVE  IInv'
<1> DEFINE old == subject[r]
           l == loginOf[old]
<1>1. PICK t \in Tokens : Create(t, l, old, at[r])
  BY DEF Rotate
<1>2. /\ pc[r] = "rotate" /\ Finish(r)
      /\ revokedAt[old] = -1
      /\ revokedAt' = [revokedAt EXCEPT ![old] = at[r]]
  BY DEF Rotate, Revocable
<1>3. old \in Issued /\ old \in Tokens /\ l \in Logins /\ l # None
  BY <1>2 DEF IInv, TypeOK, Issued
<1>4. /\ loginOf[t] = None /\ loginOf' = [loginOf EXCEPT ![t] = l]
      /\ parent' = [parent EXCEPT ![t] = old]
  BY <1>1 DEF Create, Issued
<1>5. /\ loginOf \in [Tokens -> Logins \cup {None}]
      /\ parent \in [Tokens -> Tokens \cup {None}]
      /\ revokedAt \in [Tokens -> -1..now]
      /\ at[r] \in 0..now
  BY DEF IInv, TypeOK
<1>6. t # old
  BY <1>3, <1>4
<1>7. revokedAt'[old] # -1 /\ \A x \in Tokens \ {old} : revokedAt'[x] = revokedAt[x]
  BY <1>2, <1>3, <1>5
<1> HIDE DEF l, old
<1>8. FreshIsUnrevoked'
  BY <1>3, <1>4, <1>5, <1>7 DEF IInv, FreshIsUnrevoked, Issued
<1>9. Issued' = Issued \cup {t}
  BY <1>3, <1>4, <1>5 DEF Issued
<1>10. ReplacedIsRevoked'
  <2>1. ASSUME NEW x \in Issued', parent'[x] \in Tokens
        PROVE  parent'[x] \in Issued' /\ revokedAt'[parent'[x]] # -1
    <3>1. CASE x = t
      BY <1>3, <1>4, <1>5, <1>7, <1>9, <3>1
    <3>2. CASE x # t
      BY <1>4, <1>5, <1>7, <1>9, <2>1, <3>2 DEF IInv, ReplacedIsRevoked, Issued
    <3>3. QED
      BY <3>1, <3>2
  <2>2. QED
    BY <2>1 DEF ReplacedIsRevoked
<1>11. LoginIsFresh'
  <2>1. ASSUME NEW q \in Requests, pc'[q] = "create"
        PROVE  pc[q] = "create" /\ subject'[q] = subject[q]
    BY <1>2, <2>1, FinishType DEF IInv
  <2>2. \A q \in Requests : pc'[q] = "create" => subject'[q] # l
    BY <1>3, <2>1 DEF IInv, LoginIsFresh, l
  <2>3. QED
    BY <1>4, <1>5, <2>1, <2>2 DEF IInv, LoginIsFresh
<1>12. OneLivePerLogin'
  <2>1. ASSUME NEW k \in Logins, NEW x \in Live(k)', NEW y \in Live(k)' PROVE x = y
    <3>1. x \in Tokens \ {old} /\ y \in Tokens \ {old} /\ loginOf'[x] = k
          /\ loginOf'[y] = k /\ revokedAt[x] = -1 /\ revokedAt[y] = -1
      BY <1>7, <2>1 DEF Live
    <3>2. ASSUME NEW z \in Tokens \ {old, t}, loginOf'[z] = l, revokedAt[z] = -1
          PROVE  FALSE
      <4>1. z \in Live(l) /\ old \in Live(l)
        BY <1>2, <1>3, <1>4, <1>5, <3>2 DEF Live, l
      <4>2. QED
        BY <1>3, <3>2, <4>1 DEF IInv, OneLivePerLogin
    <3>3. CASE k = l
      BY <3>1, <3>2, <3>3
    <3>4. CASE k # l
      BY <1>4, <1>5, <3>1, <3>4 DEF IInv, OneLivePerLogin, Live
    <3>5. QED
      BY <3>3, <3>4
  <2>2. \A x \in Issued : parent[x] # old
    BY <1>2, <1>3 DEF IInv, ReplacedIsRevoked
  <2>3. \A x, y \in Issued' : parent'[x] \in Tokens /\ parent'[x] = parent'[y] => x = y
    BY <1>4, <1>5, <1>9, <2>2 DEF IInv, OneLivePerLogin, Issued
  <2>4. QED
    BY <2>1, <2>3 DEF OneLivePerLogin
<1>13. QED
  BY <1>8, <1>10, <1>11, <1>12 DEF IInv

\* A logout takes a session away.
LEMMA LogoutInv ==
  ASSUME IInv, TypeOK', NEW t \in Tokens, Logout(t)
  PROVE  IInv'
<1>1. /\ t \in Issued /\ revokedAt[t] = -1 /\ revokedAt' = [revokedAt EXCEPT ![t] = now]
      /\ UNCHANGED <<loginOf, parent, pc, subject>>
  BY DEF Logout
<1>2. revokedAt \in [Tokens -> -1..now] /\ now \in 0..Horizon
  BY DEF IInv, TypeOK
<1>3. revokedAt'[t] # -1 /\ \A x \in Tokens \ {t} : revokedAt'[x] = revokedAt[x]
  BY <1>1, <1>2
<1>4. FreshIsUnrevoked' /\ LoginIsFresh'
  BY <1>1, <1>3 DEF IInv, FreshIsUnrevoked, LoginIsFresh, Issued
<1>5. ReplacedIsRevoked'
  BY <1>1, <1>3 DEF IInv, ReplacedIsRevoked, Issued
<1>6. \A l \in Logins : Live(l)' \subseteq Live(l)
  BY <1>1, <1>3 DEF Live
<1>7. OneLivePerLogin'
  BY <1>1, <1>6 DEF IInv, OneLivePerLogin, Issued
<1>8. QED
  BY <1>4, <1>5, <1>7 DEF IInv

LEMMA NextInv == IInv /\ [Next]_vars => IInv'
<1> SUFFICES ASSUME IInv, [Next]_vars PROVE IInv'
  OBVIOUS
<1>1. TypeOK'
  BY NextType DEF IInv
<1>2. CASE Elsewhere
  BY <1>1, <1>2, ElsewhereInv
<1>3. ASSUME NEW r \in Requests, CreateSession(r) PROVE IInv'
  BY <1>1, <1>3, CreateInv
<1>4. ASSUME NEW r \in Requests, Rotate(r) PROVE IInv'
  BY <1>1, <1>4, RotateInv
<1>5. ASSUME NEW t \in Tokens, Logout(t) PROVE IInv'
  BY <1>1, <1>5, LogoutInv
<1>6. QED
  BY <1>2, <1>3, <1>4, <1>5, StepKinds

\* However refreshes, logouts and failures of one login interleave, it has at most
\* one session that is not revoked, and no session has two successors.
THEOREM LoginsHaveOneSession == Spec => []OneLivePerLogin
<1>1. IInv => OneLivePerLogin
  BY DEF IInv
<1>2. QED
  BY InitInv, NextInv, <1>1, PTL DEF Spec

-----------------------------------------------------------------------------

\* The session of a login, as LoginChain has it.
LEMMA CurrentIsLive ==
  ASSUME IInv, NEW l \in Logins, NEW t \in Live(l)
  PROVE  CurrentOf(l) = t
<1>1. t \in Tokens /\ loginOf[t] = l /\ Live(l) = {t}
  BY DEF IInv, OneLivePerLogin, Live
<1>2. QED
  BY <1>1 DEF CurrentOf

LEMMA CurrentIsLiveNext ==
  ASSUME IInv', NEW l \in Logins, NEW t \in Live(l)'
  PROVE  CurrentOf(l)' = t
<1>1. t \in Tokens /\ loginOf'[t] = l /\ Live(l)' = {t}
  BY DEF IInv, OneLivePerLogin, Live
<1>2. QED
  BY <1>1 DEF CurrentOf

\* Two states with the same table show the same sessions.
LEMMA SameSessions ==
  ASSUME UNCHANGED sessions
  PROVE  /\ [l \in Logins |-> CurrentOf(l)]' = [l \in Logins |-> CurrentOf(l)]
         /\ Issued' = Issued
BY DEF sessions, CurrentOf, Live, Issued

\* A login opens a chain.
LEMMA CreateOpens ==
  ASSUME IInv, IInv', NEW r \in Requests, CreateSession(r)
  PROVE  \E l \in Logins : \E t \in Tokens : Chain!Open(l, t)
<1>2. pc[r] = "create" /\ revokedAt' = revokedAt
  BY DEF CreateSession
<1>0. PICK l \in Logins : l = subject[r]
  BY <1>2 DEF IInv, TypeOK
<1>1. PICK t \in Tokens : Create(t, l, None, now)
  BY <1>0 DEF CreateSession
<1>3. l # None /\ \A x \in Tokens : loginOf[x] # l
  BY <1>0, <1>2, SessionAssumption DEF IInv, LoginIsFresh
<1>4. loginOf[t] = None /\ loginOf' = [loginOf EXCEPT ![t] = l]
  BY <1>1 DEF Create, Issued
<1>5. loginOf \in [Tokens -> Logins \cup {None}] /\ revokedAt[t] = -1
  BY <1>4 DEF IInv, TypeOK, FreshIsUnrevoked
<1>6. t \in Live(l)'
  BY <1>2, <1>4, <1>5 DEF Live
<1>7. CurrentOf(l) = None /\ CurrentOf(l)' = t
  BY <1>3, <1>6, CurrentIsLiveNext DEF CurrentOf
<1>8. ASSUME NEW k \in Logins, k # l PROVE CurrentOf(k)' = CurrentOf(k)
  <2>1. \A x \in Tokens : loginOf'[x] = k <=> loginOf[x] = k
    BY <1>4, <1>5, <1>8, SessionAssumption
  <2>2. Live(k)' = Live(k)
    BY <1>2, <2>1 DEF Live
  <2>3. QED
    BY <2>1, <2>2 DEF CurrentOf
<1>9. t \notin Issued /\ Issued' = Issued \cup {t}
  BY <1>3, <1>4, <1>5 DEF Issued
<1>10. Chain!Open(l, t)
  <2>1. [k \in Logins |-> CurrentOf(k)]' = [[k \in Logins |-> CurrentOf(k)] EXCEPT ![l] = t]
    BY <1>7, <1>8
  <2>2. QED
    BY <2>1, <1>7, <1>9 DEF Chain!Open
<1>11. QED
  BY <1>10

\* A refresh goes on with a chain.
LEMMA RotateReplaces ==
  ASSUME IInv, IInv', NEW r \in Requests, Rotate(r)
  PROVE  \E l \in Logins : \E t \in Tokens : Chain!Replace(l, t)
<1>a. PICK old \in Tokens : old = subject[r] /\ old \in Issued
  BY DEF Rotate, IInv, TypeOK, Issued
<1>b. PICK l \in Logins : l = loginOf[old]
  BY <1>a DEF IInv, TypeOK, Issued
<1>1. PICK t \in Tokens : Create(t, l, old, at[r])
  BY <1>a, <1>b DEF Rotate
<1>2. /\ pc[r] = "rotate"
      /\ revokedAt[old] = -1
      /\ revokedAt' = [revokedAt EXCEPT ![old] = at[r]]
  BY <1>a DEF Rotate, Revocable
<1>3. l = loginOf[old] /\ l # None
  BY <1>a, <1>b DEF Issued
<1>4. loginOf[t] = None /\ loginOf' = [loginOf EXCEPT ![t] = l]
  BY <1>1 DEF Create, Issued
<1>5. /\ loginOf \in [Tokens -> Logins \cup {None}]
      /\ revokedAt \in [Tokens -> -1..now]
      /\ revokedAt[t] = -1 /\ t # old
  BY <1>3, <1>4 DEF IInv, TypeOK, FreshIsUnrevoked
<1>6. t \in Live(l)' /\ old \in Live(l)
  BY <1>2, <1>3, <1>4, <1>5 DEF Live
<1>7. CurrentOf(l) = old /\ CurrentOf(l)' = t
  BY <1>3, <1>6, CurrentIsLive, CurrentIsLiveNext
<1>8. ASSUME NEW k \in Logins, k # l PROVE CurrentOf(k)' = CurrentOf(k)
  <2>1. \A x \in Tokens : loginOf'[x] = k <=> loginOf[x] = k
    BY <1>4, <1>5, <1>8, SessionAssumption
  <2>2. \A x \in Tokens : loginOf[x] = k => revokedAt'[x] = revokedAt[x]
    BY <1>2, <1>3, <1>5, <1>8
  <2>3. Live(k)' = Live(k)
    BY <2>1, <2>2 DEF Live
  <2>4. QED
    BY <2>1, <2>3 DEF CurrentOf
<1>9. t \notin Issued /\ Issued' = Issued \cup {t}
  BY <1>3, <1>4, <1>5 DEF Issued
<1>10. Chain!Replace(l, t)
  <2>1. [k \in Logins |-> CurrentOf(k)]' = [[k \in Logins |-> CurrentOf(k)] EXCEPT ![l] = t]
    BY <1>7, <1>8
  <2>2. QED
    BY <2>1, <1>7, <1>9 DEF Chain!Replace
<1>11. QED
  BY <1>10

\* A logout ends a chain.
LEMMA LogoutEnds ==
  ASSUME IInv, IInv', NEW t \in Tokens, Logout(t)
  PROVE  \E l \in Logins : Chain!End(l)
<1>0. PICK l \in Logins : l = loginOf[t]
  BY DEF Logout, IInv, TypeOK, Issued
<1>1. /\ t \in Issued /\ revokedAt[t] = -1 /\ revokedAt' = [revokedAt EXCEPT ![t] = now]
      /\ loginOf' = loginOf
  BY DEF Logout
<1>2. revokedAt \in [Tokens -> -1..now] /\ now \in 0..Horizon
  BY DEF IInv, TypeOK
<1>3. t \in Live(l)
  BY <1>0, <1>1 DEF Live
<1>4. CurrentOf(l) = t
  BY <1>2, <1>3, CurrentIsLive
<1>5. Live(l)' = {}
  BY <1>1, <1>2, <1>3 DEF IInv, OneLivePerLogin, Live
<1>6. CurrentOf(l)' = Ended
  BY <1>0, <1>1, <1>5 DEF CurrentOf
<1>7. ASSUME NEW k \in Logins, k # l PROVE CurrentOf(k)' = CurrentOf(k)
  <2>1. \A x \in Tokens : loginOf[x] = k => revokedAt'[x] = revokedAt[x]
    BY <1>0, <1>1, <1>2, <1>7
  <2>2. Live(k)' = Live(k)
    BY <1>1, <2>1 DEF Live
  <2>3. QED
    BY <1>1, <2>2 DEF CurrentOf
<1>8. Issued' = Issued
  BY <1>1 DEF Issued
<1>9. Chain!End(l)
  <2>1. [k \in Logins |-> CurrentOf(k)]' = [[k \in Logins |-> CurrentOf(k)] EXCEPT ![l] = Ended]
    BY <1>6, <1>7
  <2>2. QED
    BY <2>1, <1>4, <1>8 DEF Chain!End
<1>10. QED
  BY <1>9

LEMMA InitChains == Init => Chain!Init
<1> SUFFICES ASSUME Init PROVE Chain!Init
  OBVIOUS
<1>1. Issued = {} /\ \A l \in Logins : CurrentOf(l) = None
  BY SessionAssumption DEF Init, Issued, CurrentOf
<1>2. QED
  BY <1>1 DEF Chain!Init

LEMMA NextChains ==
  IInv /\ IInv' /\ [Next]_vars
    => [Chain!Next]_<<[l \in Logins |-> CurrentOf(l)], Issued>>
<1> SUFFICES ASSUME IInv, IInv', [Next]_vars
             PROVE  [Chain!Next]_<<[l \in Logins |-> CurrentOf(l)], Issued>>
  OBVIOUS
<1>1. CASE Elsewhere
  BY <1>1, ElsewhereKeepsSessions, SameSessions
<1>2. ASSUME NEW r \in Requests, CreateSession(r) PROVE Chain!Next
  BY <1>2, CreateOpens DEF Chain!Next
<1>3. ASSUME NEW r \in Requests, Rotate(r) PROVE Chain!Next
  BY <1>3, RotateReplaces DEF Chain!Next
<1>4. ASSUME NEW t \in Tokens, Logout(t) PROVE Chain!Next
  BY <1>4, LogoutEnds DEF Chain!Next
<1>5. QED
  BY <1>1, <1>2, <1>3, <1>4, StepKinds

\* The statements of concurrent refreshes, logins and logouts keep the promise of
\* LoginChain: what was replaced or ended never counts again.
THEOREM SessionsImplementChain == Spec => ChainSpec
BY InitInv, NextInv, InitChains, NextChains, PTL DEF Spec, ChainSpec, Chain!Spec
=============================================================================
