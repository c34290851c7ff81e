----------------------------- MODULE AuthSessions -----------------------------
(***************************************************************************)
(* Login, refresh and logout over the RefreshSession table.  A refresh     *)
(* reads the clock, reads the session, revokes it with a guarded update    *)
(* and inserts its successor in the same database transaction; a login     *)
(* creates a session some time after it has read the user, since checking  *)
(* the password takes long.  A client that got no answer may use its old   *)
(* token again at any time.  Tokens and their hashes are the same thing    *)
(* here, fresh ones never having been used before.                         *)
(***************************************************************************)
EXTENDS Integers, FiniteSets

CONSTANTS Logins,       \* successful checks of a password, each with one session
          Users, UserOf,
          Tokens,       \* refresh tokens
          Requests,     \* requests that run at the same time
          TTL,          \* REFRESH_TOKEN_TTL_SECONDS, in ticks
          Horizon,      \* bound on the clock of a run
          None, Ended

ASSUME SessionAssumption ==
  /\ UserOf \in [Logins -> Users]
  /\ TTL \in Nat \ {0} /\ Horizon \in Nat
  /\ None \notin Logins \cup Tokens /\ Ended \notin Tokens \cup {None}

VARIABLES active,       \* users that are ACTIVE and not deleted
          loginOf,      \* the login a session goes back to, None before it exists
          expiresAt,    \* RefreshSession.expiresAt
          revokedAt,    \* RefreshSession.revokedAt, -1 for null
          parent,       \* the session that a refresh replaced by this one
          now,
          pc,           \* create, read or rotate: the next statement of a request
          subject,      \* the login of a login, the token of a refresh
          at            \* when a refresh has read the clock

sessions == <<loginOf, expiresAt, revokedAt, parent>>
vars == <<active, sessions, now, pc, subject, at>>

Issued == {t \in Tokens : loginOf[t] # None}

Init ==
  /\ active = Users
  /\ loginOf = [t \in Tokens |-> None]
  /\ expiresAt = [t \in Tokens |-> 0]
  /\ revokedAt = [t \in Tokens |-> -1]
  /\ parent = [t \in Tokens |-> None]
  /\ now = 0
  /\ pc = [r \in Requests |-> "idle"]
  /\ subject = [r \in Requests |-> None]
  /\ at = [r \in Requests |-> 0]

-----------------------------------------------------------------------------

Begin(r, what, step) ==
  /\ pc[r] = "idle"
  /\ subject' = [subject EXCEPT ![r] = what]
  /\ at' = [at EXCEPT ![r] = now]
  /\ pc' = [pc EXCEPT ![r] = step]
  /\ UNCHANGED <<active, sessions, now>>

Finish(r) ==
  /\ pc' = [pc EXCEPT ![r] = "idle"]
  /\ subject' = [subject EXCEPT ![r] = None]
  /\ at' = [at EXCEPT ![r] = 0]
  /\ UNCHANGED <<active, now>>

\* Mutant: a session lives one tick too long.
ExpiryTooLate(time) == time + TTL + 1

Expiry(time) == time + TTL

Create(t, l, from, time) ==
  /\ t \notin Issued
  /\ loginOf' = [loginOf EXCEPT ![t] = l]
  /\ expiresAt' = [expiresAt EXCEPT ![t] = Expiry(time)]
  /\ parent' = [parent EXCEPT ![t] = from]

\* The user is found and active; now the password is checked.
BeginLogin(r, l) ==
  /\ UserOf[l] \in active
  /\ \A t \in Tokens : loginOf[t] # l
  /\ l \notin {subject[q] : q \in Requests}
  /\ Begin(r, l, "create")

CreateSession(r) ==
  /\ pc[r] = "create"
  /\ \E t \in Tokens : Create(t, subject[r], None, now)
  /\ Finish(r)
  /\ UNCHANGED revokedAt

BeginRefresh(r, t) == t \in Issued /\ Begin(r, t, "read")

Unexpired(r) == expiresAt[subject[r]] > at[r]

Usable(r) ==
  /\ revokedAt[subject[r]] = -1
  /\ Unexpired(r)
  /\ UserOf[loginOf[subject[r]]] \in active

ReadSession(r) ==
  /\ pc[r] = "read"
  /\ Usable(r)
  /\ pc' = [pc EXCEPT ![r] = "rotate"]
  /\ UNCHANGED <<active, sessions, now, subject, at>>

Refuse(r) ==
  /\ pc[r] = "read"
  /\ ~Usable(r)
  /\ Finish(r)
  /\ UNCHANGED sessions

\* Mutant: the update trusts the session that was read.
Trusted(r) == Unexpired(r)

\* The update waits for the row and then looks at it again.
Revocable(r) == revokedAt[subject[r]] = -1 /\ Unexpired(r)

\* Mutant: the replaced session is not revoked.
RotateKeeping(r) ==
  /\ pc[r] = "rotate"
  /\ Revocable(r)
  /\ \E t \in Tokens : Create(t, loginOf[subject[r]], subject[r], at[r])
  /\ Finish(r)
  /\ UNCHANGED revokedAt

Rotate(r) ==
  /\ pc[r] = "rotate"
  /\ Revocable(r)
  /\ revokedAt' = [revokedAt EXCEPT ![subject[r]] = at[r]]
  /\ \E t \in Tokens : Create(t, loginOf[subject[r]], subject[r], at[r])
  /\ Finish(r)

\* The count of the update is not 1.
RotatedMeanwhile(r) ==
  /\ pc[r] = "rotate"
  /\ ~Revocable(r)
  /\ Finish(r)
  /\ UNCHANGED sessions

\* One statement.  On a session that is revoked it does nothing.
Logout(t) ==
  /\ t \in Issued
  /\ revokedAt[t] = -1
  /\ revokedAt' = [revokedAt EXCEPT ![t] = now]
  /\ UNCHANGED <<active, loginOf, expiresAt, parent, now, pc, subject, at>>

\* A statement fails, or the process dies: the transaction is rolled back.
Fail(r) ==
  /\ pc[r] # "idle"
  /\ Finish(r)
  /\ UNCHANGED sessions

\* Somebody deactivates or deletes a user in the database.
Deactivate(u) ==
  /\ u \in active
  /\ active' = active \ {u}
  /\ UNCHANGED <<sessions, now, pc, subject, at>>

Tick ==
  /\ now < Horizon
  /\ now' = now + 1
  /\ UNCHANGED <<active, sessions, pc, subject, at>>

Next ==
  \/ \E r \in Requests :
       \/ \E l \in Logins : BeginLogin(r, l)
       \/ \E t \in Tokens : BeginRefresh(r, t)
       \/ CreateSession(r) \/ ReadSession(r) \/ Refuse(r) \/ Rotate(r)
       \/ RotatedMeanwhile(r) \/ Fail(r)
  \/ \E t \in Tokens : Logout(t)
  \/ \E u \in Users : Deactivate(u)
  \/ Tick

Spec == Init /\ [][Next]_vars

-----------------------------------------------------------------------------

\* The type of every variable; no session outlives the TTL counted from now.
TypeOK ==
  /\ active \subseteq Users
  /\ loginOf \in [Tokens -> Logins \cup {None}]
  /\ expiresAt \in [Tokens -> 0..(now + TTL)]
  /\ revokedAt \in [Tokens -> -1..now]
  /\ parent \in [Tokens -> Tokens \cup {None}]
  /\ now \in 0..Horizon
  /\ pc \in [Requests -> {"idle", "create", "read", "rotate"}]
  /\ subject \in [Requests -> Logins \cup Tokens \cup {None}]
  /\ at \in [Requests -> 0..now]
  /\ \A r \in Requests :
       /\ pc[r] = "create" => subject[r] \in Logins
       /\ pc[r] \in {"read", "rotate"} => subject[r] \in Issued

Live(l) == {t \in Tokens : loginOf[t] = l /\ revokedAt[t] = -1}

\* Refreshes and logouts of one login may race, repeat and fail: at most one of its
\* sessions is not revoked, and no session is replaced twice.
OneLivePerLogin ==
  /\ \A l \in Logins : \A s, t \in Live(l) : s = t
  /\ \A s, t \in Issued : parent[s] \in Tokens /\ parent[s] = parent[t] => s = t

CurrentOf(l) ==
  IF \A t \in Tokens : loginOf[t] # l THEN None
  ELSE IF Live(l) = {} THEN Ended ELSE CHOOSE t \in Live(l) : TRUE

\* The concurrent statements keep the promise of LoginChain.
Chain == INSTANCE LoginChain WITH current <- [l \in Logins |-> CurrentOf(l)], used <- Issued
ChainSpec == Chain!Spec
=============================================================================
