------------------------------ MODULE LoginChain ------------------------------
(***************************************************************************)
(* What refresh sessions promise: a login has one session at a time.  A    *)
(* refresh replaces it by a fresh one, a logout ends it, and what has been *)
(* replaced or ended never counts again.                                   *)
(***************************************************************************)
CONSTANTS Logins, Tokens, None, Ended

VARIABLES current,    \* login -> the token of its session, None or Ended
          used        \* tokens that were ever issued

Init == current = [l \in Logins |-> None] /\ used = {}

Open(l, t) ==
  /\ current[l] = None
  /\ t \notin used
  /\ current' = [current EXCEPT ![l] = t]
  /\ used' = used \cup {t}

Replace(l, t) ==
  /\ current[l] \in Tokens
  /\ t \notin used
  /\ current' = [current EXCEPT ![l] = t]
  /\ used' = used \cup {t}

End(l) ==
  /\ current[l] \in Tokens
  /\ current' = [current EXCEPT ![l] = Ended]
  /\ UNCHANGED used

Next == \E l \in Logins : End(l) \/ \E t \in Tokens : Open(l, t) \/ Replace(l, t)

Spec == Init /\ [][Next]_<<current, used>>
=============================================================================
