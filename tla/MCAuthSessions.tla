---------------------------- MODULE MCAuthSessions ----------------------------
EXTENDS AuthSessions

MCUserOf == [l \in Logins |-> CHOOSE u \in Users : TRUE]
=============================================================================
