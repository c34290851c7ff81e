SPECIFICATION Spec
CONSTANTS
  None = None
  Ended = Ended
  Logins = {l1}
  Users = {u1}
  UserOf <- MCUserOf
  Tokens = {t1, t2, t3}
  Requests = {r1, r2}
  TTL = 2
  Horizon = 3
INVARIANTS TypeOK OneLivePerLogin
PROPERTY ChainSpec
CHECK_DEADLOCK FALSE
