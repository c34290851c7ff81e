SPECIFICATION Spec
CONSTANTS
  e1 = e1
  e2 = e2
  e3 = e3
  e4 = e4
  a1 = a1
  a2 = a2
  Events = {e1, e2, e3, e4}
  Accounts = {a1, a2}
  Handlers = {h1, h2}
  AccountOf <- MCAccountOf
  TimeOf <- MCTimeOf
  SignalsOf <- MCSignalsOf
  Window = 2
  Limit = 1
INVARIANTS TypeOK FlaggedWithCause AnnouncedBoundedly ObservedIsFlagged
