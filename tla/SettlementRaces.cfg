SPECIFICATION Spec
CONSTANTS
  c = c
  d = d
  e = e
  acc = acc
  l1 = l1
  l2 = l2
  f1 = f1
  f2 = f2
  s1 = s1
  s2 = s2
  Nobody = Nobody
  Txns = {c, d}
  Accounts = {acc}
  LedgerWorkers = {l1, l2}
  Finalizers = {f1, f2}
  Scans = {s1, s2}
  AccountOf <- OneAccount
  TypeOf <- Types
  AmountOf <- Amounts
  Opening <- OpeningOne
  Take = 2
  MaxFaults = 1
SYMMETRY Instances
CHECK_DEADLOCK FALSE
INVARIANTS TypeOK BalanceMatchesStatus OneOutcome FinalizedHasLedger NeverOverdrawn
PROPERTY RecordedStaysMoved
