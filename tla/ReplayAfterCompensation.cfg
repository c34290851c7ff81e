SPECIFICATION AuditSpec
CONSTANTS
  c = c
  d = d
  e = e
  acc = acc
  l1 = l1
  l2 = l2
  f1 = f1
  f2 = f2
  s1 = s1
  s2 = s2
  Nobody = Nobody
  Txns = {c, d}
  Accounts = {acc}
  LedgerWorkers = {l1}
  Finalizers = {f1}
  Scans = {s1}
  AccountOf <- OneAccount
  TypeOf <- Types
  AmountOf <- Amounts
  Opening <- OpeningTwo
  Take = 2
  MaxFaults = 0
CHECK_DEADLOCK FALSE
INVARIANT ReplayRebuildsBalance
