SPECIFICATION FairSpec
CONSTANTS
  r1 = r1
  r2 = r2
  ann = ann
  bob = bob
  a1 = a1
  a2 = a2
  b1 = b1
  t1 = t1
  t2 = t2
  t3 = t3
  Nobody = Nobody
  Requests = {r1, r2}
  Users = {ann, bob}
  Accounts = {a1, a2, b1}
  ActiveUsers = {ann, bob}
  TxnIds = {t1, t2, t3}
  Owner <- MCOwner
  InitialStatus <- MCStatus
  Opening <- MCOpening
  Inputs <- MCInputs
  MaxTxn = 2
  FraudTxnAmount = 3
  Window = 0
  Horizon = 1
INVARIANTS TypeOK LocksProtectReads DebitLeavesPositive OneRowOneEvent SuccessIsRecorded VelocityLimit AmountLimit
PROPERTIES BankSpec Answered
