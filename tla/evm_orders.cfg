SPECIFICATION Spec
CONSTANTS
  w1 = w1  w2 = w2
  o1 = o1  o2 = o2
  a1 = a1  a2 = a2
  x1 = x1  x2 = x2
  t1 = t1  t2 = t2  t3 = t3
  None = None
  Workers = {w1, w2}
  Orders = {o1, o2}
  Accounts = {a1, a2}
  Addresses = {x1, x2}
  Transfers = {t1, t2, t3}
  StoredLower = {a1, a2}
  Bodies <- SharedBodies
  AccountAddress <- MCAccountAddress
  DepositAccounts <- SharedAccounts
  To <- MCTo
  Interval = 1
  FreshTTL = 2
  UpdateTTL = 1
  MaxLag = 0
  MaxHangs = 1
  MaxBlocks = 2
  MaxJobs = 1
  MaxFaults = 1
INVARIANTS TypeOK ConfirmedByOwnDeposit
PROPERTIES LedgerSpec CursorGoesBackByOverlap
