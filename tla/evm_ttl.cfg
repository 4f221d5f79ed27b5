SPECIFICATION Spec
CONSTANTS
  w1 = w1  w2 = w2
  o1 = o1  o2 = o2
  a1 = a1  a2 = a2
  x1 = x1  x2 = x2
  t1 = t1  t2 = t2  t3 = t3
  None = None
  Workers = {w1}
  Orders = {o1}
  Accounts = {a1, a2}
  Addresses = {x1, x2}
  Transfers = {t1, t2, t3}
  StoredLower = {a1, a2}
  Bodies <- EmptyBodies
  AccountAddress <- MCAccountAddress
  DepositAccounts <- OneOrder
  To <- MCTo
  Interval = 3
  FreshTTL = 60
  UpdateTTL = 1
  MaxLag = 0
  MaxHangs = 0
  MaxBlocks = 4
  MaxJobs = 1
  MaxFaults = 0
INVARIANT NewBlocksGoingForward
