SPECIFICATION Spec
CONSTANTS
  kb = kb  ks1 = ks1  ks2 = ks2  kt = kt
  alice = alice
  b1 = b1  b2 = b2  s1 = s1  s2 = s2  p1 = p1  p2 = p2  t1 = t1  t2 = t2
  NoAddress = NoAddress
  Consumers = {kb, ks1, ks2, kt}
  Settings = {{kb}}
  ChainOf <- MCChainOf
  PoolSize <- MCPoolSize
  Addresses = {b1, b2, s1, s2, p1, p2, t1, t2}
  Users = {alice}
  Imported <- AllAccounts
  Transfers <- AllTransfers
  Signed <- AllSigned
  Limit <- MCLimit
  Watched = {s1}
  MaxLedger = 1
  MaxAccounts = 4
  MaxJobs = 1
  MaxFaults = 0
  MaxChanges = 0
PROPERTIES StoredOnce
