SPECIFICATION ManagerFairSpec
CONSTANTS
  c1 = c1  c2 = c2
  Chains = {c1, c2}
  MaxLives = 1
  MaxStops = 2
INVARIANTS ManagerTypeOK NoLeakedWatcher MapTellsTheTruth
PROPERTIES WatchersFollowOrders SignalEndsProcess
