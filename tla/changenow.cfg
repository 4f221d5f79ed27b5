SPECIFICATION FairSpec
CONSTANTS
  o1 = o1  o2 = o2
  w1 = w1  w2 = w2  c0 = c0
  None = None
  Checker = c0
  Orders = {o1, o2}
  Watched = {o1}
  Consumers = {w1}
  MaxAttempts = 2
  MaxJobs = 1
  MaxFaults = 3
INVARIANTS TypeOK NoFalseAlarm
PROPERTY OutcomeIsActedOn
