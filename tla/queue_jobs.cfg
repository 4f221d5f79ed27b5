SPECIFICATION FairSpec
CONSTANTS
  j1 = j1  j2 = j2
  r1 = r1  r2 = r2
  p1 = p1  p2 = p2
  h1 = h1
  None = None
  Jobs = {j1}
  Hashes = {h1}
  Producers = {r1}
  Processors = {p1, p2}
  MaxTime = 1
  MaxWait = 2
  MaxFaults = 1
INVARIANTS TypeOK HandledOnce FiledByState
PROPERTIES WaitingIsHandled
