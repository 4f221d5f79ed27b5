SPECIFICATION Spec
CONSTANTS
  bitcoin = bitcoin ethereum = ethereum solana = solana tron = tron
  wb = wb we1 = we1 we2 = we2 ws = ws wt = wt
  Chains = {bitcoin, ethereum, solana, tron}
  Workers = {wb, we1, we2, ws, wt}
  Kind <- MCKind
  Queue <- MCQueue
  Settings <- MCSettings
  BatchSize = 2
  MaxHeight = 4
  MaxJobs = 1
  MaxLag = 1
INVARIANT NothingSkippedUnnoticed
PROPERTY JobEnds
