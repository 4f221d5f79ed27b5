SPECIFICATION FairSpec
CONSTANTS
  MaxDials = 3
  Attempts = 2
  Buffer = 1
CHECK_DEADLOCK FALSE
INVARIANTS TypeOK OneConnection ConnectedIsServed
PROPERTY BrokenIsReplaced
