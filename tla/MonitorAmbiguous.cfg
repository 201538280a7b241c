SPECIFICATION FairSpec
CONSTANTS
  Attempts = {a1}
  Workers = {w1}
  None = None
  MaxGeneration = 1
  MaxCreated = 3
  MaxFaults = 1
CHECK_DEADLOCK FALSE
PROPERTIES
  AmbiguousCreateReconciled
