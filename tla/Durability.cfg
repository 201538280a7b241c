SPECIFICATION FairSpec
CONSTANTS
  Workers = {w1, w2}
  MaxOps = 2
  MaxPoints = 2
  MaxResumes = 1
  MaxEpoch = 2
  MaxAttempts = 2
  MaxWrites = 1
  MaxFaults = 1
CHECK_DEADLOCK FALSE
INVARIANTS
  DurabilityInv
  SuspendedIsDurable
  CleanupIsFinal
PROPERTIES
  ResumesExactly
  ResumeDecided
