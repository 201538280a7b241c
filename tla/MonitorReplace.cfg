SPECIFICATION FairSpec
CONSTANTS
  Attempts = {a1, a2}
  Workers = {w1}
  None = None
  MaxGeneration = 1
  MaxCreated = 2
  MaxFaults = 1
CHECK_DEADLOCK FALSE
INVARIANTS
  MonitorInv
  OneComputePerExecution
PROPERTIES
  ImplementsWriterEpoch
  CleanupResolved
  LossNoticed
