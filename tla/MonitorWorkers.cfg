SPECIFICATION Spec
SYMMETRY Identities
CONSTANTS
  Attempts = {a1}
  Workers = {w1, w2}
  None = None
  MaxGeneration = 1
  MaxCreated = 2
  MaxFaults = 1
CHECK_DEADLOCK FALSE
INVARIANTS
  ConfirmedIsGone
  SuspendedOrdersRelease
