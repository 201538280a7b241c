SPECIFICATION Spec
CONSTANTS
  Executions = {e1, e2}
  Attempts = {a1}
  Refs = {r1}
  Clients = {c1, c2}
  None = None
  MaxGeneration = 2
  MaxVersion = 4
  MaxAttemptVersion = 2
SYMMETRY Identities
CHECK_DEADLOCK FALSE
INVARIANTS
  SingleWriter
  FenceInv
PROPERTIES
  LegalHistory
  ImplementsWriterEpoch
