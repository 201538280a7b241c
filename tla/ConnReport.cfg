SPECIFICATION Spec
CONSTANTS
  Plan <- OneStart
  MaxDials = 2
  MaxCredentials = 2
  MaxFailures = 2
  MaxBeats = 0
INVARIANTS
  StoppedReportsAreTrue
CHECK_DEADLOCK FALSE
