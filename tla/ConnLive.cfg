SPECIFICATION FairSpec
CONSTANTS
  Plan <- CheckedTurn
  MaxDials = 2
  MaxCredentials = 2
  MaxFailures = 2
  MaxBeats = 0
PROPERTIES
  ImplementsDispatch
  RevokedWorkEnds
CHECK_DEADLOCK FALSE
