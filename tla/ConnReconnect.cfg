SPECIFICATION Spec
CONSTANTS
  Plan <- OneTurn
  MaxDials = 2
  MaxCredentials = 2
  MaxFailures = 2
  MaxBeats = 1
CHECK_DEADLOCK FALSE
INVARIANTS
  ConnectionInv
  FramesAccepted
  NoAutonomousWork
PROPERTIES
  NewestNotDisplaced
