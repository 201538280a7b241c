SPECIFICATION FairSpec
CONSTANTS
  Operations = {o1, o2}
  First = o1
  Messages = {m1}
  Tools = {t1}
  None = None
  MaxFrames = 5
  MaxReads = 3
  MaxRetained = 1
CHECK_DEADLOCK FALSE
INVARIANTS
  HonestStream
PROPERTIES
  FramesInOrder
  CloseEndsNext
  InterruptEnds
