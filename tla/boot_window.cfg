SPECIFICATION Spec
CONSTANTS
  Wrap = 32
  WAIT = 11
  GRACE = 7
  REPEAT = 11
  DELAY = 2
  Slice = 2
  WriteTime = 2
INVARIANTS
  ClosesOnTime
  ReadyRepeats
  ReadyNotDiscarded
PROPERTIES
  WindowEnds
CHECK_DEADLOCK FALSE
