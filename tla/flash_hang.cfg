SPECIFICATION FairSpec
CONSTANTS
  NumberBits = {b0}
PROPERTIES
  EraseAnswers
CHECK_DEADLOCK FALSE
