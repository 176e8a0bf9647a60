SPECIFICATION FairSpec
CONSTANTS
  NumberBits = {b0, b1}
INVARIANTS
  AnswersAreTrue
  CleanWhenIdle
PROPERTIES
  InSequence
  EraseReturns
CHECK_DEADLOCK FALSE
