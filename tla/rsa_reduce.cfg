SPECIFICATION Spec
CONSTANTS
  LimbBits = 3
  KeyLimbs = 2
  MaxLimbs = 2
  Keys <- MCFullKey
  Messages = {2, 14, 31, 47, 50, 53, 54}
INVARIANT OpIsPower
CHECK_DEADLOCK FALSE
