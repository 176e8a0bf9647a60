SPECIFICATION Spec
CONSTANTS
  PinCalls <- MCPinCalls
  UsartSides <- MCUsartSides
  Presses = 3
  Length = 3
  Calls = 2
  Period = 4
  TickMod = 4
  CycleMod = 9
  MicroMod = 13
  Delays = {1, 2, 3}
  Horizon = 15
  BlockWords = 2
  Lengths = {0, 1, 7, 8, 12, 13, 20, 23}
  MaxMessages = 2
  Blocks = 3
  Faults = 2
  LimbBits = 3
  KeyLimbs = 2
  MaxLimbs = 3
  Keys <- MCKeys
  Messages = {0, 1, 2, 3, 13, 14, 31, 32, 33, 34, 47, 54, 63}
  Bytes = {0, 1, 128, 165, 255}
  Longest = 3
  Typed = 2
  Line = 1
  Block = 2
INVARIANTS
  LinkIsClean
  PinsAsAsked
  BufferIsOwned
  DigestOfMessage
  CipherIsRight
  OpIsPower
  UnitIsLoop
PROPERTIES
  PressAnswered
  TimeIsKept
  CallsReturn
CHECK_DEADLOCK FALSE
