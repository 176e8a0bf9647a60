SPECIFICATION Spec
CONSTANTS
  CounterMod = 2
  Loops = 3
  RemoteMod = 2
INVARIANTS
  FullRaises
  SuccessWasSent
  LoopbackMatches
PROPERTIES
  ReadsAsQueue
  TestsEnd
