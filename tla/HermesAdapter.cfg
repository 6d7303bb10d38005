SPECIFICATION HermesSpec
CONSTANTS
  SessionIds = {s1, s2}
  FirstSession = s1
  Attempts = 2
  MaxTurns = 2
  MaxFlushes = 1
  MaxHostCalls = 1
  MaxGate = 1
INVARIANT TurnOnce
PROPERTY WritersEnd
CHECK_DEADLOCK FALSE
