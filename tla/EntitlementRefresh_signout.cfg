SPECIFICATION RefreshSpec
CONSTANTS
  w1 = w1
  w2 = w2
  w3 = w3
  s1 = s1
  s2 = s2
  Workers <- MCWorkers
  Sessions <- MCSessions
  Nonces <- MCNonces
  First = s1
  Nobody = Nobody
  NoSession = NoSession
  MaxNotes = 1
  MaxDisturbances = 2
INVARIANT SignOutSticks
\* A signed-out computer has nothing left to do.
CHECK_DEADLOCK FALSE
