SPECIFICATION RefreshSpec
CONSTANTS
  w1 = w1
  w2 = w2
  w3 = w3
  s1 = s1
  s2 = s2
  Workers <- MCThree
  Sessions <- MCSessions
  Nonces <- MCManyNonces
  First = s1
  Nobody = Nobody
  NoSession = NoSession
  MaxNotes = 2
  MaxDisturbances = 0
SYMMETRY Symmetric
INVARIANT DenialSticks
PROPERTY UndisturbedPassKept
\* A signed-out computer has nothing left to do.
CHECK_DEADLOCK FALSE
