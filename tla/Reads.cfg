SPECIFICATION PartSpec
CONSTANTS
  Tiers <- MCTiers
  Slots <- MCSlots
  Own = "own"
  Bodies <- MCBodies
  Stores <- MCStores
  Queries <- MCQueries
  Near <- MCNear
  Plain = {"y"}
  FunctionWords = {"not"}
  Negations = {"not"}
  Prep = "draft"
  Final = "sent"
  Depth = 2
  Limit = 2
  Steep = 2
  MaxEdits = 2
  StoreThreads = {t1, t2}
  Batches <- MCBatches
  OtherRows <- MCRows
  Pool = 2
  Matching <- MCMatching
  BadKeys = {"bad"}
  Nothing = Nothing
  MaxOther = 1
  Keys = {1, 2, 3}
  WideKeys = {2}
  EdgeNumbers = {1, 2, 3}
  Limits = {1, 2}
  Texts <- MCTexts
  PageSizes = {2, 3}
  Ended = Ended
  MaxChanges = 2
  Threads = {t1, t2, t3}
  MaxConns = 3
  MaxCloses = 1
  Workers = {w1, w2}
  Accounts = {a1, a2}
  Absent = Absent
  MaxWrites = 3
  MaxCalls = 2
 
INVARIANT ZeroHonest
INVARIANT Tracked
INVARIANT WalksComplete
 
PROPERTY IsKeyValueStore
\* Searches, walks and batches end.
CHECK_DEADLOCK FALSE
