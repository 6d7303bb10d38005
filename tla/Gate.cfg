SPECIFICATION PartSpec
CONSTANTS
  p1 = p1
  p2 = p2
  s1 = s1
  Procs = {p1}
  Exp = 0
  Og = 1
  Ra = 1
  SkewAhead = 1
  NbfTolerance = 0
  RetryAfterMax = 1
  HwmInterval = 1
  DeniedRetry = 1
  StaleRetry = 1
  FreshRetry = 1
  LockedRetry = 1
  Policies = {"read_only"}
  MaxTime = 2
  MaxSets = 1
  Writers = {p1, p2}
  Stores = {s1}
  StoreOf <- MCOneStore
  Cap = 1
  CeilingMult = 2
  Grace = 1
  CacheWrites = {"done"}
  Terms <- MCTerms
  Sizes = {1}
  MaxSize = 2
  LastHour = 2
INVARIANT CheckInHeals
INVARIANT ReadOnlyHeld
INVARIANT FreeStaysUnderCap
PROPERTY ExpiredSticks
 
