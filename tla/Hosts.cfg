SPECIFICATION PartSpec
CONSTANTS
  h1 = h1
  c1 = c1
  b1 = b1
  s1 = s1
  s2 = s2
  a = a
  b = b
  Hosts = {h1}
  Codes = {c1}
  FlushAt = 2
  Interval = 1
  FirstSave = 2
  DayCap = 2
  SessionCap = 2
  MinPrompts = 1
  MaxWrites = 2
  MaxSaves = 1
  MaxActive = 1
  MaxDays = 2
  MaxLosses = 1
  Buffers = {b1}
  Second = 2
  MaxNow = 6
  Chats = {s1, s2}
  Calls = {a, b}
  NameOf <- MCNames
  ReadOnly = {"memory_search"}
  NMin = 2
  NMax = 3
  MinHits = 2
  Across = 2
  MinSessions = 2
  Week = 1
  MaxAge = 1
  LowCount = 2
  LowAge = 0
  ProposedAge = 0
  TailAge = 0
  MaxCalls = 6
  LastDay = 2
 
 
 
 
 
 
PROPERTY WritesReachFile
CHECK_DEADLOCK FALSE
