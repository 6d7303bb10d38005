SPECIFICATION BothSpec
CONSTANTS
  a = a
  b = b
  Computers = {a, b}
  MaxSession = 3
  FreeLimit = 1
  PaidLimit = 2
  Accounts = {a, b}
  EntityNames = {"k"}
  DocNames = {"d"}
  MaxRows = 3
  MaxEdges = 1
INVARIANT SlotsAccounted
 
PROPERTY EdgesKeepTheirEnds
CHECK_DEADLOCK FALSE
