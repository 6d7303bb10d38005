SPECIFICATION PartSpec
CONSTANTS
  f1 = f1
  r1 = r1
  r2 = r2
  o1 = o1
  c1 = c1
  c2 = c2
  TrimFiles = {f1}
  Runs = {r1, r2}
  TextOf <- MCOneText
  Old = {o1}
  Destination = {"memory"}
  MaxBackupsPerFile = 1
  MaxKeys = 1
  MaxStamp = 2
  MaxEdits = 1
  Edits = {e1}
  LastSecond = 1
  MarkersEdited = FALSE
  HostFiles = {guide}
  WiredFiles = {guide}
  Trimmable = {guide}
  Sizes = {2, 3}
  NoCopy = NoCopy
  LastFolder = 1
  MaxRewrites = 3
  MaxStored = 1
SYMMETRY Symmetric
INVARIANT NothingLost
 
INVARIANT NoEditLost
PROPERTY RewriteBackedUp
CHECK_DEADLOCK FALSE
