SPECIFICATION PartSpec
CONSTANTS
  p1 = p1
  p2 = p2
  r1 = r1
  r2 = r2
  e1 = e1
  local = local
  a = a
  b = b
  Openers = {p1, p2}
  IndexedRows = {r1, r2}
  Legacy = {e1}
  OldStores <- MCOldStores
  MaxFaults = 2
  Unknown = Unknown
  Tenants = {local}
  Relations = {r1}
  Names = {a, b}
  Written = {a}
  Nodes <- MCNodes
  Ids = {1, 2, 3}
  Stores <- MCStores
SYMMETRY Symmetric
INVARIANT ShadowFaithful
INVARIANT CopiedOnce
 
INVARIANT CurrentIsAsserted
INVARIANT NothingDangles
