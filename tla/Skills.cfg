SPECIFICATION PartSpec
CONSTANTS
  l1 = l1
  l2 = l2
  v1 = v1
  v2 = v2
  edit = edit
  loop = loop
  i1 = i1
  i2 = i2
  Learners = {l1, l2}
  Reviewers = {v1, v2}
  Slugs = {edit, loop}
  Signals = {loop}
  MinHits = 2
  BatchCap = 2
  MaxPerRun = 1
  CoolOff = 2
  MuteCount = 2
  MaxEvents = 3
  MaxProposals = 3
  MaxTime = 4
  Installers = {i1, i2}
  Drafts = {d1}
  NewestShipped = 2
SYMMETRY Symmetric
INVARIANT AskedOnce
INVARIANT RejectionHeeded
INVARIANT NothingSkipped
INVARIANT EditsStay
