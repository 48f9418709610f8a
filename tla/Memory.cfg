SPECIFICATION MCSpec
CONSTANTS
  ZoneSize = 19
  Start = 1
  BlockHeader = 1
  Marker = 1
  Align = 2
  MINFRAGMENT = 2
  ZoneRequests = {1, 3, 5}
  u1 = u1
  u2 = u2
  u3 = u3
  User = {u1, u2, u3}
  NULL = NULL
  hunk_size = 38
  HunkHeader = 1
  CacheHeader = 1
  Alignment = 2
  HunkRequests = {1, 3}
  TempRequests = {1, 3}
  CacheRequests = {1, 3}
SYMMETRY Owners
CHECK_DEADLOCK FALSE
INVARIANTS
  MemoryInv
  HeapConsistent
  GivesUpOnlyWhenFull
PROPERTY LeastRecentlyUsedGoes
