SPECIFICATION FairSpec
CONSTANTS
  Calls = {c1, c2}
  scoped = scoped
  plain = plain
  Tools <- MCTools
  ScopedTools <- MCScopedTools
  Kids = {kid}
  Keys = {k1, k2}
  None = None
  CacheTtl = 1
  FetchTime = 1
  Faults = {"restart", "remove"}
  MaxTime = 2
CHECK_DEADLOCK FALSE
INVARIANTS KeyNotRefused OwnToken FilesInUse
PROPERTIES StaleKeyBounded LeavingEnds
