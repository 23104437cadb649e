SPECIFICATION FairSpec
CONSTANTS
  Connectors = {c1, c2}
  Logouts = {q1}
  NoOwner = NoOwner
  LockStale = 1
  MaxWait = 2
  Skew = 0
  Lifetime = 2
  HoldLimit = 1
  MaxTime = 3
  MaxLogins = 1
  MaxOrphans = 1
PROPERTIES RequestsEnd
