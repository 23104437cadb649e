SPECIFICATION Spec
CONSTANTS
  Connectors = {c1, c2}
  Logouts = {q1}
  NoOwner = NoOwner
  LockStale = 2
  MaxWait = 3
  Skew = 1
  Lifetime = 3
  HoldLimit = 1
  MaxTime = 3
  MaxLogins = 2
  MaxOrphans = 0
SYMMETRY Symmetric
INVARIANTS LockDiscipline OneBrowserFlow
 
