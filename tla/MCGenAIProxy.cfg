SPECIFICATION MeterSpec
CONSTANTS
  Projects = {spire, other}
  Limited = {spire}
  Limit = 2
  Requests = {r1, r2}
  MaxCost = 1
  NoProject = NoProject
  LastDay = 1
  MaxSpend = 4
SYMMETRY Symmetric
CHECK_DEADLOCK FALSE
INVARIANTS  NeverOvercharged 
