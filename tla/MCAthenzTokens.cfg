SPECIFICATION Spec
CONSTANTS
  Order <- Distinct
  Routes <- DistinctRoutes
  NoDomain = NoDomain
  None = None
  Public = Public
  Plain = Plain
  Sessions = {s1, s2}
  Requests = {r1, r2}
  Tools = {"read", "write", "list"}
  Skew = 1
  Lives = {3}
  IdTokenEnd = 2
  SessionEnd = 3
  MaxTime = 2
SYMMETRY Symmetric
INVARIANTS RightToken OneIssuance AnswersUsable
