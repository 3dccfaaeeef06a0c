SPECIFICATION Spec
CONSTANTS
  Replicas = {n1, n2}
  Sessions = {s1}
  Checks = {c1}
  Logouts = {l1}
  ResetTokens = {t1}
  Confirms = {p1, p2}
  NoOne = NoOne
  Second = 2
  CacheTTL = 2
  ResetTTL = 2
  MaxQuery = 1
  Horizon = 4
  Faults = {"dberror", "restart"}
SYMMETRY Symmetry
CHECK_DEADLOCK FALSE
INVARIANTS
  LagBounded
  RedeemedOnce
