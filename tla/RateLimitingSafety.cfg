SPECIFICATION RSpec
CONSTANTS
  Calls = {c1, c2}
  MaxLimit = 2
  Limits = {1, 2}
  Window = 2
  Second = 1
  DBTimeout = 1
  Horizon = 2
  MaxHits = 2
  Faults = {"dberror"}
  Replicas = {r1}
  MaxRestarts = 1
SYMMETRY Symmetry
CHECK_DEADLOCK FALSE
INVARIANTS
  GrantsWithinLimit
  FullBeforeRefusal
  FlappingBounded
