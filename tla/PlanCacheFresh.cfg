SPECIFICATION Spec
CONSTANTS
  Calls = {c1, c2}
  Plans = {free, pro}
  Default = free
  TTL = 3
  MaxQuery = 2
  Faults = {"dberror"}
SYMMETRY Symmetry
CHECK_DEADLOCK FALSE
INVARIANTS
  WrongWithinTwoTTL
