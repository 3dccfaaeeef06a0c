SPECIFICATION Spec
CONSTANTS
  NoOne = NoOne
  Extractions = {e1, e2, e3}
  Reads = {}
  Remote = {x1, x2}
  Quota = 1
  MaxInFlight = 1
  BufferSize = 1
  MaxElsewhere = 1
  Cycles = 1
  Faults = {"dberror", "crash", "deadline"}
SYMMETRY Symmetry
CHECK_DEADLOCK FALSE
INVARIANTS
  OvershootBounded
