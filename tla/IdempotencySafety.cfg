SPECIFICATION MCSpec
CONSTANTS
  NoOne = NoOne
  Requests = {r1, r2, r3}
  Bodies = {b1, b2}
  ReplayTTL = 2
  MaxHandler = 1
  Faults = {"cancel", "crash", "panic", "dberror", "seal"}
CHECK_DEADLOCK FALSE
INVARIANTS
  ServedOwnsRecord
  MemoryKeyIsServed
PROPERTIES
  AtMostOncePerTTL
  ImplementsContract
  KeyComesFree
