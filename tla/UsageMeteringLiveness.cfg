SPECIFICATION FairSpec
CONSTANTS
  NoOne = NoOne
  Extractions = {e1, e2}
  Reads = {g1}
  Remote = {}
  Quota = 1
  MaxInFlight = 2
  BufferSize = 1
  MaxElsewhere = 0
  Cycles = 0
  Faults = {"dberror", "crash", "deadline"}
CHECK_DEADLOCK FALSE
INVARIANTS
  RecordedOnce
  NoSendOnClosed
PROPERTIES
  CleanShutdownKeepsAll
  RecordsSettle
  ShutdownEnds
