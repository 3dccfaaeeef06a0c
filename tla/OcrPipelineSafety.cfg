SPECIFICATION PipelineSpec
CONSTANTS
  Today <- MCToday
  Readings <- MCReadings
  Orgs = {o1, o2}
  NoOrg = none
  ProviderConfs = {0, 40, 90, 9000}
  OcrRows = {r1}
  UsageRows = {u1, u2}
  AuditRows = {a1}
  Cleaners = {c1, c2}
  Batch = 1
SYMMETRY Symmetry
CHECK_DEADLOCK FALSE
INVARIANTS
  SecondPassAgrees
  HighConfidenceIsSound
  MisreadCaught
  FaithfulReadingAccepted
PROPERTIES
  CleanSweepLeavesNothing
