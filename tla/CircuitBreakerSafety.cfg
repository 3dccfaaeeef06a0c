SPECIFICATION FairSpec
CONSTANTS
  Calls = {c1, c2, c3}
  FailureThreshold = 3
  SuccessThreshold = 3
  Cooldown = 2
  AdaptiveTimeout = TRUE
  Timeout = 5
  MinTimeout = 1
  Faults = {"outage", "cancel", "panic", "manual"}
INVARIANTS
  ProbeBudget
  SlotHeldByLiveProbe
PROPERTIES
  OpenUntilCooldown
  RecoversUnlessLeaked
