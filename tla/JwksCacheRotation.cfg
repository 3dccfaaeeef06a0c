SPECIFICATION FairSpec
CONSTANTS
  Calls = {c1, c2}
  NoCall = NoCall
  Kids = {k1, k2}
  NoKid = NoKid
  MinInterval = 2
  FetchTimeout = 3
  Faults = {"outage", "disconnect"}
INVARIANTS
  WaitForOneFetch
PROPERTIES
  NewKeysAreServed
  FetchesSpaced
  NewKeyArrives
