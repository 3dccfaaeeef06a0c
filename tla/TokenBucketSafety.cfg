SPECIFICATION BucketSpec
CONSTANTS
  NoBucket = NoBucket
  Callers = {c1, c2}
  Buckets = {x1, x2, x3}
  MaxLimit = 2
  Limits = {1, 2}
  Period = 3
  MaxIdle = 8
  MaxDelay = 1
  MaxWatch = 4
SYMMETRY Symmetry
CHECK_DEADLOCK FALSE
INVARIANTS
  RateBounded
PROPERTIES
  RetryAfterSuffices
