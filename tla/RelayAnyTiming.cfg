SPECIFICATION Spec
CONSTANTS
  MaxId = 2
  Workers = {w1, w2}
  Keys = {k1}
  NULL = NULL
  BatchSize = 2
  Lease = 1
  StrictOrdering = TRUE
  DeleteOnAck = FALSE
  MaxAttempts = 2
  Concurrency = 2
  Delays = {1}
  Timely = FALSE
  MaxClaims = 3
  MaxFaults = 1
CHECK_DEADLOCK FALSE
SYMMETRY Symmetry
INVARIANTS TypeOK DeadOnlyAfterMaxAttempts FirstDeliveryOrder NoOvertaking NoneLost
PROPERTIES LeaseFenced VerdictFinal KeepsContract
