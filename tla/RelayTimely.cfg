SPECIFICATION FairSpec
CONSTANTS
  MaxId = 3
  Workers = {w1, w2}
  Keys = {k1}
  NULL = NULL
  BatchSize = 2
  Lease = 1
  StrictOrdering = TRUE
  DeleteOnAck = TRUE
  MaxAttempts = 2
  Concurrency = 1
  Delays = {1}
  Timely = TRUE
  MaxClaims = 4
  MaxFaults = 1
CHECK_DEADLOCK FALSE
INVARIANTS RoundHoldsLease AttemptsCountTries AttemptsBounded NoDuplicates
PROPERTIES EverySettled
