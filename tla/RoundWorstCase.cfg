SPECIFICATION Spec
CONSTANTS
  BatchSize = 4
  Concurrency = 2
  Timeout = 2
  Keys = {k1, k2}
  NULL = NULL
CHECK_DEADLOCK FALSE
INVARIANTS RoundWithinWorstCase
