SPECIFICATION Spec
CONSTANTS
  MaxId = 4
  Workers = {w1}
  Keys = {k1, k2}
  NULL = NULL
  BatchSize = 2
  Lease = 1
  StrictOrdering = TRUE
  DeleteOnAck = FALSE
  Tables <- MCTables
CHECK_DEADLOCK FALSE
INVARIANTS ScanIsQuery
