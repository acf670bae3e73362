SPECIFICATION Spec
CONSTANTS
  MaxId = 2
  Workers = {w1, w2}
  Keys = {k1}
  NULL = NULL
  BatchSize = 2
  Lease = 2
  Delays = {1}
  Options <- MCOptions
  SlowestTx = 1
  Timely = TRUE
  MaxClaims = 2
  MaxTime = 3
SYMMETRY Symmetry
INVARIANTS TypeOK KeyTakenWhole NoneSlipsIn
PROPERTIES LeaseFenced HoldsBack
