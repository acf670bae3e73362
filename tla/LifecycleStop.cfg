SPECIFICATION Spec
CONSTANTS
  Loops = {l1, l2}
  NULL = NULL
  PollMin = 1
  PollMax = 1
  PollFactor = 2
  MaxRuns = 2
  MaxSignals = 2
CHECK_DEADLOCK FALSE
INVARIANTS StopCutsPauses
