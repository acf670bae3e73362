SPECIFICATION Spec
CONSTANTS
  Loops = {l1}
  NULL = NULL
  PollMin = 1
  PollMax = 3
  PollFactor = 2
  MaxRuns = 1
  MaxSignals = 3
CHECK_DEADLOCK FALSE
PROPERTIES CancelEndsRun
