SPECIFICATION FairSpec
CONSTANTS
  Loops = {l1}
  NULL = NULL
  PollMin = 1
  PollMax = 3
  PollFactor = 2
  MaxRuns = 2
  MaxSignals = 3
CHECK_DEADLOCK FALSE
INVARIANTS TypeOK WakeNotLost StopCutsPauses
PROPERTIES StopEnds LeavingEnds SecondSignalEnds
