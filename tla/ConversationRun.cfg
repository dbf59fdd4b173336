SPECIFICATION FairSpec
CONSTANTS
  Settings <- MCSettings
  Modes = {"sync", "async"}
  MaxMessages = 2
  MaxIterations = 2
  MaxRuns = 3
INVARIANTS
  RestSound
PROPERTIES
  PauseHoldsLoop
  WaitingIsCurrent
  CallsRunOnce
  RunEnds
CHECK_DEADLOCK FALSE
