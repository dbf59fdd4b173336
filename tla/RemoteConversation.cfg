SPECIFICATION Spec
CONSTANTS
  Outcomes = {"finished", "error", "paused"}
  MaxLog = 2
  MaxRuns = 1
  MaxFaults = 2
  MaxLag = 1
  MaxChannel = 2
  Fallback = 2
INVARIANTS CallbacksSound NothingMissed
PROPERTY RunReturns
CHECK_DEADLOCK FALSE
