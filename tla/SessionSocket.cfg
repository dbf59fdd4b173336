SPECIFICATION Spec
CONSTANTS
  MaxEvents = 5
  MaxPending = 2
  MaxDrops = 2
  LiveOnly = TRUE

PROPERTIES ResumeLosesNothing CaughtUp
CHECK_DEADLOCK FALSE
