SPECIFICATION ViewSpec
CONSTANTS
  MaxSize = 5
  KeepFirst = 0
  MaxHistory = 7
  LoadMidCall = FALSE
INVARIANTS RebuiltAcceptable CachedIsRebuilt
CHECK_DEADLOCK FALSE
