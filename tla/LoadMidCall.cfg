SPECIFICATION ViewSpec
CONSTANTS
  MaxSize = 4
  KeepFirst = 0
  MaxHistory = 6
  LoadMidCall = TRUE
INVARIANT CachedAcceptable
CHECK_DEADLOCK FALSE
