SPECIFICATION Spec
CONSTANTS
  Deployments = {"local", "server"}
  MaxCalls = 2
  MaxEvents <- MCMaxEvents
  MaxCrashes <- MCMaxCrashes
  MaxLost <- MCMaxLost
INVARIANTS
  BranchSound
  
  
  ForkKeepsBranches
CHECK_DEADLOCK FALSE
