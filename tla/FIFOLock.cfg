SPECIFICATION FairLockSpec
CONSTANTS
  Threads = {t1, t2, t3}
  NoThread = NoThread
  MaxDepth = 2
INVARIANTS
  NoLostWakeup
  DepthAgrees
PROPERTIES
  ImplementsFairMutex
  WaiterServed
