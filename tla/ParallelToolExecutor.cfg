SPECIFICATION FairSpec
CONSTANTS
  Callers = {1, 2, 3, 4, 5}
  Keys = {1, 2}
  LockIds = {l1, l2, l3}
  NoCaller = NoCaller
  NoLock = NoLock
  NoKey = NoKey
  Batches <- MCBatches
  LockKeys <- MCLockKeys
  MaxWorkers = 2
INVARIANTS
  LocksSound
  BodiesExclude
  BatchSound
  LateToolsBounded
PROPERTIES
  KeyServedInOrder
  BatchEnds
CHECK_DEADLOCK FALSE
