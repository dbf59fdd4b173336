SPECIFICATION Spec
CONSTANTS
  Procs = {p1, p2, p3}
  NoProc = NoProc
  Ids = {e1, e2, e3}
  NoEvent = NoEvent
  MaxFailures = 1
INVARIANTS
  IndexSound
  MarkerIsProof
PROPERTY
  AppendsLast
CHECK_DEADLOCK FALSE
SYMMETRY Symmetry
