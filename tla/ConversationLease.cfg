SPECIFICATION FairSpec
CONSTANTS
  s1 = s1
  s2 = s2
  s3 = s3
  h1 = h1
  h2 = h2
  Servers = {s1, s2, s3}
  NoServer = NoServer
  Hosts = {h1, h2}
  NoHost = NoHost
  TTL = 2
  ReusedPids = {s2, s3}
  SlowStart = TRUE
  Lingering = TRUE
  MaxInstances = 3
  MaxTakeovers = 3
  Host <- MCHost
INVARIANTS
  WritesFenced
PROPERTIES
  OwnerKeepsLease
  TakenOver
CHECK_DEADLOCK FALSE
