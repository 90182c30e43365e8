SPECIFICATION Spec
CONSTANTS
  p1 = p1
  p2 = p2
  Pids <- MCPids
  Sockets <- MCSockets
  Packets <- MCPackets
  LocalAddrs = {"host"}
  Versions = {"v1", "v2", "v3"}
  Stamp <- MCStamp
  Interval = 1
  CacheSize = 1
  MaxTime = 2
  MaxSockets = 2
  MaxReplaced = 1
  None = None
SYMMETRY MCSymmetry
INVARIANT TypeOK
PROPERTIES LooksUpRight IdentityFits
CHECK_DEADLOCK FALSE
