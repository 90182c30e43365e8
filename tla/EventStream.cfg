SPECIFICATION MCSpec
CONSTANTS
  k1 = k1
  k2 = k2
  k3 = k3
  Keys = {k1, k2, k3}
  LocalEnds <- MixedEnds
  MaxFlows = 2
  Procs = {}
  None = None
  MaxPackets = 4
  MaxErrors = 1
  QueueCap = 2
  PipeCap = 1
  MaxRefreshes = 1
INVARIANTS
  LiveIsExact RowsAccountForFlows OneIdEach ClosedIsKept
  ViewInSync ClosedStaysClosed
PROPERTIES StreamMatchesTable ClosedArrives
