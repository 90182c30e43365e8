SPECIFICATION CloseSpec
CONSTANTS
  k1 = k1
  k2 = k2
  k3 = k3
  Keys <- OneKey
  LocalEnds <- MixedEnds
  MaxFlows = 1
  Procs = {p1}
  None = None
  MaxPackets = 6
  MaxErrors = 0
INVARIANT LiveIsActive
