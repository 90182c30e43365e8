SPECIFICATION Spec
CONSTANTS
  Daemons = {d1, d2}
  Clients = {c1}
  Requests = {"live"}
  Signalled = {d1}
  RawCap = 1
  None = None
  MaxPackets = 1
  MaxFails = 0
  MaxKills = 0
INVARIANT ServesOnItsSocket
