SPECIFICATION MCSpec
CONSTANTS
  d1 = d1
  d2 = d2
  c1 = c1
  c2 = c2
  Daemons = {d1, d2}
  Clients = {c1, c2}
  Requests = {"stop", "live"}
  Signalled = {d1, d2}
  RawCap = 1
  None = None
  MaxPackets = 3
  MaxFails = 1
  MaxKills = 1
INVARIANT SocketRight
PROPERTIES ShutsDown Answered
