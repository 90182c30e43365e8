SPECIFICATION FairSpec
CONSTANTS
  Daemons = {d1}
  Clients = {c1}
  Requests = {}
  Signalled = {}
  RawCap = 1
  None = None
  MaxPackets = 1
  MaxFails = 1
  MaxKills = 0
PROPERTY DeadCaptureEnds
