SPECIFICATION FairSpec
CONSTANTS
  FlagSignedUpdates = FALSE
  Exe = {e1}
  NoProc = NoProc
  None = None
  org = org
  h1 = h1
  h2 = h2
  Obs <- OneEnd
  Idents = {}
  Window = 1
  Cooldown = 2
  Interval = 1
  MinSamples = 9
  MaxTime = 3
  MaxFails = 0
  MaxCrashes = 1
PROPERTY OpenedWindowEnds
