SPECIFICATION MCSpec
CONSTANTS
  FlagSignedUpdates = FALSE
  Exe = {e1}
  NoProc = NoProc
  None = None
  org = org
  h1 = h1
  h2 = h2
  Obs <- MCObs
  Idents <- TwoHashes
  Window = 1
  Cooldown = 2
  Interval = 1
  MinSamples = 1
  MaxTime = 3
  MaxFails = 1
  MaxCrashes = 1
INVARIANTS
  TypeOK LearningSilence NoveltyAlertsOnce AnnouncedAlerts
  CooldownSpacing StoreConsistent
PROPERTIES ImplementsContract WindowEnds
