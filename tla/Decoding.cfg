SPECIFICATION MCSpec
CONSTANTS
  Frames <- MCFrames
  Samples <- MCSamples
  Needs <- MCNeeds
  Fields <- MCFields
  ValueOf <- MCValueOf
  Holds <- MCHolds
  Joints <- MCJoints
  Atoms <- MCAtoms
  Operands <- MCOperands
  MaxText = 7
  None = None
  Formats <- MCFormats
  Starts <- MCStarts
  Pieces <- MCPieces
  MaxLen <- MCMaxLen
  MaxJumps = 2
  Nothing = Nothing
  Modulus = 10
  Isn = 7
  StreamLen = 4
  Cap = 3
  NoSeq = NoSeq
INVARIANTS
  LayersFit SummaryShows FilterHolds ReadRight FingerprintsHold
  StreamExact NothingWaits MarksOldData
PROPERTY ReadsOn
