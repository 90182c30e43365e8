SPECIFICATION FairSpec
CONSTANTS
  Inputs <- MCInputs
  Counts <- MCCounts
  Channel = 1
  None = None
INVARIANTS PipelineOK DiffIsExact
PROPERTIES ShowsInOrder Ends
CHECK_DEADLOCK FALSE
