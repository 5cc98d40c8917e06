CONSTANTS
  Last = 2
  Span = 1
  Modes = {"log"}
  Backfills = FALSE
  CutOff = {}
  Retention = 2
  MaxWrites <- TwoWrites
  MaxRuns = 5
  MaxCuts = 0
SPECIFICATION PipelineSpec
CHECK_DEADLOCK FALSE
INVARIANT ExtractedOnce
