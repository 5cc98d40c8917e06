CONSTANTS
  Last = 2
  Span = 1
  Modes = {"log"}
  Backfills = TRUE
  CutOff = {}
  Retention = 5
  MaxWrites <- ThreeWrites
  MaxRuns = 3
  MaxCuts = 0
SPECIFICATION PipelineSpec
CHECK_DEADLOCK FALSE
INVARIANT AcknowledgedIsBatched
