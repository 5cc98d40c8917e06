CONSTANTS
  c1 = c1
  c2 = c2
  Callers = {c1, c2}
  MaxCalls = 3
  s1 = s1
  s2 = s2
  Nobody = Nobody
  Sweeps = {s1, s2}
  Aspects = {"a"}
  Order <- OneAspect
  Threshold = 2
  Cooldown = 2
  MaxTime = 4
  MaxPasses = 4
  RowTimes = {1, 2}
  Costs = {1, 2}
  Targets = {0, 2, 3, 4}
  MaxRows = 4
  Last = 2
  Span = 1
  Modes = {"log", "queue"}
  Backfills = FALSE
  CutOff = {"decide", "base", "build", "store", "ack", "move", "extract"}
  Retention = 5
  MaxWrites <- PartWrites
  MaxRuns = 3
  MaxCuts = 1
SPECIFICATION PartsSpec
CHECK_DEADLOCK FALSE
INVARIANTS
  TypesOK
  TrippedIffEarned
  ChunksSound
  ExtractedOnce
  AcknowledgedIsBatched
  OkMeansDurable
PROPERTIES
  NoFsyncAfterFailure
  EveryCallReturns
