CONSTANTS
  f1 = f1
  f2 = f2
  NoFrame = NoFrame
  Frames = {f1, f2}
  Tagged = {f1}
  MaxId = 4
  Torn = TRUE
  CutOff = {"open", "restore", "fsck", "ttl", "purge"}
  Budget <- Once
SPECIFICATION Spec
CHECK_DEADLOCK FALSE
INVARIANT
  HealthyStaysReadable
