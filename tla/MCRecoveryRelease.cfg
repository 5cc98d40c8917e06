CONSTANTS
  f1 = f1
  f2 = f2
  NoFrame = NoFrame
  Frames = {f1, f2}
  Tagged = {f1}
  MaxId = 4
  Torn = FALSE
  CutOff = {"open", "restore", "fsck", "ttl", "purge", "release"}
  Budget <- Once
SPECIFICATION Spec
CHECK_DEADLOCK FALSE
INVARIANT
  SuspectKept
