CONSTANTS
  f1 = f1
  f2 = f2
  NoFrame = NoFrame
  Frames = {f1, f2}
  Tagged = {f1}
  MaxId = 4
  Torn = FALSE
  CutOff = {"open", "restore", "fsck", "ttl", "purge"}
  Budget <- OneEach
  dev = dev
  this = this
  next = next
  newest = newest
  NoBuild = NoBuild
  Builds = {dev, this, next, newest}
  Layout <- Layouts4
  Registered <- Registered4
  LayoutOf <- LayoutsOf
  FloorOf <- FloorsOf
  OlderSafe = {4}
  Checked = {2}
  MaxUuid = 3
  MaxOpens = 5
  Keep = 1
  SweepAge = 2
  Tolerance = 1
  Unsynced = FALSE
  MaxDirs = 3
  MaxTime = 3
  MaxCuts = 1
SPECIFICATION RootSpec
CHECK_DEADLOCK FALSE
INVARIANTS
  WellTyped
  GateHolds
  RefusalChangesNothing
  Rederived
  OneRowPerFrame
  HealthyStaysReadable
  SuspectKept
  QuarantineListed
  RestoreBinds
  BackupsSound
PROPERTY
  RowsLeaveRecorded
