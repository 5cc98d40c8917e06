CONSTANTS
  Keys = {"a", "b", "seq"}
  SeqKey = "seq"
  Txns = {1, 2, 3}
  Ops <- MeetingOps
  MaxRetries = 1
  Faults = {"definite", "ambiguous"}
  k1 = k1
  k2 = k2
  b1 = b1
  b2 = b2
  b3 = b3
  t1 = t1
  t2 = t2
  c1 = c1
  c2 = c2
  NoOne = NoOne
  NoEntry = NoEntry
  Untagged = Untagged
SPECIFICATION CommitsSpec
SYMMETRY Symmetry
CHECK_DEADLOCK FALSE
INVARIANTS
  TablesSound
  FramesKept
  PoisonStops
PROPERTY
  IsAtomic
