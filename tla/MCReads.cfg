CONSTANTS
  k1 = k1
  k2 = k2
  b1 = b1
  b2 = b2
  b3 = b3
  t1 = t1
  t2 = t2
  c1 = c1
  c2 = c2
  r1 = r1
  NoOne = NoOne
  NoEntry = NoEntry
  Untagged = Untagged
  Callers = {c1, c2}
  Readers = {r1}
  Batches = {b1, b2, b3}
  Keys = {k1, k2}
  Tags = {t1, t2}
  Key <- ReadKeys
  Tag <- ReadTags
  Chunks <- ReadChunks
  Windows <- OneWindow
  MaxSeries = 2
  Faults = {"commit"}
  MaxCalls = 2
  MaxReads = 2
  MaxRestarts = 1
  Half = 2
  MaxColumn = 4
  Strides = {1, 2, 3}
  Inputs <- UpToThree
  MinSplit = 2
SPECIFICATION ReadsSpec
SYMMETRY Symmetry
CHECK_DEADLOCK FALSE
INVARIANTS
  CatalogFresh
  ReadsSeeAcknowledged
  PruneExact
  OncePerKey
  RepliesHold
  MergeKeepsAnswers
  SearchExact
