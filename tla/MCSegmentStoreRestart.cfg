CONSTANTS
  b1 = b1
  b2 = b2
  b3 = b3
  x1 = x1
  x2 = x2
  x3 = x3
  Missing = Missing
  Times = {1, 2}
  Batches = {b1, b2}
  Values = {x1, x2}
  Late = {b2}
  Faults = {"write", "sync", "commit", "drop"}
  MaxGen = 3
  MaxRestarts = 1
  Content <- TwoContent
SPECIFICATION Spec
CHECK_DEADLOCK FALSE
INVARIANTS
  RowsDurable
  ChangesComplete
  NoResurrection
  AllocatorsAhead
PROPERTY Refinement
