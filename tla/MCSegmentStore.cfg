CONSTANTS
  b1 = b1
  b2 = b2
  b3 = b3
  x1 = x1
  x2 = x2
  x3 = x3
  Missing = Missing
  Times = {1, 2}
  Batches = {b1, b2, b3}
  Values = {x1, x3}
  Late = {}
  Faults = {}
  MaxGen = 4
  MaxRestarts = 0
  Content <- ThreeContent
SPECIFICATION Spec
CHECK_DEADLOCK FALSE
INVARIANT
  RollupSound
PROPERTY Refinement
