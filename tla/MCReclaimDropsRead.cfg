CONSTANTS
  Readers = {r1}
  Names = {n1, n2}
SPECIFICATION SpecDrops
INVARIANT ReadsFindFrames
