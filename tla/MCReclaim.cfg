CONSTANTS
  Readers = {r1, r2}
  Names = {n1, n2, n3}
SPECIFICATION Spec
SYMMETRY Symmetry
INVARIANTS
  ReadsFindFrames
  BackupFindsFrames
  NoLeak
