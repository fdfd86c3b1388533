SPECIFICATION Spec
CONSTANTS
  Writers = {g1, g2}
  nMaxFileSize = 1
  nMaxRollupNums = 2
  Depth = 1
  MaxFiles = 5
  MaxLines = 10
  MaxStops = 1
SYMMETRY Symmetry
CHECK_DEADLOCK FALSE
INVARIANTS
  BackupsInOrder
  BoundedFile
  OnlyOldestLost
  KeepsEnough
