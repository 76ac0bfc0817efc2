SPECIFICATION DictSpec
CONSTANTS
  NULL = NULL
  Key <- KeysFour
  Value = {v, w}
  MaxSz = 5
  Loops = {1}
INVARIANTS
  DictTypeOK
  NeighboursExact
PROPERTIES
  LoopExact
  MapSpec
SYMMETRY Symmetry
