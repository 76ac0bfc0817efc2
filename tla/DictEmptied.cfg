SPECIFICATION DictSpec
CONSTANTS
  NULL = NULL
  Key <- KeysFour
  Value = {v}
  MaxSz = 3
  Loops = {1}
INVARIANTS
  LoopSafe
