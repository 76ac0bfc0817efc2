SPECIFICATION FairSpec
CONSTANTS
  NULL = NULL
  Key <- KeysNine
INVARIANTS
  NoAbort
  PointersValid
  Ordered
  Balanced
PROPERTIES
  OperationEnds
