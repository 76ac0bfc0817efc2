SPECIFICATION Spec
CONSTANTS
  sc = sc
  o1 = o1
  o2 = o2
  o3 = o3
  Obj <- ObjThree
  DynScope = sc
  Nil = Nil
  MaxStack = 2
  MaxKids = 2
  MaxCache = 2
  CStackLimit = 1
  InitCap = 1
  ScSize = 8
  Features = {"error", "api", "scope", "tight"}
SYMMETRY Symmetry
CHECK_DEADLOCK FALSE
INVARIANTS
  TypeOK
  RefcntExplained
  CollectedExactly
  TableConsistent
  ScratchFits
  PlacedOnce
