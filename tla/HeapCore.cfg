SPECIFICATION FairSpec
CONSTANTS
  sc = sc
  o1 = o1
  o2 = o2
  o3 = o3
  Obj <- ObjThree
  DynScope = sc
  Nil = Nil
  MaxStack = 3
  MaxKids = 2
  MaxCache = 1
  CStackLimit = 1
  InitCap = 1
  ScSize = 8
  Features = {"error"}
INVARIANTS
  NoAbort
  NoDangling
  RefcntExplained
  CollectedExactly
  AllFreedAtExit
CHECK_DEADLOCK FALSE
PROPERTIES
  CollectionEnds
  CascadeEnds
  StoreSpec
