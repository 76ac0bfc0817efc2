SPECIFICATION TextSpec
CONSTANTS
  DigitMax = 3
  ExpMax = 50
  IntMax = 1007
  Handled <- AllHandled
  Typed <- AllTyped
  MaxText = 6
  MaxBuf = 3
INVARIANTS
  PushPullAgree
  AcceptedExactly
  NumberExact
PROPERTIES
  PushWalksATree
  PullWalksATree
CHECK_DEADLOCK FALSE
