SPECIFICATION Spec
CONSTANTS
  MaxStack = 40
  BtCap = 3
  Keys = {1, 2}
  MaxLines = 6
  Kinds <- KindsPlain
  Reach = {1, 2}
  Counts = {1, 2}
  Args = 1
  Locals = 2
INVARIANTS
  StackDepth
PROPERTY
  FlowSpec
CHECK_DEADLOCK FALSE
