SPECIFICATION Spec
CONSTANTS
  MaxStack = 40
  BtCap = 3
  Keys = {1, 2}
  MaxLines = 5
  Kinds <- KindsNested
  Reach = {1, 2}
  Counts = {1, 2}
  Args = 1
  Locals = 2
INVARIANT
  StackDepth
CHECK_DEADLOCK FALSE
