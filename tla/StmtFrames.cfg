SPECIFICATION Spec
CONSTANTS
  MaxStack = 26
  BtCap = 3
  Keys = {1, 2}
  MaxLines = 5
  Kinds <- KindsFrames
  Reach = {1}
  Counts = {1, 2}
  Args = 1
  Locals = 2
INVARIANTS
  StackDepth
  NoFault
  FramesChained
  BacktraceExact
PROPERTIES
  LoopVariables
  FlowSpec
CHECK_DEADLOCK FALSE
