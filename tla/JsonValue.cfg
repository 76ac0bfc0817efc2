SPECIFICATION JsonSpec
CONSTANTS
  DigitMax = 20
  ExpMax = 999
  IntMax = 1000007
  IndentAmount = 1
  Values <- SomeValues
  EncodeDepth = 3
  I64Digits = 19
  CMax = 5
INVARIANTS
  
  EncodesJson
  TestAgrees
  CStackKept
CHECK_DEADLOCK FALSE
