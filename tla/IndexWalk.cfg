SPECIFICATION Spec
CONSTANTS
  Cells = {1, 2, 3, 4}
  MaxDepth = 2
  Limit = 3
  MaxList = 2
  Hives <- MCHives
INVARIANTS
  TypeOK
  BoundedRecursion
  Ranked
  CountIsBound
  WalkIsCheap
  SoundIsAccepted
CHECK_DEADLOCK FALSE
