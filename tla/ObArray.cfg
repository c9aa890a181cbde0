SPECIFICATION Spec
CONSTANTS
  InitialSize = 10
  Header = 19
  Pointer = 4
  BlockSize = 64
  MaxPushes = 10
INVARIANTS
  ArrayHoldsAllocated
CHECK_DEADLOCK FALSE
