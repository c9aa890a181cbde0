SPECIFICATION Spec
CONSTANTS
  InitialSize = 5
  Header = 39
  Pointer = 4
  BlockSize = 64
  MaxPushes = 7
INVARIANTS
  KeptInOrder
  SlotBelowAllocated
PROPERTIES
  PushesReturn
CHECK_DEADLOCK FALSE
