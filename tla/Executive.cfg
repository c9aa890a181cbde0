SPECIFICATION Spec
CONSTANTS
  Literals <- MCLiterals
  Written <- MCWritten
  Signals = {"a", "b", "c"}
  Locks = {"a", "c"}
  Silent = {"c"}
  Objects = {"disk"}
  Pointer = 2
  StackDepth = 6
  MaxObjects = 4
  MaxListeners = 3
  MaxCalls = 5
INVARIANTS
  UsesWhatExists
  FoundUnderItsName
  InvokesListeners
PROPERTIES
  InvokeReturns
CHECK_DEADLOCK FALSE
