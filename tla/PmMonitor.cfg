SPECIFICATION Spec
CONSTANTS
  PageCount = 6
  WordSize = 4
  MaxHandles = 3
  Requests <- MCRequests
INVARIANTS
  Exclusive
