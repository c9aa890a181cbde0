SPECIFICATION Spec
CONSTANTS
  PageCount = 12
  PageSize = 256
  BlockSize = 64
  PoolHeader = 8
  AllocatorHeader = 20
  InitialPages = 4
  GrowPages = 3
  GrowDivisor = 4096
  Null = Null
  Sizes <- MCSizes
  PayloadPages <- MCPayloadPages
  Garbage <- MCGarbage
  MaxChunks = 2
INVARIANTS
  NoOverlap
  HintNeverLow
  OneList
PROPERTIES
  NullOnlyToOversize
  CallsReturn
