SPECIFICATION PrintSpec
CONSTANTS
  XLength = 40
  YLength = 48
  XFont = 8
  YFont = 16
  IntBits = 5
  HalfBits = 4
  BufferDigits = 4
  Prefix <- MCPrefix
  Messages <- MCMessages
INVARIANTS
  InsideFramebuffer
  PrintedAsAsked
  NumbersReadBack
  RoutinesExact
  ArithmeticExact
PROPERTIES
  PrintReturns
CHECK_DEADLOCK FALSE
