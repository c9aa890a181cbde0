SPECIFICATION Spec
CONSTANTS
  Base = 2
  Word = 64
  SectorSize = 4
  Archives <- MCArchives
  Failures = {"busy", "done"}
INVARIANTS
  ReadsAskedSector
  FileDelivered
  FitsBuffer
PROPERTIES
  Answers
CHECK_DEADLOCK FALSE
