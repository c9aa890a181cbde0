SPECIFICATION BootSpec
CONSTANTS
  Entries = 4
  Directories = 2
  Asked <- MCVirtual
  Observed <- MCVirtual
  Physical <- MCVirtual
  Attributes <- MCAttributes
  Absent = Absent
  NoPage = NoPage
  Cleared = TRUE
  MaxMaps = 32
  LoaderPages <- MCLoaderPages
  KernelPages <- MCKernelPages
  Framebuffers <- MCFramebuffers
INVARIANTS
  WindowOpen
  PrintsReachScreen
PROPERTIES
  SwitchKeepsPages
  Boots
CHECK_DEADLOCK FALSE
