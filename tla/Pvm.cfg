SPECIFICATION Spec
CONSTANTS
  Entries = 4
  Directories = 2
  Asked <- MCAsked
  Observed <- MCObserved
  Physical <- MCPhysical
  Attributes <- MCAttributes
  Absent = Absent
  NoPage = NoPage
  Cleared = TRUE
  MaxMaps = 4
INVARIANTS
  Tree
PROPERTIES
  ImplementsAddressSpace
