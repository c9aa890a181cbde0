SPECIFICATION Spec
CONSTANTS
  Drivers = {33, 40}
  Traps = {3, 227}
  Faults = {0, 14}
  Lines = {0, 1, 4, 8}
  Spurious = {7, 15}
  FirmwareMask <- Firmware
  MaxRaises = 5
INVARIANTS
  PassiveOutsideHandlers
  NoLineLost
  ServiceMatchesHandlers
PROPERTIES
  MaskedNotDelivered
  EveryTickCounted
  EveryLineServed
CHECK_DEADLOCK FALSE
