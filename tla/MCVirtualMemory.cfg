SPECIFICATION Spec
CONSTANTS
  OFFSET_WIDTH = 2
  PHYSICAL_ADDRESS_WIDTH = 5
  VIRTUAL_ADDRESS_WIDTH = 7
  Addresses = {1, 6, 34, 67, 128}
  Values = {1}
INVARIANTS MemoryTypeOK FramesFormTree WalkStandsOnItsPath OnePlacePerPage SearchFindsFrame
PROPERTIES EvictsOnlyWhenFull ImplementsMemory
