SPECIFICATION Spec
CONSTANTS
  Nodes = {0, 1}
  Subscribed = {0}
  ModeBits <- MCModeBits
  Contents <- MCContents
  MaxHigh = 4
  MaxBlocks = 4
  MaxStarts = 2
INVARIANTS
  TypeOK
  IdsDistinct
  IdsFollow
  KeepsBlocks
  ArrivesAsMade
CHECK_DEADLOCK FALSE
