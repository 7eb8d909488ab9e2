SPECIFICATION RSpec
CONSTANTS
  Names = {a, cp}
  Sentinels = {cp}
  Bytes = {x, y}
  BytesPerBlock = 2
  BranchingFactor = 2
  MaxDepth = 2
  MaxBuffer = 3
  MaxSize = 5
  MaxId = 15
INVARIANT
  Recoverable
CHECK_DEADLOCK FALSE
