SPECIFICATION Spec
CONSTANTS
  Names = {a, b}
  Bytes = {x, y}
  BytesPerBlock = 2
  BranchingFactor = 2
  MaxDepth = 2
  MaxBuffer = 3
  MaxSize = 5
  MaxId = 15
INVARIANTS
  TypeOK
  NoLeak
  NoFault
  TreeShape
  Answers
PROPERTIES
  SharesSiblings
  ImplementsFileSystem
SYMMETRY Symmetry
CHECK_DEADLOCK FALSE
