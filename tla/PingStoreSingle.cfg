SPECIFICATION Spec
CONSTANTS
  Clients = {c1, c2}
  IdSpace = 3
  Duplicate = FALSE
  MaxAsk = 2
  MaxLost = 0
INVARIANTS
  TypeOK
  Custody
  WaitersMatch
  ResponseExact
PROPERTIES
  ReadersServed
  ImplementsBlockStore
  FreedLeavesNetwork
