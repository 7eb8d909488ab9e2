SPECIFICATION Spec
CONSTANTS
  Clients = {c1, c2}
  IdSpace = 3
  Duplicate = TRUE
  MaxAsk = 2
  MaxLost = 2
INVARIANTS
  Custody
  Survival
  WaitersMatch
  ResponseExact
PROPERTIES
  ReadersServed

