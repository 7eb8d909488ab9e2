SPECIFICATION Spec
CONSTANTS
  Clients = {c1, c2}
  IdSpace = 3
  Duplicate = TRUE
  MaxAsk = 2
  MaxLost = 0
PROPERTY
  FreedDiscarded
