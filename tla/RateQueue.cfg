SPECIFICATION Spec
CONSTANTS
  Callers = {c1, c2, c3}
  MaxAdds = 4
INVARIANTS
  InOrder
  QuietAfterJoin
PROPERTIES
  StopReturns
  WorkRuns
CHECK_DEADLOCK FALSE
