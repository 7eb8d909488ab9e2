SPECIFICATION MCSpec
CONSTANTS
  Threads = {t1, t2}
  Names = {a, b}
  Values = {v}
  DirName = a
  FileName = b
  MaxDepth = 3
  MaxCalls = 5
INVARIANTS
  TypeOK
  IntactUnlessStale
  ExactWhenQuiet
  StuckOnlyBesideChange
PROPERTIES
  AtomicOnDirs
  CallsEnd
CHECK_DEADLOCK FALSE
