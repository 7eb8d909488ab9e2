SPECIFICATION DeepSpec
CONSTANTS
  Threads = {t1, t2}
  Names = {a, b}
  Values = {v}
  DirName = a
  FileName = b
  MaxDepth = 3
  MaxCalls = 5
INVARIANT
  ParentsAreDirs
CHECK_DEADLOCK FALSE
