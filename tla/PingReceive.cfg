SPECIFICATION Spec
CONSTANTS
  Threads = {t1, t2, t3}
  Packets <- MCPackets
  MinSize = 2
  BufferSize = 3
INVARIANTS
  OnceEach
  Framed
  OneHandler
PROPERTY
  Delivery
CHECK_DEADLOCK FALSE
