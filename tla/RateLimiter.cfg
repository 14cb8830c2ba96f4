CONSTANTS
  Instances = {i1, i2}
  Clients = {c1, c2}
  Requests = {r1, r2, r3}
  Limit = 1
  Window = 3
  PruneAbove = 1
  PruneBatch = 1
  MaxDelay = 1
  MaxFaults = 1
  MaxClock = 5
SYMMETRY Symmetry
SPECIFICATION Spec
INVARIANTS MemoryWithinLimit RedisWithinLimit RefusalsAreOwn
PROPERTIES MemoryIsSlidingWindow
CHECK_DEADLOCK FALSE
