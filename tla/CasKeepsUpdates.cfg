CONSTANTS
  Instances = {i1, i2}
  Txns = {t1, t2}
  Nil = Nil
  Attempts = 2
  MaxFaults = 0
  MaxRestarts = 0
SPECIFICATION Spec
PROPERTIES CasKeepsUpdates
CHECK_DEADLOCK FALSE
