CONSTANTS
  Instances = {i1, i2}
  Txns = {t1, t2}
  Nil = Nil
  Attempts = 3
  MaxFaults = 4
  MaxRestarts = 1
SYMMETRY Symmetry
SPECIFICATION Spec
INVARIANTS PayloadsCoherent AloneNothingIsLost
PROPERTIES ScoredIsBackedUp CasKeepsAlone
CHECK_DEADLOCK FALSE
