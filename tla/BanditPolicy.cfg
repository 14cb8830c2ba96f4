CONSTANTS
  Txns = {t1, t2, t3}
  Contexts = {c1, c2}
  Models = {m1, m2}
  TopKs = {k2}
  Latencies = {1, 40}
  LatencyCap = 10
  Certain = 8
  RlEpsilon = 4
  EpsilonMin = 1
  Decay <- MCDecay
  Absent = Absent
  MaxRestarts = 1
SYMMETRY Symmetry
SPECIFICATION Spec
INVARIANTS ArmsAreTheirFeedback EpsilonFollowsUpdates
PROPERTIES FailureIsLastResort
CHECK_DEADLOCK FALSE
