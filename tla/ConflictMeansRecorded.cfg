CONSTANTS
  Txns = {t1}
  Feedbacks = {f1, f2}
  Arms = {a1}
  Scores = {s1, s2}
  NoScore = NoScore
  Absent = Absent
  FeedbackTimeout = 2
  MinTtl = 2
  Postgres = FALSE
  MaxClock = 4
  MaxCrashes = 1
  MaxFaults = 0
  FaultKinds = {}
SPECIFICATION FairSpec
CHECK_DEADLOCK FALSE
PROPERTIES
  ConflictMeansRecorded
