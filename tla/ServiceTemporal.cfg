CONSTANTS
  Txns = {t1, t2}
  Feedbacks = {f1, f2}
  Arms = {a1}
  Scores = {s1, s2}
  NoScore = NoScore
  Absent = Absent
  FeedbackTimeout = 1
  MinTtl = 1
  Postgres = FALSE
  MaxClock = 2
  MaxCrashes = 1
  MaxFaults = 1
  FaultKinds = {"save"}
SPECIFICATION FairSpec
CHECK_DEADLOCK FALSE
PROPERTIES
  ImplementsContract
  LearnsInWindow
  ReservationsResolve
