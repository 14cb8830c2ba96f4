CONSTANTS
  Txns = {t1, t2}
  Feedbacks = {f1, f2}
  Arms = {a1, a2}
  Scores = {s1, s2}
  NoScore = NoScore
  Absent = Absent
  FeedbackTimeout = 1
  MinTtl = 2
  Postgres = TRUE
  MaxClock = 3
  MaxCrashes = 1
  MaxFaults = 1
  FaultKinds = {"save", "load", "pg"}
SPECIFICATION Spec
SYMMETRY Symmetry
CHECK_DEADLOCK FALSE
INVARIANTS
  TypeOK
  ExclusiveFeedback
  LearnedOnce
  ScoresAreLearned
  AuditTrail
  AnsweredStaysScoreable
  GoneOnlyAfterWindow
  ReservationHasHolder
PROPERTIES
  ConflictsAreReal
