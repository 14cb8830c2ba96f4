CONSTANTS
  Workers = {w1, w2}
  MaxJobs = 4
  EvictShare = 2
  Submissions = 5
  NoJob = NoJob
  MaxClock = 2
SPECIFICATION FairSpec
CHECK_DEADLOCK FALSE
INVARIANTS
  QueueMatchesLedger
  LedgerBounded
  RefusesOnlyLiveJobs
PROPERTIES
  DropsOldestFinished
  StatusMovesForward
  JobsEnd
