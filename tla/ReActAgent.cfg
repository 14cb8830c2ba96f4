CONSTANTS
  Hosts <- MCHosts
  FallbackFinds <- MCFallbackFinds
  Services = {"platform", "payments"}
  Platform = "platform"
  None = "none"
  Blank = "blank"
  MaxSteps = 3
SPECIFICATION FairSpec
INVARIANTS EffortBounded CallsAreSound FallbackReported OfflineDoesAsAsked FailsForAReason
PROPERTIES RunEnds
CHECK_DEADLOCK FALSE
