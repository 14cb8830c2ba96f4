CONSTANTS
  Hosts <- MCHosts
  FallbackFinds <- MCFallbackFinds
  Services = {"platform", "payments"}
  Platform = "platform"
  None = "none"
  Blank = "blank"
  MaxSteps = 3
SPECIFICATION Spec
INVARIANT FailsOnlyUnreached
CHECK_DEADLOCK FALSE
