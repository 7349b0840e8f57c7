SPECIFICATION Spec
CONSTANTS
  NSteps = 1
  MaxParts = 2
  MaxParallel = 2
  BreakerThreshold = 5
  MaxRows = 1
  PollCap = TRUE
  Faults <- NoFaults
  QuerySteps <- NoQuery
  ErrorThresholdPct = 10
  AbortOnStepFailure = TRUE
INVARIANTS
  CompletedIsWithinThreshold
CHECK_DEADLOCK FALSE
