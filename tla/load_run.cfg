SPECIFICATION FairSpec
CONSTANTS
  NSteps = 2
  MaxParts = 2
  MaxParallel = 1
  BreakerThreshold = 1
  MaxRows = 1
  PollCap = TRUE
  Faults <- AllFaults
  QuerySteps <- SecondQuery
  ErrorThresholdPct = 50
  AbortOnStepFailure = FALSE
INVARIANTS
  StepsAreSequential
  SettledWhenAnnounced
  CompletedIsEarned
  DoneIsTerminal
  TripStopsSubmission
  IInv
PROPERTIES
  FinishedRowsAreFinal
  KeepsContract
  RunEnds
CHECK_DEADLOCK FALSE
