SPECIFICATION FairSpec
CONSTANTS
  NSteps = 1
  MaxParts = 2
  MaxParallel = 2
  BreakerThreshold = 0
  MaxRows = 1
  PollCap = TRUE
  Faults <- AllFaults
INVARIANTS
  RetryIsSound
PROPERTIES
  KeepsContract
  RetryEnds
CHECK_DEADLOCK FALSE
