SPECIFICATION Spec
CONSTANTS
    r1 = r1
    r2 = r2
    Requests = {r1, r2}
    IpLimit = 4
    UserLimit = 2
    RateWindow = 1
    Tier1Threshold = 2
    Tier1Window = 2
    Tier1Lock = 2
    Tier2Threshold = 4
    Tier2Locks = 2
    Tier2Window = 2
    MfaTtl = 2
    MaxCalls = 5
    MaxTime = 4
    MaxMints = 2
SYMMETRY Interchangeable
INVARIANTS
  GuessesAreBounded
  CodesAreSpent
PROPERTIES
  LiveLockStays
CHECK_DEADLOCK FALSE
