SPECIFICATION Spec
CONSTANTS
    Step = Step
    other = other
    Callers = {Step, other}
    Backends = {"local", "s3"}
    MaxRetries = 2
    Lifetime = 4
    Cached = {0, 1, 3}
    Buffer = 1
    Broken <- MCBroken
    MaxPoll = 2
    MinPart = 2
    MaxPages = 2
    MaxRows = 2
    MaxTime = 2
    MaxStore = 1
INVARIANTS
  ResultIsWhole
  LeftoversAreKnown
PROPERTIES
  TokenLasts
  QueryEnds
CHECK_DEADLOCK FALSE
