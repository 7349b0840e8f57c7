SPECIFICATION Spec
CONSTANTS
  Tables = {1, 2}
  Keys = {1, 2, 3}
  Values = {"a", "b"}
  Starts <- MCStarts
  Complete = 1
  OsOffset = 3
  BatchSize = 1
  SampleSize = 1
  MaxCommands = 2
  MaxWrites = 2
INVARIANTS
  CopyIsFaithful
PROPERTIES
  TargetIsSafe
  VerifyTellsTruth
CHECK_DEADLOCK FALSE
