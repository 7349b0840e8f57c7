SPECIFICATION FairSpec
CONSTANTS
  r1 = r1
  r2 = r2
  r3 = r3
  k1 = k1
  Requests = {r1, r2, r3}
  Workers = {w1, w2}
  KeyOf <- TwinKeys
  NoKey = NoKey
  Nobody = Nobody
  MaxAttempts = 2
  Base = 1
  Cap = 2
  Lease = 1
  Stale = 1
  SendTime = 2
  Noop = FALSE
  MaxCrashes = 1
  Faults <- AllFaults
INVARIANTS
  OneDeliveryPerKey
PROPERTIES
  SweepSparesLiveSends
  SettledIsFinal
  EveryEmailSettles
CHECK_DEADLOCK FALSE
