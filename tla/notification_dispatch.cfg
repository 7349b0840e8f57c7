SPECIFICATION FairDispatchSpec
CONSTANTS
  s1 = s1
  s2 = s2
  Runs = {d1, d2}
  Subs = {s1, s2}
  ChannelOf <- Channels
  TriggerOf <- Triggers
  Engines = {"sqlite", "postgresql"}
  Outcomes <- BothOutcomes
  MaxPosts = 2
  NoHolder = NoHolder
  NoSub = NoSub
  DispatchFaults <- AllFaults
INVARIANTS
  DeliveriesAreRight
PROPERTIES
  EverySubscriberHasItsTurn
  LockIsReleased
CHECK_DEADLOCK FALSE
