SPECIFICATION FairSpec
CONSTANTS
  d1 = d1
  d2 = d2
  OpType = "batch_inference"
  Deliveries <- One
  Requests <- Either
  MaxLen = 8
  MaxProgress = 1
  Timeout = 1
  MaxClock = 1
  MaxCrashes = 1
  MaxFaults = 1
  MaxUnconfirmed = 0
  Cancellable = TRUE
INVARIANTS
  IInv
  StoppedBeforeReported
  AckedIsFollowed
  FallbackIsTrue
PROPERTIES
  KeepsPromise
  EventuallyServed
  HungJobIsStopped
CHECK_DEADLOCK FALSE
