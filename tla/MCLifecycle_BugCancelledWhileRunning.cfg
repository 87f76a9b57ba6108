SPECIFICATION Spec
CONSTANTS
  d1 = d1
  d2 = d2
  OpType = "batch_inference"
  Deliveries <- One
  Requests <- WellFormed
  MaxLen = 8
  MaxProgress = 0
  Timeout = 1
  MaxClock = 0
  MaxCrashes = 0
  MaxFaults = 0
  MaxUnconfirmed = 1
  Cancellable = TRUE
INVARIANTS
  StoppedBeforeReported
CHECK_DEADLOCK FALSE
