SPECIFICATION Spec
CONSTANTS
  d1 = d1
  d2 = d2
  OpType = "batch_inference"
  Deliveries <- Two
  Requests <- BothWellFormed
  MaxLen = 8
  MaxProgress = 0
  Timeout = 1
  MaxClock = 1
  MaxCrashes = 1
  MaxFaults = 0
  MaxUnconfirmed = 1
  Cancellable = TRUE
INVARIANTS
  NoOrphan
PROPERTIES
  NoLateStart
CHECK_DEADLOCK FALSE
