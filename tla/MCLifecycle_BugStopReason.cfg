SPECIFICATION Spec
CONSTANTS
  d1 = d1
  d2 = d2
  OpType = "training"
  Deliveries <- One
  Requests <- WellFormed
  MaxLen = 8
  MaxProgress = 0
  Timeout = 1
  MaxClock = 2
  MaxCrashes = 1
  MaxFaults = 0
  MaxUnconfirmed = 0
  Cancellable = TRUE
INVARIANTS
  StopReasonKept
CHECK_DEADLOCK FALSE
