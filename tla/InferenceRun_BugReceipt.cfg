SPECIFICATION Spec
CONSTANTS
  Total = 1
  Kept = 1
  BatchSize = 1
  Interval = 1
  MaxRetries = 0
  MaxFaults = 0
INVARIANTS
  ConfirmedIsReported
CHECK_DEADLOCK FALSE
