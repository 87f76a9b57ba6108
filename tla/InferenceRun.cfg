SPECIFICATION Spec
CONSTANTS
  Total = 5
  Kept = 3
  BatchSize = 4
  Interval = 2
  MaxRetries = 2
  MaxFaults = 2
INVARIANTS
  IInv
  WrittenAtMostOnce
  CountsAreTrue
  ReaderGoesForward
PROPERTIES
  Terminates
CHECK_DEADLOCK FALSE
