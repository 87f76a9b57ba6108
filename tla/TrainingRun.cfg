SPECIFICATION Spec
CONSTANTS
  Rounds = 3
  MaxFaults = 2
INVARIANTS
  IInv
  FirstAndLastReported
  ReaderGoesForward
  FailureNamesStage
PROPERTIES
  Terminates
CHECK_DEADLOCK FALSE
