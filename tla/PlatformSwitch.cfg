SPECIFICATION Spec
CONSTANTS
  Configs = {"c1", "c2"}
  MaxReplicas = 2
  MaxCommands = 3
  MaxFaults = 2
  MaxKills = 1
  MaxEdits = 2
INVARIANTS
  NeverBoth
  RollbackLeadsBack
  IInv
PROPERTIES
  OthersAreLeftAlone
  CheckedBeforeStart
  StoppedWhenIdle
CHECK_DEADLOCK FALSE
