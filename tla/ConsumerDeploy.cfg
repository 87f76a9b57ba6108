SPECIFICATION Spec
CONSTANTS
  Manifests = {"v1", "v2"}
  Before = "v0"
  MaxCommands = 4
  MaxJobs = 2
  MaxFaults = 2
  MaxKills = 1
  MaxReplacements = 1
INVARIANTS
  IInv
  OneConsumer
  JournalLeadsBack
PROPERTIES
  StartsWhenIdle
  ReplacedIsLeftAlone
CHECK_DEADLOCK FALSE
