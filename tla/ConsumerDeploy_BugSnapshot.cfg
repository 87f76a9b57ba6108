SPECIFICATION Spec
CONSTANTS
  Manifests = {"v1", "v2"}
  Before = "v0"
  MaxCommands = 3
  MaxJobs = 1
  MaxFaults = 1
  MaxKills = 1
  MaxReplacements = 1
INVARIANTS
  SnapshotSurvives
CHECK_DEADLOCK FALSE
