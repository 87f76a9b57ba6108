\* One Training operation: three reporters, four threads, a stream of two
\* entries so that MAXLEN trims it.
SPECIFICATION Spec
CONSTANTS
  OpType = "training"
  Reporters <- MCReporters
  Threads <- MCThreads
  ReporterOf <- MCReporterOf
  Controlled <- MCControlled
  CallSites <- TrainingSites
  Phases <- TrainingPhaseArgs
  MaxLen = 2
  MaxEvents = 2
INVARIANTS
  BeliefSound
  IInv
PROPERTIES
  KeepsPromise
