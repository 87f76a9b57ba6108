--------------------------- MODULE MCEventStream ---------------------------
(***************************************************************************)
(* The reporters of one operation and the calls the code makes on them.    *)
(***************************************************************************)
EXTENDS EventStream

MCReporters  == {"admission", "watcher", "driver"}
MCThreads    == {"admission", "watcher", "driver", "pump"}
MCReporterOf == [t \in MCThreads |-> IF t = "pump" THEN "driver" ELSE t]
MCControlled == {"driver"}

Site(by, call, phase, code, rows) ==
  [by |-> by, call |-> call, phase |-> phase, code |-> code, rows |-> rows]

TrainingSites ==
  {Site("admission", "ACCEPTED", "ADMITTED", "", NoRows),
   Site("watcher", "CANCELLED", "CANCELLED", "", NoRows),
   Site("driver", "PHASE", "EXECUTING", "", NoRows),
   Site("driver", "FAILED", "TRAINING", "TRAINING_OOM", NoRows),
   Site("driver", "COMPLETED", "COMPLETED", "", NoRows),
   Site("pump", "METRICS", "EXECUTING", "", 5)}

TrainingPhaseArgs  == {"EXECUTING"}
=============================================================================
