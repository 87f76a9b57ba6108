--------------------------- MODULE KnovaProtocol ---------------------------
(***************************************************************************)
(* The vocabulary of KnoVa protocol v2 and the way reporter.py serialises  *)
(* a broker lifecycle call into an event: the phase tables, the error      *)
(* codes, the event builders.  Payload text, timestamps and durations are  *)
(* left out; of the progress fields one number, "rows", is kept, because   *)
(* the snapshot a reporter restores is about it.                           *)
(***************************************************************************)
EXTENDS Integers

OperationTypes == {"training", "batch_inference"}

TerminalTypes == {"COMPLETED", "FAILED", "CANCELLED"}

\* The event_type argument of publish(): the broker's lifecycle vocabulary.
CallTypes == {"ACCEPTED", "PHASE", "LOG", "METRICS", "STARTED", "PROGRESS"}
                \cup TerminalTypes

NoPhase == ""
NoCode  == ""
NoRows  == -1

-----------------------------------------------------------------------------
(* Phases *)

\* The phases the broker and the algorithms name.
BrokerPhases ==
  {"QUEUED", "ADMISSION", "ADMITTED", "PREPARING", "EXECUTING",
   "MATERIALIZING", "PUBLISHING", "COMPLETED", "FAILED", "CANCELLED"}

\* The phases KnoVa knows.
ProtocolPhases(op) ==
  IF op = "training"
  THEN {"QUEUED", "LOADING_DATA", "DATA_SPLITTING", "FEATURE_ENGINEERING",
        "TRAINING", "EVALUATING", "EXPORTING",
        "COMPLETED", "FAILED", "CANCELLED"}
  ELSE {"INIT", "LOAD_MODEL", "READ_INPUT", "PREDICT", "WRITE_RESULT", "CLEANUP"}

\* What a caller may pass as a phase.
PhaseArgs(op) == BrokerPhases \cup ProtocolPhases(op)

TrainingPhases ==
  [ADMISSION     |-> "QUEUED",       ADMITTED   |-> "QUEUED",
   PREPARING     |-> "LOADING_DATA", EXECUTING  |-> "TRAINING",
   MATERIALIZING |-> "EVALUATING",   PUBLISHING |-> "EVALUATING",
   COMPLETED     |-> "COMPLETED",    FAILED     |-> "FAILED",
   CANCELLED     |-> "CANCELLED"]

InferencePhases ==
  [QUEUED        |-> "INIT",         ADMISSION  |-> "INIT",
   ADMITTED      |-> "INIT",         PREPARING  |-> "INIT",
   EXECUTING     |-> "PREDICT",      MATERIALIZING |-> "WRITE_RESULT",
   PUBLISHING    |-> "CLEANUP",      COMPLETED  |-> "CLEANUP",
   FAILED        |-> "INIT",         CANCELLED  |-> "PREDICT"]

PhaseTable(op) == IF op = "training" THEN TrainingPhases ELSE InferencePhases

\* Mutant: the phase is passed on as the caller named it.
MapPhase_Identity(op, phase) == phase

MapPhase(op, phase) ==
  IF phase \in DOMAIN PhaseTable(op) THEN PhaseTable(op)[phase] ELSE phase

InitialPhase(op) == IF op = "training" THEN "QUEUED" ELSE "INIT"

\* publish() replaces the phase of a failure or a cancellation that names
\* none of its own by the phase the reporter is in.
RequestedPhase(call, phase, current) ==
  IF /\ call \in {"FAILED", "CANCELLED"}
     /\ phase \in {NoPhase, "FAILED", "CANCELLED", "EXECUTING"}
  THEN current
  ELSE phase

\* The phase the event builder puts in the event.
EventPhase(op, call, phase, current) ==
  LET asked == RequestedPhase(call, phase, current)
  IN  IF call = "COMPLETED" THEN IF op = "training" THEN "COMPLETED" ELSE "CLEANUP"
      ELSE IF call = "ACCEPTED" /\ op = "training" THEN "QUEUED"
      ELSE IF asked = NoPhase THEN current
      ELSE MapPhase(op, asked)

-----------------------------------------------------------------------------
(* Error codes *)

InvalidCodes ==
  {"INVALID_JSON", "INVALID_REQUEST", "INVALID_ENVELOPE",
   "INVALID_OPERATION_ID", "IDENTITY_MISMATCH", "OPERATION_CHANNEL_MISMATCH",
   "PAYLOAD_TOO_LARGE", "DRIVER_INPUT_TOO_LARGE",
   "UNSUPPORTED_EXECUTION_PROFILE"}

InferenceCodes ==
  {"UNSUPPORTED_PROTOCOL_VERSION", "INVALID_PAYLOAD",
   "MODEL_ARTIFACT_NOT_FOUND", "MODEL_ARTIFACT_CORRUPTED",
   "MODEL_LOAD_FAILED", "MODEL_FORMAT_UNSUPPORTED", "MODEL_SCHEMA_MISMATCH",
   "DATA_SOURCE_UNREACHABLE", "INPUT_QUERY_FAILED", "INPUT_COLUMN_MISSING",
   "EMPTY_INPUT", "PREDICTION_FAILED", "RESULT_WRITE_FAILED",
   "EXECUTION_TIMEOUT", "UNKNOWN"}

TrainingCodes ==
  {"UNSUPPORTED_PROTOCOL_VERSION", "INVALID_PAYLOAD",
   "DATA_SOURCE_UNREACHABLE", "DATA_QUERY_FAILED", "EMPTY_DATASET",
   "FEATURE_ENGINEERING_FAILED", "TRAINING_FAILED", "TRAINING_OOM",
   "TRAINING_TIMEOUT", "EVALUATION_FAILED", "MODEL_EXPORT_FAILED",
   "ARTIFACT_UPLOAD_FAILED", "UNKNOWN"}

ProtocolCodes(op) == IF op = "training" THEN TrainingCodes ELSE InferenceCodes

\* Codes that say only that the Ray job ended: the phase gives the meaning.
OpaqueCodes ==
  {"EXECUTION_FAILED", "RAY_JOB_FAILED", "RAY_JOB_STOPPED",
   "TERMINAL_EVENT_MISSING"}

CodeOfPhase(op, phase) ==
  IF op = "training"
  THEN CASE phase = "LOADING_DATA" -> "DATA_QUERY_FAILED"
         [] phase = "EVALUATING"   -> "EVALUATION_FAILED"
         [] phase = "EXPORTING"    -> "MODEL_EXPORT_FAILED"
         [] OTHER                  -> "TRAINING_FAILED"
  ELSE CASE phase = "LOAD_MODEL"   -> "MODEL_LOAD_FAILED"
         [] phase = "READ_INPUT"   -> "INPUT_QUERY_FAILED"
         [] phase = "WRITE_RESULT" -> "RESULT_WRITE_FAILED"
         [] OTHER                  -> "PREDICTION_FAILED"

ErrorCode(op, code, phase) ==
  IF code \in InvalidCodes THEN "INVALID_PAYLOAD"
  ELSE IF code = "EXECUTION_TIMEOUT" /\ op = "training" THEN "TRAINING_TIMEOUT"
  ELSE IF code \in ProtocolCodes(op) THEN code
  ELSE IF code \in OpaqueCodes THEN CodeOfPhase(op, phase)
  ELSE "UNKNOWN"

TimeoutCode(op) ==
  IF op = "training" THEN "TRAINING_TIMEOUT" ELSE "EXECUTION_TIMEOUT"

-----------------------------------------------------------------------------
(* Events *)

\* The event_type an event carries on the wire for a lifecycle call.
EventType(op, call) ==
  IF op = "training"
  THEN CASE call = "ACCEPTED"                -> "PHASE"
         [] call \in {"STARTED", "PROGRESS"} -> "LOG"
         [] OTHER                            -> call
  ELSE CASE call \in {"ACCEPTED", "METRICS"} -> "LOG"
         [] call = "PHASE"                   -> "PROGRESS"
         [] OTHER                            -> call

\* Does an event of this wire type carry the progress fields?
CarriesRows(op, type) ==
  type \in IF op = "training" THEN {"METRICS", "COMPLETED"}
           ELSE {"PROGRESS", "COMPLETED", "CANCELLED", "FAILED"}

\* {**snapshot, **payload}: the payload wins, the builder defaults to 0, and a
\* completed training reports 100 per cent whatever the payload says.
EventRows(op, call, given, known) ==
  IF ~CarriesRows(op, EventType(op, call)) THEN NoRows
  ELSE IF op = "training" /\ call = "COMPLETED" THEN 100
  ELSE IF given # NoRows THEN given
  ELSE IF known # NoRows THEN known
  ELSE 0

\* The event types of each protocol.
WireTypes(op) ==
  {"LOG"} \cup TerminalTypes
    \cup IF op = "training" THEN {"PHASE", "METRICS"} ELSE {"STARTED", "PROGRESS"}

Event(op) ==
  [type  : WireTypes(op),
   phase : ProtocolPhases(op),
   code  : ProtocolCodes(op) \cup {NoCode},
   rows  : Int,
   call  : CallTypes]

\* The event publish() encodes.  "call" is the caller's event_type: it is the
\* fifth argument of the Lua script, not a field on the wire.
EventOf(op, call, phase, code, given, current, known) ==
  LET shown == EventPhase(op, call, phase, current)
  IN  [type  |-> EventType(op, call),
       phase |-> shown,
       code  |-> IF call = "FAILED" THEN ErrorCode(op, code, shown) ELSE NoCode,
       rows  |-> EventRows(op, call, given, known),
       call  |-> call]

IsTerminal(event) == event.type \in TerminalTypes
=============================================================================
