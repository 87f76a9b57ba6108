---------------------------- MODULE InferenceRun ----------------------------
(***************************************************************************)
(* execute_inference() and its result sink, in the driver.  Ray workers    *)
(* count the rows they have predicted into a queue; a pump thread sums the *)
(* counts and publishes PROGRESS through the reporter it shares with the   *)
(* main thread; the main thread materialises the predictions, joins the    *)
(* pump, appends the results and publishes the rest.  A materialisation    *)
(* that runs out of memory is retried with half the batch size.            *)
(***************************************************************************)
EXTENDS KnovaProtocol, Sequences

CONSTANTS
  Total,        \* measured_rows
  Kept,         \* rows output.result_filter lets through: Total without one
  BatchSize,    \* the first batch size
  Interval,     \* progress_report_interval_rows
  MaxRetries,   \* _MAX_ADAPTIVE_RETRIES
  MaxFaults     \* bound: publications that fail

ASSUME RunAssumption ==
  /\ {Total, BatchSize, Interval} \subseteq Nat \ {0}
  /\ Kept \in 0..Total
  /\ MaxRetries \in Nat /\ MaxFaults \in Nat

VARIABLES
  main,       \* [at, code, phase]: the main thread, and what it has raised
  retries, batch,
  queue,      \* the counts on their way to the pump; Done is the sentinel
  open,       \* the queue actor is alive
  counted,    \* rows the workers have counted in this attempt
  pump,       \* [at, processed, reported, error]: the pump thread
  sink,       \* [failure, processed, control]: what the sink leaves behind
  events,     \* the events of the driver
  memory,     \* [phase, processed, result]: the reporter
  stop,       \* what check_control() would raise, or NoCode
  appends,    \* history: how often the result table was appended to
  written,    \* history: rows appended
  receipt,    \* history: rows the write gateway has confirmed
  faults

progress == <<queue, open, counted, pump>>
output   == <<appends, written, receipt>>
vars     == <<main, retries, batch, progress, sink, events, memory, stop,
              output, faults>>

op == "batch_inference"

StopCodes == {"CANCELLED", TimeoutCode(op)}

Done == 0       \* no batch has 0 rows

LesserOf(a, b) == IF a <= b THEN a ELSE b
GreaterOf(a, b) == IF a <= b THEN b ELSE a

NoPump    == [at |-> "off", processed |-> 0, reported |-> 0, error |-> ""]
NoControl == [code |-> NoCode, phase |-> NoPhase]
FreshSink == [failure |-> "", processed |-> NoRows, control |-> NoControl]

Init ==
  /\ main = [at |-> "load", code |-> NoCode, phase |-> NoPhase]
  /\ retries = 0 /\ batch = BatchSize
  /\ queue = <<>> /\ open = FALSE /\ counted = 0 /\ pump = NoPump
  /\ sink = FreshSink
  /\ events = <<>>
  /\ memory = [phase |-> InitialPhase(op), processed |-> 0, result |-> 0]
  /\ stop = NoCode
  /\ appends = 0 /\ written = 0 /\ receipt = 0
  /\ faults = 0

-----------------------------------------------------------------------------
(* The reporter *)

Closed == events # <<>> /\ IsTerminal(events[Len(events)])

\* An event with the progress fields given, or those of the snapshot.
Message(call, phase, code, processed, result) ==
  [type |-> EventType(op, call), phase |-> EventPhase(op, call, phase, memory.phase),
   code |-> code, processed |-> processed, result |-> result]

Emit(event) ==
  IF Closed THEN UNCHANGED <<events, memory>>
  ELSE /\ events' = Append(events, event)
       /\ memory' = IF IsTerminal(event) THEN memory
                    ELSE IF CarriesRows(op, event.type)
                    THEN [phase |-> event.phase, processed |-> event.processed,
                          result |-> event.result]
                    ELSE [memory EXCEPT !.phase = event.phase]

\* publish() raises: Redis has not appended the event, or has and the answer was
\* lost.  The snapshot stays as it is either way.
Unpublished(event) ==
  /\ faults < MaxFaults /\ faults' = faults + 1
  /\ \/ UNCHANGED events
     \/ ~Closed /\ events' = Append(events, event)

Quiet == UNCHANGED <<events, faults>>

\* check_control(phase): the phase is taken over whether or not it raises.
Checkpoint(phase) == memory' = [memory EXCEPT !.phase = phase]

MayGoOn == stop = NoCode \/ Closed

Goto(place) == main' = [main EXCEPT !.at = place]

Raise(place, code, phase) == main' = [at |-> place, code |-> code, phase |-> phase]

\* ExecutionControlError at a checkpoint of the main thread.
RaiseControl(phase) == ~MayGoOn /\ Raise("raised", stop, phase)

\* An exception with a code and a phase, which main() turns into FAILED.
RaiseFailure(code, phase) == Raise("failing", code, phase)

\* An exception without a code: a publication that failed.
RaiseRedis == RaiseFailure("EXECUTION_FAILED", memory.phase)

\* The main thread publishes an event and goes on, or the call raises.
Publish(event, place) ==
  \/ Emit(event) /\ Goto(place) /\ UNCHANGED faults
  \/ Unpublished(event) /\ UNCHANGED memory /\ RaiseRedis

\* The deadline passes, or the cancel key is set, which is looked at first.
RequestStop ==
  /\ \/ stop = NoCode /\ stop' = TimeoutCode(op)
     \/ stop # "CANCELLED" /\ stop' = "CANCELLED"
  /\ UNCHANGED <<main, retries, batch, progress, sink, events, memory, output, faults>>

-----------------------------------------------------------------------------
(* execute_inference(), up to the first attempt *)

Before == UNCHANGED <<retries, batch, progress, sink, stop, output>>

Load ==
  /\ main.at = "load"
  /\ \/ /\ MayGoOn /\ Goto("build") /\ UNCHANGED faults
        /\ Emit(Message("PHASE", "LOAD_MODEL", NoCode, memory.processed, memory.result))
     \/ /\ RaiseControl("LOAD_MODEL")
        /\ Checkpoint("LOAD_MODEL") /\ Quiet
     \/ /\ MayGoOn /\ RaiseFailure("EXECUTION_FAILED", "LOAD_MODEL")
        /\ Checkpoint("LOAD_MODEL")
        /\ Unpublished(Message("PHASE", "LOAD_MODEL", NoCode, memory.processed,
                               memory.result))
  /\ Before

Build ==
  /\ main.at = "build"
  /\ Checkpoint("LOAD_MODEL")
  /\ \/ MayGoOn /\ Goto("prepare")
     \/ MayGoOn /\ \E code \in {"INVALID_PAYLOAD", "MODEL_FORMAT_UNSUPPORTED"} :
                     RaiseFailure(code, "LOAD_MODEL")
     \/ RaiseControl("LOAD_MODEL")
  /\ Quiet /\ Before

\* _prepare_model(): the declared files are read, verified, and told apart.
Prepare ==
  /\ main.at = "prepare"
  /\ \/ Goto("measure")
     \/ \E code \in {"MODEL_ARTIFACT_NOT_FOUND", "MODEL_ARTIFACT_CORRUPTED",
                    "MODEL_LOAD_FAILED", "MODEL_FORMAT_UNSUPPORTED",
                    "MODEL_SCHEMA_MISMATCH"} : RaiseFailure(code, "LOAD_MODEL")
  /\ Quiet /\ UNCHANGED memory /\ Before

Measure ==
  /\ main.at = "measure"
  /\ Checkpoint("READ_INPUT")
  /\ \/ MayGoOn /\ Goto("started")
     \/ MayGoOn /\ \E code \in {"EMPTY_INPUT", "INPUT_QUERY_FAILED", "INPUT_COLUMN_MISSING",
                             "DATA_SOURCE_UNREACHABLE", "INVALID_PAYLOAD"} :
                     RaiseFailure(code, "READ_INPUT")
     \/ RaiseControl("READ_INPUT")
  /\ Quiet /\ Before

Started ==
  /\ main.at = "started"
  /\ Publish(Message("STARTED", "READ_INPUT", NoCode, 0, 0), "first")
  /\ Before

FirstProgress ==
  /\ main.at = "first"
  /\ Publish(Message("PROGRESS", "PREDICT", NoCode, 0, 0), "attempt")
  /\ Before

-----------------------------------------------------------------------------
(* One attempt: run_inference() and the sink's write() *)

\* The sink ends with a failed result; run_inference() reports which part failed.
SinkFails(failure, control) ==
  /\ sink' = [sink EXCEPT !.failure = failure, !.control = control]
  /\ Goto("verdict")

Attempt ==
  /\ main.at = "attempt"
  /\ Checkpoint("PREDICT")
  /\ sink' = FreshSink
  /\ \/ MayGoOn /\ Goto("sink")
     \/ RaiseControl("PREDICT")
  /\ Quiet /\ UNCHANGED <<retries, batch, progress, stop, output>>

\* Mutant: the counts of the last attempt are kept.
StartedPump_KeepsCount == [pump EXCEPT !.at = "get"]

\* _InferenceProgress.__init__()
StartedPump == [NoPump EXCEPT !.at = "get"]

\* The input and the model are opened, then write() checks the control: an
\* exception it raises there is one of the sink's, and is not kept.
OpenSink ==
  /\ main.at = "sink"
  /\ \/ /\ RaiseFailure("MODEL_LOAD_FAILED", "LOAD_MODEL")
        /\ UNCHANGED <<sink, memory, progress>>
     \/ SinkFails("acquisition", NoControl) /\ UNCHANGED <<memory, progress>>
     \/ /\ ~MayGoOn /\ SinkFails("sink", NoControl)
        /\ Checkpoint("PREDICT") /\ UNCHANGED progress
     \/ /\ MayGoOn /\ Goto("map") /\ Checkpoint("PREDICT")
        /\ queue' = <<>> /\ open' = TRUE /\ counted' = 0
        /\ pump' = StartedPump
        /\ UNCHANGED sink
  /\ Quiet /\ UNCHANGED <<retries, batch, stop, output>>

InSink == UNCHANGED <<retries, batch, stop>>

\* A worker has predicted a batch.
PredictBatch ==
  LET n == LesserOf(Total - counted, LesserOf(batch, Interval))
  IN  /\ main.at = "map" /\ counted < Total
      /\ queue' = Append(queue, n)
      /\ counted' = counted + n
      /\ UNCHANGED <<main, open, pump, sink, memory, output>> /\ Quiet /\ InSink

\* Mutant: close() does not send the sentinel.
CloseProgress_NoSentinel ==
  /\ main.at = "map"
  /\ \/ counted = Total /\ UNCHANGED sink
     \/ \E failure \in {"memory", "materialization"} :
          sink' = [sink EXCEPT !.failure = failure]
  /\ Goto("join")
  /\ UNCHANGED <<queue, open, counted, pump, memory, output>> /\ Quiet /\ InSink

\* The materialisation ends, and close() sends the sentinel in any case.
CloseProgress ==
  /\ main.at = "map"
  /\ \/ counted = Total /\ UNCHANGED sink
     \/ \E failure \in {"memory", "materialization"} :
          sink' = [sink EXCEPT !.failure = failure]
  /\ queue' = Append(queue, Done)
  /\ Goto("join")
  /\ UNCHANGED <<open, counted, pump, memory, output>> /\ Quiet /\ InSink

\* The pump has ended: its error, if any, replaces that of the materialisation.
Join ==
  /\ main.at = "join" /\ pump.at = "dead"
  /\ open' = FALSE
  /\ \/ /\ pump.error \in StopCodes /\ SinkFails("sink", [code |-> pump.error, phase |-> "PREDICT"])
     \/ /\ pump.error = "redis" /\ SinkFails("sink", NoControl)
     \/ /\ pump.error = ""
        /\ sink' = [sink EXCEPT !.processed = pump.processed]
        /\ Goto(IF sink.failure = "" THEN "gate" ELSE "verdict")
  /\ UNCHANGED <<queue, counted, pump, memory, output>> /\ Quiet /\ InSink

\* Mutant: a pump that still runs is not an error.
JoinTimeout_Ignored ==
  /\ main.at = "join" /\ pump.at \in {"get", "publish"}
  /\ open' = FALSE
  /\ sink' = [sink EXCEPT !.processed = pump.processed]
  /\ Goto(IF sink.failure = "" THEN "gate" ELSE "verdict")
  /\ UNCHANGED <<queue, counted, pump, memory, output>> /\ Quiet /\ InSink

\* join(timeout=10) gives up on a pump that still runs.
JoinTimeout ==
  /\ main.at = "join" /\ pump.at \in {"get", "publish"}
  /\ open' = FALSE
  /\ SinkFails("sink", NoControl)
  /\ UNCHANGED <<queue, counted, pump, memory, output>> /\ Quiet /\ InSink

\* The last checkpoint before the results are written.
WriteGate ==
  /\ main.at = "gate"
  /\ Checkpoint("WRITE_RESULT")
  /\ \/ MayGoOn /\ Goto("almost") /\ UNCHANGED sink
     \/ ~MayGoOn /\ SinkFails("sink", [code |-> stop, phase |-> "WRITE_RESULT"])
  /\ Quiet /\ InSink /\ UNCHANGED <<progress, output>>

\* The last progress before the append is announced; what the publication raises
\* is one of the sink's failures.
AnnounceWrite(event) ==
  \/ /\ Emit(event) /\ Goto("write") /\ UNCHANGED <<sink, faults>>
  \/ Unpublished(event) /\ UNCHANGED memory /\ SinkFails("sink", NoControl)

\* Mutant: the predicted rows are announced as written.
Almost_Claims ==
  /\ main.at = "almost"
  /\ AnnounceWrite(Message("PROGRESS", "WRITE_RESULT", NoCode, sink.processed,
                           sink.processed))
  /\ InSink /\ UNCHANGED <<progress, output>>

Almost ==
  /\ main.at = "almost"
  /\ AnnounceWrite(Message("PROGRESS", "WRITE_RESULT", NoCode, sink.processed, 0))
  /\ InSink /\ UNCHANGED <<progress, output>>

\* The gateway appends the rows the filter has kept, without a transaction: it
\* confirms them all, or a failure leaves any part of them; a receipt without a
\* count is a failure after the last row.
Write ==
  /\ main.at = "write"
  /\ appends' = appends + 1
  /\ \/ /\ written' = written + Kept /\ receipt' = Kept
        /\ Goto("verdict") /\ UNCHANGED sink
     \/ /\ \E n \in 0..Kept : written' = written + n
        /\ SinkFails("sink", NoControl) /\ UNCHANGED receipt
  /\ InSink /\ Quiet /\ UNCHANGED <<progress, memory>>

-----------------------------------------------------------------------------
(* The pump *)

PumpLocal ==
  UNCHANGED <<main, retries, batch, open, counted, sink, stop, output>>

PumpGet ==
  /\ pump.at = "get" /\ open /\ queue # <<>>
  /\ queue' = Tail(queue)
  /\ LET n == Head(queue)
         p == pump.processed + n
     IN  pump' = IF n = Done THEN [pump EXCEPT !.at = "dead"]
                 ELSE [pump EXCEPT !.processed = p,
                        !.at = IF p - pump.reported >= Interval THEN "publish"
                               ELSE "get"]
  /\ PumpLocal /\ UNCHANGED memory /\ Quiet

\* Nothing for a quarter of a second: a checkpoint.
PumpIdle ==
  /\ pump.at = "get" /\ open /\ queue = <<>>
  /\ Checkpoint("PREDICT")
  /\ pump' = IF MayGoOn THEN pump
             ELSE [pump EXCEPT !.at = "dead", !.error = stop]
  /\ PumpLocal /\ UNCHANGED queue /\ Quiet

PumpPublish ==
  /\ pump.at = "publish"
  /\ LET event == Message("PROGRESS", "PREDICT", NoCode, pump.processed, 0)
     IN  \/ /\ Emit(event) /\ UNCHANGED faults
            /\ pump' = [pump EXCEPT !.at = "get", !.reported = pump.processed]
         \/ /\ Unpublished(event) /\ UNCHANGED memory
            /\ pump' = [pump EXCEPT !.at = "dead", !.error = "redis"]
  /\ PumpLocal /\ UNCHANGED queue

\* The queue actor was shut down under a pump that was late.
PumpOrphaned ==
  /\ pump.at = "get" /\ ~open
  /\ pump' = [pump EXCEPT !.at = "dead", !.error = "queue"]
  /\ PumpLocal /\ UNCHANGED <<queue, memory>> /\ Quiet

-----------------------------------------------------------------------------
(* After run_inference() *)

After == UNCHANGED <<progress, sink, stop, output>>

\* A control error kept by the sink comes first, then a checkpoint.
Surface ==
  /\ main.at = "verdict"
  /\ \/ /\ sink.control # NoControl
        /\ Raise("raised", sink.control.code, sink.control.phase)
        /\ UNCHANGED memory
     \/ /\ sink.control = NoControl
        /\ Checkpoint("WRITE_RESULT")
        /\ \/ MayGoOn /\ Goto("judge")
           \/ RaiseControl("WRITE_RESULT")
  /\ Quiet /\ After /\ UNCHANGED <<retries, batch>>

\* Mutant: whatever failed is tried again.
MayRetry_AnyFailure == sink.failure # "" /\ batch > 1 /\ retries < MaxRetries

MayRetry == sink.failure = "memory" /\ batch > 1 /\ retries < MaxRetries

Retry ==
  /\ main.at = "judge" /\ MayRetry
  /\ retries' = retries + 1
  /\ batch' = GreaterOf(1, batch \div 2)
  /\ Publish(Message("LOG", "PREDICT", NoCode, 0, 0), "attempt")
  /\ After

FailureOf(failure) ==
  CASE failure = "acquisition" -> [code |-> "INPUT_QUERY_FAILED", phase |-> "READ_INPUT"]
    [] failure = "sink"        -> [code |-> "RESULT_WRITE_FAILED", phase |-> "WRITE_RESULT"]
    [] OTHER                   -> [code |-> "PREDICTION_FAILED", phase |-> "PREDICT"]

Judge ==
  /\ main.at = "judge" /\ ~MayRetry
  /\ IF sink.failure = "" THEN Goto("final")
     ELSE RaiseFailure(FailureOf(sink.failure).code, FailureOf(sink.failure).phase)
  /\ Quiet /\ After /\ UNCHANGED <<retries, batch, memory>>

FinalProgress ==
  /\ main.at = "final"
  /\ Publish(Message("PROGRESS", "WRITE_RESULT", NoCode, sink.processed, receipt),
             "complete")
  /\ After /\ UNCHANGED <<retries, batch>>

Complete ==
  /\ main.at = "complete"
  /\ \/ /\ MayGoOn
        /\ Publish(Message("COMPLETED", "COMPLETED", NoCode, sink.processed, receipt),
                   "end")
     \/ RaiseControl(memory.phase) /\ UNCHANGED memory /\ Quiet
  /\ After /\ UNCHANGED <<retries, batch>>

\* main()'s handlers: the terminal event carries the snapshot's progress.
Report ==
  LET call == IF main.at = "raised" /\ main.code = "CANCELLED" THEN "CANCELLED" ELSE "FAILED"
      code == IF call = "FAILED" THEN ErrorCode(op, main.code, main.phase) ELSE NoCode
      outcome == Message(call, main.phase, code, memory.processed, memory.result)
  IN  /\ main.at \in {"raised", "failing"}
      /\ \/ Emit(outcome) /\ UNCHANGED faults
         \/ Unpublished(outcome) /\ UNCHANGED memory
      /\ Goto("end")
      /\ After /\ UNCHANGED <<retries, batch>>

MainStep ==
  \/ Load \/ Build \/ Prepare \/ Measure \/ Started \/ FirstProgress
  \/ Attempt \/ OpenSink \/ PredictBatch \/ CloseProgress \/ Join
  \/ WriteGate \/ Almost \/ Write
  \/ Surface \/ Retry \/ Judge \/ FinalProgress \/ Complete \/ Report

PumpStep == PumpGet \/ PumpIdle \/ PumpPublish \/ PumpOrphaned

Next == RequestStop \/ MainStep \/ JoinTimeout \/ PumpStep

\* Both threads run; that the pump is given up on is never relied on.
Spec == Init /\ [][Next]_vars /\ WF_vars(MainStep) /\ WF_vars(PumpStep)

-----------------------------------------------------------------------------
(* Properties *)

Places ==
  {"load", "build", "prepare", "measure", "started", "first", "attempt", "sink", "map",
   "join", "gate", "almost", "write", "verdict", "judge", "final", "complete",
   "raised", "failing", "end"}

Phases == ProtocolPhases(op) \cup {NoPhase}
Codes  == ProtocolCodes(op) \cup OpaqueCodes \cup StopCodes \cup {NoCode}

MainOK ==
  /\ main \in [at : Places, code : Codes, phase : Phases]
  /\ retries \in 0..MaxRetries /\ batch \in 1..BatchSize
  /\ stop \in StopCodes \cup {NoCode}
  /\ sink \in [failure : {"", "acquisition", "memory", "materialization", "sink"},
               processed : 0..Total \cup {NoRows},
               control : [code : StopCodes \cup {NoCode}, phase : Phases]]

PumpOK ==
  /\ queue \in Seq(Nat) /\ open \in BOOLEAN /\ counted \in 0..Total
  /\ pump \in [at : {"off", "get", "publish", "dead"}, processed : 0..Total,
               reported : 0..Total, error : {"", "redis", "queue"} \cup StopCodes]
  /\ pump.reported <= pump.processed

WireEvents ==
  [type : WireTypes(op), phase : ProtocolPhases(op),
   code : ProtocolCodes(op) \cup {NoCode}, processed : Int, result : Nat]

Memories == [phase : ProtocolPhases(op), processed : Int, result : Nat]

OutputOK ==
  /\ events \in Seq(WireEvents) /\ memory \in Memories
  /\ appends \in Nat /\ written \in Nat /\ receipt \in Nat /\ faults \in Nat

\* Every variable has its type, no row is counted twice by an attempt, and only
\* KnoVa's phases and error codes reach the wire.
TypeOK == MainOK /\ PumpOK /\ OutputOK

\* A retry never duplicates rows: the result table is appended to at most once,
\* because only what failed before the write is retried.
WrittenAtMostOnce == appends <= 1

\* A completed inference has counted every row it has read, has written every
\* row the filter lets through, and says both.
CompletedIsExact ==
  Closed /\ events[Len(events)].type = "COMPLETED" =>
    /\ events[Len(events)].processed = Total
    /\ events[Len(events)].result = written /\ written = Kept

\* No event claims a result row that is not in the table.
ResultRowsNotOverstated == \A i \in 1..Len(events) : events[i].result <= written

\* The counts a reader is given are exact when the inference has completed; the
\* result rows of no other event are more than there are.  They may be fewer: the
\* table may have rows nobody has confirmed, and what was confirmed may not be
\* reported (ConfirmedIsReported).
CountsAreTrue == CompletedIsExact /\ ResultRowsNotOverstated

\* The result rows of a run that failed or was cancelled are those of the last
\* confirmed commit.  The code violates it: the receipt is in a local variable
\* while a checkpoint (inference.py:2152) raises.
ConfirmedIsReported ==
  Closed /\ events[Len(events)].type # "COMPLETED" =>
    events[Len(events)].result = receipt

PhaseRank(phase) ==
  CASE phase = "INIT"         -> 0
    [] phase = "LOAD_MODEL"   -> 1
    [] phase = "READ_INPUT"   -> 2
    [] phase = "PREDICT"      -> 3
    [] phase = "WRITE_RESULT" -> 4
    [] phase = "CLEANUP"      -> 5

\* The phases a reader sees before the outcome only move forward, although two
\* threads publish them: the pump is over before the write phase is announced.
PhasesMoveForward ==
  \A i, j \in 1..Len(events) :
    i < j /\ ~IsTerminal(events[j]) =>
      PhaseRank(events[i].phase) <= PhaseRank(events[j].phase)

\* Progress only goes back where a LOG event has announced a retry.
ProgressGoesForward ==
  \A i, j \in 1..Len(events) :
    /\ i < j
    /\ events[i].type = "PROGRESS" /\ events[j].type = "PROGRESS"
    /\ \A k \in i..j : events[k].type # "LOG"
    => events[i].processed <= events[j].processed

\* What a reader sees goes forward, although two threads publish it.
ReaderGoesForward == PhasesMoveForward /\ ProgressGoesForward

\* The run ends, and its pump with it.
Terminates == <>(main.at = "end" /\ pump.at \in {"off", "dead"})

-----------------------------------------------------------------------------
(* The inductive invariant *)

Alive == pump.at \in {"get", "publish"}

\* The main thread has published an outcome, or may have without hearing of it.
Over == main.at \in {"failing", "end"}

\* Only the last event is an outcome, and the main thread is through by then.
OutcomeIsLast ==
  \A i \in 1..Len(events) : IsTerminal(events[i]) => i = Len(events) /\ Over

\* The pump runs while rows are materialised and joined; after that only where
\* join() has given up on it, which is a failure of the sink.
PumpPlace ==
  /\ open <=> main.at \in {"map", "join"}
  /\ open => pump.at # "off"
  /\ main.at = "map" /\ pump.at = "dead" => pump.error # ""
  /\ Alive /\ ~open =>
       /\ main.at \in {"verdict", "judge", "raised", "failing", "end"}
       /\ main.at \in {"verdict", "judge"} => sink.failure = "sink"

\* What a worker counts unless fewer rows are left, and how many counts are in
\* the queue, before the sentinel.
Share == LesserOf(batch, Interval)
Waiting == IF queue # <<>> /\ queue[Len(queue)] = Done THEN Len(queue) - 1 ELSE Len(queue)

\* The first n counts of q, which are full shares but for the last one, are what
\* is missing from "sum" to "count".
Accounted(q, n, share, sum, count) ==
  /\ \A i \in 1..n : q[i] \in 1..share /\ (i < n => q[i] = share)
  /\ count = IF n = 0 THEN sum ELSE sum + (n - 1) * share + q[n]
  /\ n > 0 /\ q[n] < share => count = Total

\* Every row a worker has counted is in the queue or in the pump's sum, and the
\* sentinel is behind them all.
NoCountLost ==
  open =>
    /\ Accounted(queue, Waiting, Share, pump.processed, counted)
    /\ main.at = "map" => Waiting = Len(queue)
    /\ main.at = "join" /\ Alive => Waiting < Len(queue)
    /\ main.at = "join" /\ pump.at = "dead" /\ pump.error = "" => queue = <<>>
    /\ main.at = "join" /\ sink.failure = "" => counted = Total

\* The results are written, and nothing has failed.
Succeeded ==
  \/ main.at \in {"final", "complete"}
  \/ main.at \in {"verdict", "judge"} /\ sink.failure = ""

\* The sink is fresh while rows are predicted, what it has counted when the
\* results are written is every row, and then those of the filter are confirmed.
SinkKnows ==
  /\ main.at \in {"sink", "map"} => sink = FreshSink
  /\ main.at \in {"gate", "almost", "write"} => sink.failure = "" /\ ~Alive
  /\ main.at \in {"gate", "almost", "write"} \/ Succeeded =>
       sink.processed = Total /\ pump.processed = Total
  /\ Succeeded => written = Kept /\ receipt = Kept

\* Another attempt is possible.
MayComeBack ==
  main.at \in {"verdict", "judge"} /\ sink.failure = "memory"

BeforeWrite ==
  \/ main.at \in {"load", "build", "prepare", "measure", "started", "first", "attempt",
                  "sink", "map", "join", "gate", "almost", "write"}
  \/ MayComeBack

\* Nothing is written before the write, and nothing that was is tried again.
NotWrittenBefore ==
  /\ main.at = "load" => memory.processed = 0
  /\ BeforeWrite => appends = 0
  /\ appends = 0 => written = 0 /\ receipt = 0
  /\ receipt <= written /\ memory.result <= written

\* How far the phases of the events may have come.
Reached ==
  IF main.at = "load" THEN 0
  ELSE IF main.at \in {"build", "prepare", "measure", "started"} THEN 1
  ELSE IF main.at = "first" THEN 2
  ELSE IF (BeforeWrite /\ main.at # "write") \/ Alive THEN 3
  ELSE 4

PhasesReached ==
  \A i \in 1..Len(events) : ~IsTerminal(events[i]) => PhaseRank(events[i].phase) <= Reached

\* How many rows the events since the last retry may speak of.
Announced ==
  IF main.at \in {"load", "build", "prepare", "measure", "started", "first", "attempt", "sink"}
  THEN 0 ELSE pump.processed

RowsAnnounced ==
  \A i \in 1..Len(events) :
    /\ events[i].type = "PROGRESS"
    /\ \A k \in i..Len(events) : events[k].type # "LOG"
    => events[i].processed <= Announced

\* What a COMPLETED event says stays true.
CompletedSays ==
  \A i \in 1..Len(events) :
    events[i].type = "COMPLETED" =>
      events[i].processed = Total /\ events[i].result = Kept /\ written = Kept

\* Where the threads are, and what they have counted and written.
ThreadsOK == PumpPlace /\ NoCountLost /\ SinkKnows /\ NotWrittenBefore

\* What the events say of it.
EventsOK ==
  /\ OutcomeIsLast /\ PhasesReached /\ RowsAnnounced /\ CompletedSays
  /\ ResultRowsNotOverstated /\ PhasesMoveForward /\ ProgressGoesForward

\* The three properties above follow from it, and every step keeps it.
IInv == TypeOK /\ ThreadsOK /\ EventsOK
=============================================================================
