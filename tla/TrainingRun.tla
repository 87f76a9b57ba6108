---------------------------- MODULE TrainingRun ----------------------------
(***************************************************************************)
(* execute_training(), in the driver, with the boosting runtime it calls.  *)
(* The rank-0 worker puts the metrics of each round into a queue; a pump   *)
(* thread publishes them through the reporter it shares with the main      *)
(* thread, and swallows what that raises.  When the fit has ended the main *)
(* thread stops the pump, waits for two seconds at most, publishes what is *)
(* left in the queue and makes up for a first and a last round that nobody *)
(* has reported.  Failures are classified by the phase the reporter is in. *)
(***************************************************************************)
EXTENDS KnovaProtocol, Sequences

CONSTANTS
  Rounds,     \* num_rounds
  MaxFaults   \* bound: publications that fail, and metrics lost in the queue

ASSUME RunAssumption == Rounds \in Nat \ {0} /\ MaxFaults \in Nat

VARIABLES
  main,       \* [at, stage, cause, code, phase]: the main thread; the stage in
              \* which it failed, what it has raised, and what will be reported
  worker,     \* [trained, missed]: rounds trained; the last one is not queued
  queue,      \* rounds on their way to the pump
  pump,       \* [at, round, stop]: the pump thread, what it holds, its event
  reported,   \* _MetricsPump._published
  events,     \* the events of the driver
  current,    \* the reporter's phase
  stop,       \* what check_control() would raise, or NoCode
  late,       \* history: the main thread has given up on the pump
  faults

metrics == <<worker, queue, pump, reported, late>>
vars    == <<main, metrics, events, current, stop, faults>>

op == "training"

StopCodes == {"CANCELLED", TimeoutCode(op)}

Init ==
  /\ main = [at |-> "config", stage |-> "", cause |-> "", code |-> NoCode,
             phase |-> NoPhase]
  /\ worker = [trained |-> 0, missed |-> FALSE]
  /\ queue = <<>>
  /\ pump = [at |-> "off", round |-> 0, stop |-> FALSE]
  /\ reported = {}
  /\ events = <<>>
  /\ current = InitialPhase(op)
  /\ stop = NoCode
  /\ late = FALSE
  /\ faults = 0

-----------------------------------------------------------------------------
(* The reporter *)

Closed == events # <<>> /\ IsTerminal(events[Len(events)])

\* The event of publish(call, ...); "round" is current_round.
Message(call, phase, code, round) ==
  LET shown == EventPhase(op, call, phase, current)
  IN  [type |-> EventType(op, call), phase |-> shown, round |-> round,
       code |-> IF call = "FAILED" THEN ErrorCode(op, code, shown) ELSE NoCode]

Emit(call, phase, code, round) ==
  LET event == Message(call, phase, code, round)
  IN  IF Closed THEN UNCHANGED <<events, current>>
      ELSE /\ events' = Append(events, event)
           /\ current' = IF IsTerminal(event) THEN current ELSE event.phase

Fault == faults < MaxFaults /\ faults' = faults + 1

NoFault == UNCHANGED faults

Quiet == UNCHANGED <<events, faults>>

\* publish() raises: Redis has not appended the event, or has and the answer
\* was lost.  The reporter's phase stays as the checkpoint before it left it.
Unpublished(call, phase, code, round, checked) ==
  /\ Fault
  /\ current' = checked
  /\ \/ UNCHANGED events
     \/ ~Closed /\ events' = Append(events, Message(call, phase, code, round))

\* Mutant: the checkpoint remembers the phase as the caller names it.
Checkpoint_Raw(phase) == current' = phase

\* check_control(): the phase is taken over whether or not it raises.
Checkpoint(phase) == current' = MapPhase(op, phase)

MayGoOn == stop = NoCode \/ Closed

RequestStop ==
  /\ \/ stop = NoCode /\ stop' = TimeoutCode(op)
     \/ stop # "CANCELLED" /\ stop' = "CANCELLED"
  /\ UNCHANGED <<main, metrics, events, current, faults>>

-----------------------------------------------------------------------------
(* The main thread *)

Goto(place) == main' = [main EXCEPT !.at = place]

\* An exception, where it is raised; a control error knows its code and phase.
Raise(place, cause) ==
  main' = [main EXCEPT !.at = place, !.stage = main.at, !.cause = cause]

RaiseControl(place, phase) ==
  /\ ~MayGoOn
  /\ main' = [main EXCEPT !.at = place, !.stage = main.at, !.cause = "control",
                          !.code = stop, !.phase = phase]

Alone == UNCHANGED <<metrics, stop>>

\* _build_execution() maps the request, or finds that it cannot.
Config ==
  /\ main.at = "config"
  /\ Goto("control") \/ Raise("report", "config")
  /\ Quiet /\ UNCHANGED current /\ Alone

Control ==
  /\ main.at = "control"
  /\ \/ MayGoOn /\ Goto("prepare")
     \/ RaiseControl("report", current)
  /\ Quiet /\ UNCHANGED current /\ Alone

\* reporter.phase(phase), on the way from one place to the next.
Enter(phase, from, to) ==
  /\ main.at = from
  /\ \/ MayGoOn /\ Goto(to) /\ Emit("PHASE", phase, NoCode, 0) /\ NoFault
     \/ RaiseControl("report", MapPhase(op, phase)) /\ Checkpoint(phase) /\ Quiet
     \/ /\ MayGoOn /\ Raise("classify", "redis")
        /\ Unpublished("PHASE", phase, NoCode, 0, MapPhase(op, phase))

Prepare == Enter("PREPARING", "prepare", "auto") /\ Alone

\* A warning that AUTO tuning is not implemented, or none.
AutoTuning ==
  /\ main.at = "auto"
  /\ \/ Goto("load") /\ Quiet /\ UNCHANGED current
     \/ Goto("load") /\ Emit("LOG", "LOADING_DATA", NoCode, 0) /\ NoFault
     \/ /\ Raise("classify", "redis")
        /\ Unpublished("LOG", "LOADING_DATA", NoCode, 0, current)
  /\ Alone

\* The source is opened; _RayInputValidation checks the control and the
\* columns and may warn about duplicates.
Load ==
  /\ main.at = "load"
  /\ \/ Raise("classify", "query") /\ Quiet /\ UNCHANGED current
     \/ RaiseControl("report", current) /\ Quiet /\ UNCHANGED current
     \/ MayGoOn /\ Raise("classify", "columns") /\ Quiet /\ UNCHANGED current
     \/ MayGoOn /\ Goto("rows") /\ Quiet /\ UNCHANGED current
     \/ MayGoOn /\ Goto("rows") /\ Emit("LOG", "LOADING_DATA", NoCode, 0) /\ NoFault
     \/ /\ MayGoOn /\ Raise("classify", "redis")
        /\ Unpublished("LOG", "LOADING_DATA", NoCode, 0, current)
  /\ Alone

\* The rows are read.
Rows ==
  /\ main.at = "rows"
  /\ \/ Goto("split")
     \/ \E cause \in {"query", "unreachable"} : Raise("classify", cause)
  /\ Quiet /\ UNCHANGED current /\ Alone

Split == Enter("DATA_SPLITTING", "split", "divide") /\ Alone

\* _split_dataset(), _ensure_worker_blocks() and the trainer's configuration.
Divide ==
  /\ main.at = "divide"
  /\ \/ Goto("execute")
     \/ \E cause \in {"empty", "small", "other"} : Raise("classify", cause)
  /\ Quiet /\ UNCHANGED current /\ Alone

\* phase("EXECUTING"), and the pump starts.
Execute ==
  /\ Enter("EXECUTING", "execute", "fit")
  /\ pump' = IF main'.at = "fit" THEN [pump EXCEPT !.at = "get"] ELSE pump
  /\ UNCHANGED <<worker, queue, reported, late, stop>>

-----------------------------------------------------------------------------
(* The fit *)

Fitting == main.at = "fit" /\ UNCHANGED <<events, current, stop, late, reported>>

Loses == Fault /\ UNCHANGED queue

\* A round: put_nowait() may fail, and nobody is told.
TrainRound ==
  /\ Fitting /\ worker.trained < Rounds
  /\ \/ /\ queue' = Append(queue, worker.trained + 1) /\ NoFault
        /\ worker' = [trained |-> worker.trained + 1, missed |-> FALSE]
     \/ /\ Loses
        /\ worker' = [trained |-> worker.trained + 1, missed |-> TRUE]
  /\ UNCHANGED <<main, pump>>

\* after_training(): a last round that is not queued is put once more.
FitEnds ==
  /\ Fitting /\ worker.trained > 0
  /\ \/ worker.missed /\ queue' = Append(queue, worker.trained) /\ NoFault
     \/ worker.missed /\ Loses
     \/ ~worker.missed /\ UNCHANGED <<queue, faults>>
  /\ Goto("finish") /\ UNCHANGED <<worker, pump>>

FitFails ==
  /\ Fitting /\ Raise("finish", "other")
  /\ UNCHANGED <<worker, queue, pump, faults>>

-----------------------------------------------------------------------------
(* _MetricsPump *)

PumpLocal == UNCHANGED <<main, worker, stop, late>>

PumpGet ==
  /\ pump.at = "get" /\ queue # <<>>
  /\ queue' = Tail(queue)
  /\ pump' = [pump EXCEPT !.round = Head(queue),
                          !.at = IF Head(queue) \in reported THEN "get" ELSE "publish"]
  /\ PumpLocal /\ UNCHANGED <<reported, current>> /\ Quiet

\* metrics(): a checkpoint and a publication, made by either thread.
Metrics(round) ==
  /\ MayGoOn
  /\ Emit("METRICS", "EXECUTING", NoCode, round) /\ NoFault
  /\ reported' = reported \cup {round}

\* Mutant: the round is marked before it has been published.
MetricsRaise_Marked(round) ==
  /\ reported' = reported \cup {round}
  /\ \/ ~MayGoOn /\ Checkpoint("TRAINING") /\ Quiet
     \/ MayGoOn /\ Unpublished("METRICS", "EXECUTING", NoCode, round, "TRAINING")

MetricsRaise(round) ==
  /\ UNCHANGED reported
  /\ \/ ~MayGoOn /\ Checkpoint("TRAINING") /\ Quiet
     \/ MayGoOn /\ Unpublished("METRICS", "EXECUTING", NoCode, round, "TRAINING")

\* Whatever is raised, the thread goes on with the next item.
PumpPublish ==
  /\ pump.at = "publish"
  /\ Metrics(pump.round) \/ MetricsRaise(pump.round)
  /\ pump' = [pump EXCEPT !.at = "get"]
  /\ PumpLocal /\ UNCHANGED queue

PumpEnds ==
  /\ pump.at = "get" /\ pump.stop
  /\ pump' = [pump EXCEPT !.at = "dead"]
  /\ PumpLocal /\ UNCHANGED <<queue, reported, current>> /\ Quiet

-----------------------------------------------------------------------------
(* _MetricsPump.finish(), in the main thread *)

Finishing == UNCHANGED <<worker, stop>>

\* Mutant: finish() does not set the pump's event.
FinishStop_Forgets ==
  /\ main.at = "finish" /\ Goto("join")
  /\ Finishing /\ UNCHANGED <<queue, pump, reported, current, late>> /\ Quiet

FinishStop ==
  /\ main.at = "finish" /\ Goto("join")
  /\ pump' = [pump EXCEPT !.stop = TRUE]
  /\ Finishing /\ UNCHANGED <<queue, reported, current, late>> /\ Quiet

\* Mutant: finish() does not wait for the thread.
Join_NoWait ==
  /\ main.at = "join" /\ Goto("drain")
  /\ Finishing /\ UNCHANGED <<queue, pump, reported, current, late>> /\ Quiet

\* join(timeout=2.0) ends with the thread, or while it publishes.
Join ==
  /\ main.at = "join" /\ pump.at # "get" /\ Goto("drain")
  /\ late' = (late \/ pump.at = "publish")
  /\ Finishing /\ UNCHANGED <<queue, pump, reported, current>> /\ Quiet

\* The first item that cannot be published ends the loop.
Drain ==
  /\ main.at = "drain"
  /\ \/ /\ queue = <<>> /\ Goto("first")
        /\ UNCHANGED <<queue, reported, current>> /\ Quiet
     \/ /\ queue # <<>> /\ queue' = Tail(queue)
        /\ \/ /\ Head(queue) \in reported /\ UNCHANGED <<main, reported, current>>
              /\ Quiet
           \/ /\ Head(queue) \notin reported /\ Metrics(Head(queue))
              /\ UNCHANGED main
           \/ /\ Head(queue) \notin reported /\ MetricsRaise(Head(queue))
              /\ Goto("first")
  /\ Finishing /\ UNCHANGED <<pump, late>>

\* The histories are those of a fit that returned.
Needed(round) == main.stage # "fit" /\ round \notin reported

\* An exception leaves finish(); the finally block calls finish() once more.
LeaveFinish(cause) ==
  IF main.cause = "" THEN Raise("finish", cause) ELSE Raise("classify", cause)

MakeUp(round, to) ==
  \/ /\ ~Needed(round) /\ Goto(to) /\ UNCHANGED <<reported, current>> /\ Quiet
  \/ Needed(round) /\ Metrics(round) /\ Goto(to)
  \/ /\ Needed(round) /\ MetricsRaise(round)
     /\ IF MayGoOn THEN LeaveFinish("redis")
        ELSE RaiseControl(IF main.cause = "" THEN "finish" ELSE "report", "TRAINING")

FirstRound ==
  /\ main.at = "first" /\ MakeUp(1, "last")
  /\ Finishing /\ UNCHANGED <<queue, pump, late>>

\* After the last round the queue is shut down, and the run goes on, or what
\* was raised goes on.
AfterFinish ==
  CASE main.cause = ""        -> "evidence"
    [] main.cause = "control" -> "report"
    [] OTHER                  -> "classify"

LastRound ==
  /\ main.at = "last" /\ MakeUp(worker.trained, AfterFinish)
  /\ queue' = IF main' = [main EXCEPT !.at = AfterFinish] THEN <<>> ELSE queue
  /\ Finishing /\ UNCHANGED <<pump, late>>

-----------------------------------------------------------------------------
(* The rest of the main thread *)

\* The workers' evidence, and the checkpoint is loaded.
Evidence ==
  /\ main.at = "evidence"
  /\ Goto("materialize") \/ Raise("classify", "other")
  /\ Quiet /\ UNCHANGED current /\ Alone

Materialize == Enter("MATERIALIZING", "materialize", "evaluate") /\ Alone

\* The metrics of the test rows, then _export_bundle().
Evaluate ==
  /\ main.at = "evaluate"
  /\ Goto("export") \/ Raise("classify", "other")
  /\ Quiet /\ UNCHANGED current /\ Alone

Export ==
  /\ main.at = "export"
  /\ Goto("complete") \/ Raise("classify", "export")
  /\ Quiet /\ UNCHANGED current /\ Alone

\* publishing: the payload of COMPLETED, a checkpoint, the event.
Complete ==
  /\ main.at = "complete"
  /\ \/ Raise("classify", "export") /\ Quiet /\ UNCHANGED current
     \/ RaiseControl("report", current) /\ Quiet /\ UNCHANGED current
     \/ MayGoOn /\ Goto("done") /\ Emit("COMPLETED", "COMPLETED", NoCode, 0) /\ NoFault
     \/ /\ MayGoOn /\ Raise("classify", "export")
        /\ Unpublished("COMPLETED", "COMPLETED", NoCode, 0, current)
  /\ Alone

\* What the cause tells, where it does.
OfCause(phase) ==
  [export      |-> <<"MODEL_EXPORT_FAILED", "EVALUATING">>,
   query       |-> <<"DATA_QUERY_FAILED", "LOADING_DATA">>,
   small       |-> <<"DATA_QUERY_FAILED", "LOADING_DATA">>,
   columns     |-> <<"EXECUTION_FAILED", "LOADING_DATA">>,
   empty       |-> <<"EMPTY_DATASET", "LOADING_DATA">>,
   unreachable |-> <<"DATA_SOURCE_UNREACHABLE", phase>>]

\* What the phase tells.
OfPhase(phase) ==
  CASE phase \in {"LOADING_DATA", "DATA_SPLITTING"} -> <<"DATA_QUERY_FAILED", phase>>
    [] phase = "EVALUATING"      -> <<"EVALUATION_FAILED", phase>>
    [] OTHER                     -> <<"TRAINING_FAILED", phase>>

\* Mutant: only the phase tells.
Verdict_ByPhase(cause, phase) == OfPhase(phase)

\* _classify_training_failure(): the cause where it tells, else the phase.
Verdict(cause, phase) ==
  IF cause \in DOMAIN OfCause(phase) THEN OfCause(phase)[cause] ELSE OfPhase(phase)

Classify ==
  /\ main.at = "classify"
  /\ LET verdict == Verdict(main.cause, current)
     IN  main' = [main EXCEPT !.at = "report", !.code = verdict[1], !.phase = verdict[2]]
  /\ Quiet /\ UNCHANGED current /\ Alone

\* main() of the driver: the terminal event of what was raised.
Answer ==
  IF main.cause = "config" THEN <<"FAILED", "INVALID_PAYLOAD", "QUEUED">>
  ELSE IF main.code = "CANCELLED" THEN <<"CANCELLED", NoCode, main.phase>>
  ELSE <<"FAILED", main.code, main.phase>>

Report ==
  /\ main.at = "report" /\ Goto("done")
  /\ \/ Emit(Answer[1], Answer[3], Answer[2], 0) /\ NoFault
     \/ Unpublished(Answer[1], Answer[3], Answer[2], 0, current)
  /\ Alone

-----------------------------------------------------------------------------

Main ==
  \/ Config \/ Control \/ Prepare \/ AutoTuning \/ Load \/ Rows \/ Split \/ Divide \/ Execute
  \/ FitEnds \/ FitFails \/ FinishStop \/ Join \/ Drain \/ FirstRound \/ LastRound
  \/ Evidence \/ Materialize \/ Evaluate \/ Export \/ Complete \/ Classify \/ Report

Pump == PumpGet \/ PumpPublish \/ PumpEnds

Next == Main \/ TrainRound \/ Pump \/ RequestStop

\* Both threads run, and so does the fit: it ends, well or badly.
Spec == Init /\ [][Next]_vars /\ WF_vars(Main) /\ WF_vars(Pump)

-----------------------------------------------------------------------------
(* Properties *)

Pipeline == <<"QUEUED", "LOADING_DATA", "DATA_SPLITTING", "TRAINING", "EVALUATING",
              "COMPLETED">>

Position(phase) == CHOOSE i \in DOMAIN Pipeline : Pipeline[i] = phase

Phases == {Pipeline[n] : n \in DOMAIN Pipeline}

MainPlaces ==
  {"config", "control", "prepare", "auto", "load", "rows", "split", "divide", "execute",
   "fit", "finish", "join", "drain", "first", "last", "evidence", "materialize",
   "evaluate", "export", "complete", "classify", "report", "done"}

Causes ==
  {"config", "control", "redis", "query", "columns", "unreachable", "empty", "small",
   "export", "other"}

MainOK ==
  main \in [at : MainPlaces, stage : MainPlaces \cup {""}, cause : Causes \cup {""},
            code : ProtocolCodes(op) \cup OpaqueCodes \cup {"CANCELLED", NoCode},
            phase : Phases \cup {NoPhase}]

FitOK ==
  /\ worker \in [trained : 0..Rounds, missed : BOOLEAN]
  /\ queue \in Seq(1..worker.trained) /\ reported \subseteq 1..worker.trained
  /\ pump \in [at : {"off", "get", "publish", "dead"}, round : 0..worker.trained,
               stop : BOOLEAN]
  /\ pump.at = "publish" => pump.round > 0

WireEvents ==
  [type : WireTypes(op), phase : Phases, code : ProtocolCodes(op) \cup {NoCode}, round : Nat]

OutputOK ==
  /\ events \in Seq(WireEvents)
  /\ \A i \in 1..Len(events) : events[i].round <= worker.trained
  /\ current \in Phases
  /\ stop \in StopCodes \cup {NoCode} /\ late \in BOOLEAN /\ faults \in Nat

\* Every variable has its type: only KnoVa's training phases and codes reach
\* the wire or the reporter's memory, and a round is one that was trained.
TypeOK == MainOK /\ FitOK /\ OutputOK

Ended(type) == Closed /\ events[Len(events)].type = type

ReportedRound(round) == \E i \in DOMAIN events : events[i].round = round

\* A completed training has reported its first and its last round, whatever
\* got lost in the queue or on the way to Redis.
FirstAndLastReported ==
  Ended("COMPLETED") => ReportedRound(1) /\ ReportedRound(worker.trained)

\* As long as every publication succeeds and the pump ends in time, a reader
\* sees every round once and in order, although two threads publish them.
RoundsMoveForward ==
  faults = 0 /\ ~late =>
    \A i, j \in DOMAIN events :
      i < j /\ events[i].round > 0 /\ events[j].round > 0 =>
        events[i].round < events[j].round

\* Unless the main thread has given up on the pump, the phases a reader sees
\* before the outcome never go back.
PhasesMoveForward ==
  ~late =>
    \A i, j \in DOMAIN events :
      i < j /\ ~IsTerminal(events[j]) =>
        Position(events[i].phase) <= Position(events[j].phase)

\* What a reader sees goes forward, although two threads publish it.
ReaderGoesForward == RoundsMoveForward /\ PhasesMoveForward

CodesOf(stage) ==
  CASE stage = "config"               -> {"INVALID_PAYLOAD"}
    [] stage \in {"load", "rows"}     -> {"DATA_QUERY_FAILED", "DATA_SOURCE_UNREACHABLE"}
    [] stage = "divide"               -> {"EMPTY_DATASET", "DATA_QUERY_FAILED"}
    [] stage \in {"fit", "evidence"}  -> {"TRAINING_FAILED"}
    [] stage = "evaluate"             -> {"EVALUATION_FAILED"}
    [] stage \in {"export", "complete"} -> {"MODEL_EXPORT_FAILED"}
    [] OTHER                          -> {}

\* A failure is reported with the code of the stage that failed, although it
\* is told from a phase that another thread writes too.
FailureNamesStage ==
  Ended("FAILED") /\ main.cause # "control" /\ faults = 0 /\ ~late =>
    events[Len(events)].code \in CodesOf(main.stage)

\* Both threads end, whatever fails: the pump is stopped on every way out.
Terminates == <>[](main.at = "done" /\ pump.at \in {"off", "dead"})

-----------------------------------------------------------------------------
(* The inductive invariant *)

Alive == pump.at \in {"get", "publish"}

BeforeFit ==
  {"config", "control", "prepare", "auto", "load", "rows", "split", "divide", "execute"}

\* finish(), which may be called twice.
InFinish == {"finish", "join", "drain", "first", "last"}

AfterFit == {"evidence", "materialize", "evaluate", "export", "complete"}

\* What may go wrong in a stage as long as every publication succeeds.
CausesOf(stage) ==
  CASE stage = "config" -> {"config"}
    [] stage = "load"   -> {"query", "columns"}
    [] stage = "rows"   -> {"query", "unreachable"}
    [] stage = "divide" -> {"empty", "small", "other"}
    [] stage \in {"fit", "evidence", "evaluate"} -> {"other"}
    [] stage \in {"export", "complete"}          -> {"export"}
    [] OTHER            -> {}

\* The phase the reporter is in while the main thread is at a place.
PhaseAt(place) ==
  CASE place \in {"config", "control", "prepare"}      -> "QUEUED"
    [] place \in {"auto", "load", "rows", "split"}     -> "LOADING_DATA"
    [] place \in {"divide", "execute"}                 -> "DATA_SPLITTING"
    [] place \in {"evaluate", "export", "complete"}    -> "EVALUATING"
    [] OTHER                                           -> "TRAINING"

\* Only a failure takes the main thread out of its way.
WayOut ==
  /\ main.at \in BeforeFit \cup {"fit"} \cup AfterFit => main.cause = ""
  /\ main.at \in {"classify", "report"} => main.cause # ""
  /\ main.cause = "" => main.stage = ""
  /\ main.at \in InFinish => main.stage \in {"", "fit"} \cup InFinish

\* The pump runs from the fit to the join that ends it, or gives up on it.
PumpPlace ==
  /\ main.at \in BeforeFit => pump.at = "off"
  /\ main.at \in {"fit"} \cup InFinish \cup AfterFit => pump.at # "off"
  /\ pump.at = "off" =>
       worker.trained = 0 /\ ~worker.missed /\ queue = <<>> /\ reported = {} /\ ~late
  /\ Alive /\ ~late => main.at \in {"fit", "finish", "join"}

\* finish() leaves no doubt about the first and the last round of a fit that
\* returned.
MadeUp ==
  /\ main.at \in InFinish /\ main.stage # "fit" => worker.trained > 0
  /\ main.at = "last" /\ main.stage # "fit" => 1 \in reported
  /\ main.at \in AfterFit => {1, worker.trained} \subseteq reported

Punctual == faults = 0 /\ ~late /\ stop = NoCode

Held == IF pump.at = "publish" THEN 1 ELSE 0

\* The rounds that are neither in the queue nor in the hands of the pump.
Seen == worker.trained - Len(queue) - Held

\* What has been reported, what the pump holds and what is in the queue are all
\* rounds, in order, and each once.
RoundsInOrder ==
  /\ faults = 0 => ~worker.missed
  /\ Punctual =>
       /\ Seen >= 0 /\ reported = 1..Seen
       /\ pump.at = "publish" => pump.round = Seen + 1
       /\ \A i \in 1..Len(queue) : queue[i] = Seen + Held + i
       /\ \A i \in 1..Len(events) : events[i].round <= Seen
       /\ main.at \in {"first", "last"} => queue = <<>>

\* The phase says where the main thread is, and where it was when it failed.
PhaseKnown ==
  ~late =>
    /\ main.at \notin {"classify", "report", "done"} => current = PhaseAt(main.at)
    /\ main.at = "classify" /\ faults = 0 => current = PhaseAt(main.stage)

\* What has been raised, and what is made of it, fits the stage.
CauseFits ==
  faults = 0 /\ ~late /\ main.cause \notin {"", "control"} =>
    /\ main.cause \in CausesOf(main.stage)
    /\ main.at = "report" =>
         \/ main.cause = "config"
         \/ <<main.code, main.phase>> = Verdict(main.cause, PhaseAt(main.stage))

\* Where the threads are, and what they know.
ThreadsOK == WayOut /\ PumpPlace /\ MadeUp /\ RoundsInOrder /\ PhaseKnown /\ CauseFits

\* Only the last event is an outcome, and the main thread is through by then
\* unless it is told that COMPLETED failed.
OutcomeIsLast ==
  /\ \A i \in 1..Len(events) : IsTerminal(events[i]) => i = Len(events)
  /\ Closed => \/ main.at = "done"
               \/ main.at \in {"classify", "report"} /\ Ended("COMPLETED")

\* What the pump takes for reported is on the stream.
ReportedIsTrue == ~Closed => \A round \in reported : ReportedRound(round)

\* No phase of an event is ahead of the reporter's.
PhasesReached ==
  ~late =>
    \A i \in 1..Len(events) :
      ~IsTerminal(events[i]) => Position(events[i].phase) <= Position(current)

\* What the events say of it.
EventsOK ==
  /\ OutcomeIsLast /\ ReportedIsTrue /\ PhasesReached
  /\ FirstAndLastReported /\ RoundsMoveForward /\ PhasesMoveForward /\ FailureNamesStage

\* The properties above follow from it, and every step keeps it.
IInv == TypeOK /\ ThreadsOK /\ EventsOK
=============================================================================
