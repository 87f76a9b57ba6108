----------------------------- MODULE Lifecycle -----------------------------
(***************************************************************************)
(* One operation, from the task stream to its terminal event.  Four actors *)
(* work on it without a lock between them: the Consumer's main thread      *)
(* admits the delivery and submits a Ray job, its watcher thread follows   *)
(* the job, Ray runs or stops it, and the driver in the job does the work. *)
(* All of them write to the operation's event stream through a reporter.   *)
(* The Consumer may crash and restart, calls to Redis may fail before or   *)
(* after their effect, a submission may be left unconfirmed, and the job   *)
(* may die at any moment.                                                  *)
(***************************************************************************)
EXTENDS EventScript

CONSTANTS
  OpType,           \* the operation_type
  Deliveries,       \* task stream entries that carry this operation
  Requests,         \* the sets of entries whose request may be well-formed
  MaxProgress,      \* progress events the driver publishes
  Timeout,          \* limits.timeout_seconds, in ticks of the clock
  MaxClock,         \* bound of the clock
  MaxCrashes,       \* bound: crashes of the Consumer
  MaxFaults,        \* bound: calls to Redis or Ray that fail
  MaxUnconfirmed,   \* bound: submissions that raise although Ray has the job
  Cancellable       \* may the client set the cancel key?

ASSUME LifecycleAssumption ==
  /\ OpType \in OperationTypes
  /\ Requests \subseteq SUBSET Deliveries
  /\ {MaxProgress, Timeout, MaxClock} \subseteq Nat
  /\ {MaxCrashes, MaxFaults, MaxUnconfirmed} \subseteq Nat
  /\ Cancellable \in BOOLEAN

VARIABLES
  valid,      \* the entries with a well-formed request
  delivery,   \* delivery[d]: absent, new, pending (read, not ACKed) or acked
  cancel,     \* the cancel key exists
  clock,
  stream,     \* the operation's event stream
  closer,     \* history: who appended the terminal event
  job,        \* [status, deadline, stop]: the Ray job and its metadata
  driver,     \* [at, memory, done, code]: the driver process in the job
  written,    \* history: the results are in the result table
  up,         \* the Consumer process is running
  main,       \* [at, delivery, deadline]: its main thread
  active,     \* the operation's entry in active_submissions
  watch,      \* [at, deadline, status, memory, call, code]: its watcher thread
  requested,  \* [cancel, timeout]: the operation is in _stop_requested / _timeout_requested
  spent       \* [crashes, faults, unconfirmed]: bounds used up

channel  == <<valid, delivery, cancel, clock>>
events   == <<stream, closer>>
ray      == <<job, driver, written>>
consumer == <<up, main, active, watch, requested>>

vars == <<channel, events, ray, consumer, spent>>

-----------------------------------------------------------------------------
(* Reporters *)

Fresh == Restored(OpType, stream)

\* publish() of a reporter with this memory.
EventFrom(memory, call, phase, code, rows) ==
  EventOf(OpType, call, phase, code, rows, memory.phase, memory.rows)

Append1(by, event) ==
  /\ stream' = Stored(stream, event)
  /\ closer' = IF Reply(stream, event) = "added" /\ IsTerminal(event)
               THEN by ELSE closer

Publish(by, memory, event) ==
  IF Sends(memory, event) THEN Append1(by, event) ELSE UNCHANGED events

\* A call to Redis or Ray fails; it may have had its effect all the same.
Fault == /\ spent.faults < MaxFaults
         /\ spent' = [spent EXCEPT !.faults = @ + 1]

PublishFails(by, memory, event) ==
  Fault /\ (UNCHANGED events \/ Publish(by, memory, event))

\* The terminal event of a reporter that has the control outcome "code".
ControlEvent(memory, code, phase) ==
  IF code = "CANCELLED"
  THEN EventFrom(memory, "CANCELLED", phase, NoCode, NoRows)
  ELSE EventFrom(memory, "FAILED", phase, code, NoRows)

-----------------------------------------------------------------------------

NoEntry == [known |-> FALSE, deadline |-> 0]
Entry(deadline) == [known |-> TRUE, deadline |-> deadline]

NotWatching == [at |-> "idle", deadline |-> 0, status |-> "none",
                memory |-> Restored(OpType, <<>>), code |-> NoCode]

NoDriver == [at |-> "none", memory |-> Restored(OpType, <<>>), done |-> 0,
             code |-> NoCode]

MainIdle == [at |-> "idle", delivery |-> "none", deadline |-> 0]

NothingRequested == [cancel |-> FALSE, timeout |-> FALSE]

Init ==
  /\ valid \in Requests
  /\ delivery = [d \in Deliveries |-> "absent"]
  /\ cancel = FALSE
  /\ clock = 0
  /\ stream = <<>>
  /\ closer = "nobody"
  /\ job = [status |-> "none", deadline |-> 0, stop |-> "no"]
  /\ driver = NoDriver
  /\ written = FALSE
  /\ up = FALSE
  /\ main = MainIdle
  /\ active = NoEntry
  /\ watch = NotWatching
  /\ requested = NothingRequested
  /\ spent = [crashes |-> 0, faults |-> 0, unconfirmed |-> 0]

-----------------------------------------------------------------------------
(* The client and the clock *)

Send(d) ==
  /\ delivery[d] = "absent"
  /\ delivery' = [delivery EXCEPT ![d] = "new"]
  /\ UNCHANGED <<valid, cancel, clock, events, ray, consumer, spent>>

AskCancel ==
  /\ Cancellable /\ ~cancel
  /\ cancel' = TRUE
  /\ UNCHANGED <<valid, delivery, clock, events, ray, consumer, spent>>

Tick ==
  /\ clock < MaxClock
  /\ clock' = clock + 1
  /\ UNCHANGED <<valid, delivery, cancel, events, ray, consumer, spent>>

-----------------------------------------------------------------------------
(* The Consumer process *)

\* Mutant: only the jobs that still run are recovered.
Recovered_RunningOnly ==
  IF job.status = "running" /\ ~Closed(stream) THEN Entry(job.deadline) ELSE NoEntry

\* _recover_active_submissions(): every job Ray lists, the ended ones too,
\* unless its operation has its terminal event.
Recovered ==
  IF job.status # "none" /\ ~Closed(stream) THEN Entry(job.deadline) ELSE NoEntry

\* start()
Start ==
  /\ ~up
  /\ up' = TRUE
  /\ active' = Recovered
  /\ UNCHANGED <<channel, events, ray, main, watch, requested, spent>>

Down ==
  /\ up' = FALSE
  /\ main' = MainIdle
  /\ active' = NoEntry
  /\ watch' = NotWatching
  /\ requested' = NothingRequested

Crash ==
  /\ up
  /\ spent.crashes < MaxCrashes
  /\ spent' = [spent EXCEPT !.crashes = @ + 1]
  /\ Down
  /\ UNCHANGED <<channel, events, ray>>

\* An exception nobody catches in the main thread ends the process.
Escapes == Fault /\ Down /\ UNCHANGED <<channel, events, ray>>

-----------------------------------------------------------------------------
(* The main thread: run_once() and handle() *)

Goto(place) == main' = [main EXCEPT !.at = place]

\* Mutant: the delivery is ACKed whatever handle() returned.
Retry_Acks == Goto("ack")

\* RETRY: the delivery stays pending, for a later XAUTOCLAIM.
Retry == main' = MainIdle

\* Mutant: nothing claims the pending deliveries.
Readable_NewOnly == {"new"}

Readable == {"new", "pending"}

\* poll(): a new delivery or one claimed from the pending list.  The message
\* gets its received_at now, whenever it was first read.
Poll(d) ==
  /\ up /\ main.at = "idle"
  /\ delivery[d] \in Readable
  /\ delivery' = [delivery EXCEPT ![d] = "pending"]
  /\ main' = [at |-> "cancel", delivery |-> d, deadline |-> clock + Timeout]
  /\ UNCHANGED <<valid, cancel, clock, events, ray, up, active, watch, requested, spent>>

MainLocal == UNCHANGED <<channel, ray, up, watch, requested>>

\* Mutant: admission reports the cancellation of a job it knows.
AfterCancelCheck_IgnoresJob ==
  CASE cancel                                -> "refuse"
    [] ~cancel /\ main.delivery \in valid    -> "resume"
    [] ~cancel /\ main.delivery \notin valid -> "invalid"

AfterCancelCheck ==
  CASE cancel /\ active.known                -> "ack"
    [] cancel /\ ~active.known               -> "refuse"
    [] ~cancel /\ main.delivery \in valid    -> "resume"
    [] ~cancel /\ main.delivery \notin valid -> "invalid"

\* Cancellation is looked at before the request is, and wins over it.
CheckCancel ==
  /\ main.at = "cancel"
  /\ \/ Goto(AfterCancelCheck) /\ UNCHANGED spent
     \/ Fault /\ Retry
  /\ MainLocal /\ UNCHANGED <<events, active>>

\* Mutant: the refused delivery falls through to the submission.
Refuse_FallsThrough ==
  LET event == EventFrom(Fresh, "CANCELLED", "QUEUED", NoCode, NoRows)
  IN  /\ main.at = "refuse"
      /\ \/ Publish("admission", Fresh, event) /\ Goto("submit") /\ UNCHANGED spent
         \/ PublishFails("admission", Fresh, event) /\ Retry
      /\ MainLocal /\ UNCHANGED active

\* CANCELLED before admission.
Refuse ==
  LET event == EventFrom(Fresh, "CANCELLED", "QUEUED", NoCode, NoRows)
  IN  /\ main.at = "refuse"
      /\ \/ Publish("admission", Fresh, event) /\ Goto("ack") /\ UNCHANGED spent
         \/ PublishFails("admission", Fresh, event) /\ Retry
      /\ MainLocal /\ UNCHANGED active

\* _invalid(): a publication that fails is logged, and the delivery ACKed.
Reject ==
  LET event == EventFrom(Fresh, "FAILED", "ADMISSION", "INVALID_REQUEST", NoRows)
  IN  /\ main.at = "invalid"
      /\ \/ Publish("admission", Fresh, event) /\ UNCHANGED spent
         \/ PublishFails("admission", Fresh, event)
      /\ Goto("ack")
      /\ MainLocal /\ UNCHANGED active

Accepted == EventFrom(Fresh, "ACCEPTED", "ADMITTED", NoCode, NoRows)

\* _resume_existing_submission(): the operation already has a Ray job.
Resume ==
  /\ main.at = "resume"
  /\ \/ /\ ~active.known
        /\ Goto("second")
        /\ UNCHANGED <<events, active, spent>>
     \/ /\ active.known /\ Closed(stream)
        /\ active' = NoEntry
        /\ Goto("ack")
        /\ UNCHANGED <<events, spent>>
     \/ /\ active.known /\ ~Closed(stream)
        /\ \/ Publish("admission", Fresh, Accepted) /\ Goto("ack") /\ UNCHANGED spent
           \/ PublishFails("admission", Fresh, Accepted) /\ Retry
        /\ UNCHANGED active
  /\ MainLocal

\* The second look at the cancel key, just before the submission.
CheckCancelAgain ==
  /\ main.at = "second"
  /\ \/ Goto(IF cancel THEN "refuse" ELSE "submit") /\ UNCHANGED spent
     \/ Fault /\ Retry
  /\ MainLocal /\ UNCHANGED <<events, active>>

\* Reading the stream outside every try block: to see whether a recovered job
\* is over, and to construct the admission's reporter.
ReadEscapes == main.at \in {"resume", "second"} /\ Escapes

CreateJob ==
  IF job.status = "none"
  THEN /\ job' = [status |-> "running", deadline |-> main.deadline, stop |-> "no"]
       /\ driver' = [NoDriver EXCEPT !.at = "boot"]
  ELSE UNCHANGED <<job, driver>>

\* submit_ray_job(): the submission identity is deterministic, so a job that
\* exists is taken for the answer of an ambiguous submission.
Submit ==
  /\ main.at = "submit"
  /\ \/ CreateJob /\ Goto("put") /\ UNCHANGED spent
     \/ Fault /\ Retry /\ UNCHANGED <<job, driver>>
     \/ /\ spent.unconfirmed < MaxUnconfirmed
        /\ spent' = [spent EXCEPT !.unconfirmed = @ + 1]
        /\ CreateJob /\ Retry
  /\ UNCHANGED <<channel, events, written, up, active, watch, requested>>

Put ==
  /\ main.at = "put"
  /\ active' = Entry(main.deadline)
  /\ Goto("admit")
  /\ MainLocal /\ UNCHANGED <<events, spent>>

Admit ==
  /\ main.at = "admit"
  /\ \/ Publish("admission", Fresh, Accepted) /\ Goto("ack") /\ UNCHANGED spent
     \/ PublishFails("admission", Fresh, Accepted) /\ Retry
  /\ MainLocal /\ UNCHANGED active

Ack ==
  /\ main.at = "ack"
  /\ delivery' = [delivery EXCEPT ![main.delivery] = "acked"]
  /\ main' = MainIdle
  /\ UNCHANGED <<valid, cancel, clock, events, ray, up, active, watch, requested, spent>>

AckEscapes == main.at = "ack" /\ Escapes

MainStep ==
  \/ \E d \in Deliveries : Poll(d)
  \/ CheckCancel \/ Refuse \/ Reject \/ Resume \/ CheckCancelAgain
  \/ Submit \/ Put \/ Admit \/ Ack

-----------------------------------------------------------------------------
(* The watcher thread: CancelWatcher.check_once() *)

WatchLocal == UNCHANGED <<channel, ray, up, main>>

\* The entry is dropped, with the memory of what was asked of Ray.
Forget == active' = NoEntry /\ requested' = NothingRequested

TimedOut(deadline) == clock >= deadline

\* Is the terminal event there?
WatchStream ==
  /\ up /\ watch.at = "idle" /\ active.known
  /\ IF Closed(stream)
     THEN Forget /\ UNCHANGED watch
     ELSE /\ watch' = [watch EXCEPT !.at = "status", !.deadline = active.deadline]
          /\ UNCHANGED <<active, requested>>
  /\ WatchLocal /\ UNCHANGED <<events, spent>>

WatchStatus ==
  /\ watch.at = "status"
  /\ watch' = [watch EXCEPT !.at = "decide", !.status = job.status]
  /\ WatchLocal /\ UNCHANGED <<events, active, requested, spent>>

\* timeout_stop: was, or would, the job be stopped for its deadline?
TimeoutStop ==
  \/ requested.timeout
  \/ TimedOut(watch.deadline) /\ ~cancel /\ ~requested.cancel

\* The outcome of a job that ended without a terminal event.
EndedWith ==
  CASE TimeoutStop                             -> "EXECUTION_TIMEOUT"
    [] ~TimeoutStop /\ watch.status = "failed"    -> "RAY_JOB_FAILED"
    [] ~TimeoutStop /\ watch.status = "succeeded" -> "TERMINAL_EVENT_MISSING"
    [] OTHER -> IF cancel \/ requested.cancel THEN "CANCELLED" ELSE "RAY_JOB_STOPPED"

HasEnded == watch.status \in {"succeeded", "failed", "stopped"}

\* Mutant: the deadline is the driver's alone to keep.
MustStop_CancelOnly == cancel

MustStop == cancel \/ TimedOut(watch.deadline)

WatchDecide ==
  /\ watch.at = "decide"
  /\ \/ /\ \/ /\ HasEnded
              /\ watch' = [watch EXCEPT !.at = "report", !.code = EndedWith]
           \/ /\ watch.status = "running" /\ MustStop
              /\ watch' = [watch EXCEPT !.at = "stop",
                                        !.code = IF cancel THEN "cancel" ELSE "timeout"]
           \/ /\ watch.status = "running" /\ ~MustStop
              /\ watch' = NotWatching
        /\ UNCHANGED spent
     \/ Fault /\ watch' = NotWatching
  /\ WatchLocal /\ UNCHANGED <<events, active, requested>>

\* The first request to stop the job says what it was stopped for.
AskStop ==
  job' = IF job.status = "running" /\ job.stop = "no"
         THEN [job EXCEPT !.stop = watch.code] ELSE job

\* stop_ray_job(), then the operation joins one of the two sets.
WatchStop ==
  /\ watch.at = "stop"
  /\ \/ /\ AskStop
        /\ requested' = IF watch.code = "cancel"
                        THEN [requested EXCEPT !.cancel = TRUE]
                        ELSE [requested EXCEPT !.timeout = TRUE]
        /\ UNCHANGED spent
     \/ /\ Fault
        /\ AskStop \/ UNCHANGED job
        /\ UNCHANGED requested
  /\ watch' = NotWatching
  /\ UNCHANGED <<channel, events, driver, written, up, main, active>>

\* _reporter(item): a reporter that restores the driver's progress.
WatchConstruct ==
  /\ watch.at = "report"
  /\ \/ watch' = [watch EXCEPT !.at = "publish", !.memory = Fresh] /\ UNCHANGED spent
     \/ Fault /\ watch' = NotWatching
  /\ WatchLocal /\ UNCHANGED <<events, active, requested>>

\* _report_failed() or _report_cancelled(), and the entry is dropped.
WatchPublish ==
  LET event == ControlEvent(watch.memory, watch.code,
                            IF watch.code = "CANCELLED" THEN "CANCELLED" ELSE "FAILED")
  IN  /\ watch.at = "publish"
      /\ \/ Publish("watcher", watch.memory, event) /\ Forget /\ UNCHANGED spent
         \/ /\ PublishFails("watcher", watch.memory, event)
            /\ UNCHANGED <<active, requested>>
      /\ watch' = NotWatching
      /\ WatchLocal

WatchStep ==
  WatchStream \/ WatchStatus \/ WatchDecide \/ WatchStop
    \/ WatchConstruct \/ WatchPublish

-----------------------------------------------------------------------------
(* Ray and the driver: execution_driver.main() *)

RayLocal == UNCHANGED <<channel, consumer>>

JobEnds(status) ==
  /\ job' = [job EXCEPT !.status = status]
  /\ driver' = NoDriver

\* The stop takes effect: the driver is killed wherever it is.
RayStops ==
  /\ job.status = "running" /\ job.stop # "no"
  /\ JobEnds("stopped")
  /\ RayLocal /\ UNCHANGED <<events, written, spent>>

\* The driver could not start, was killed by the kernel, or lost its node.
JobDies ==
  /\ job.status = "running"
  /\ JobEnds("failed")
  /\ RayLocal /\ UNCHANGED <<events, written, spent>>

DriverAt(place) == job.status = "running" /\ driver.at = place

Become(place) == driver' = [driver EXCEPT !.at = place]

\* The outcome of check_control(): "" when the driver may go on.
Control ==
  CASE driver.memory.terminal                              -> NoCode
    [] ~driver.memory.terminal /\ cancel                   -> "CANCELLED"
    [] ~driver.memory.terminal /\ ~cancel /\ TimedOut(job.deadline) -> TimeoutCode(OpType)
    [] OTHER                                               -> NoCode

\* ExecutionControlError, with the phase the reporter is in.
RaisesControl(phase) ==
  /\ Control # NoCode
  /\ driver' = [driver EXCEPT !.at = "raised", !.code = Control,
                              !.memory.phase = MapPhase(OpType, phase)]

\* Any other exception of the driver's work, also of a call to Redis.
Breaks == driver' = [driver EXCEPT !.at = "failing"]

DriverLocal == RayLocal /\ UNCHANGED job

DriverConstruct ==
  /\ DriverAt("boot")
  /\ \/ driver' = [driver EXCEPT !.at = "control", !.memory = Fresh] /\ UNCHANGED <<job, spent>>
     \/ Fault /\ JobEnds("failed")
  /\ RayLocal /\ UNCHANGED <<events, written>>

\* The checkpoints before the work, and ray.init and the validation.
DriverBegin ==
  /\ DriverAt("control")
  /\ \/ Control = NoCode /\ Become("work") /\ UNCHANGED spent
     \/ RaisesControl(driver.memory.phase) /\ UNCHANGED spent
     \/ Breaks /\ (UNCHANGED spent \/ Fault)
  /\ DriverLocal /\ UNCHANGED <<events, written>>

\* One round of work: a checkpoint and a progress event.
DriverProgress ==
  LET n     == driver.done + 1
      event == EventFrom(driver.memory,
                         IF OpType = "training" THEN "METRICS" ELSE "PROGRESS",
                         "EXECUTING", NoCode, n)
  IN  /\ DriverAt("work") /\ driver.done < MaxProgress
      /\ \/ /\ Control = NoCode
            /\ Publish("driver", driver.memory, event)
            /\ driver' = [driver EXCEPT
                 !.done = n,
                 !.memory = IF Sends(@, event)
                            THEN Settled(@, event, Reply(stream, event)) ELSE @]
            /\ UNCHANGED spent
         \/ RaisesControl("EXECUTING") /\ UNCHANGED <<events, spent>>
         \/ Breaks /\ UNCHANGED <<events, spent>>
         \/ Control = NoCode /\ Breaks /\ PublishFails("driver", driver.memory, event)
      /\ DriverLocal /\ UNCHANGED written

\* The results are appended to the result table, or the bundle is uploaded.
DriverWrite ==
  /\ DriverAt("work") /\ driver.done = MaxProgress
  /\ \/ /\ Control = NoCode
        /\ written' = TRUE
        /\ driver' = [driver EXCEPT !.at = "complete",
                        !.memory.phase = MapPhase(OpType, "MATERIALIZING")]
        /\ UNCHANGED spent
     \/ RaisesControl("MATERIALIZING") /\ UNCHANGED <<written, spent>>
     \/ Breaks /\ UNCHANGED written /\ (UNCHANGED spent \/ Fault)
  /\ DriverLocal /\ UNCHANGED events

\* publish("COMPLETED"), which is a checkpoint too.
DriverComplete ==
  LET event == EventFrom(driver.memory, "COMPLETED", "COMPLETED", NoCode, MaxProgress)
  IN  /\ DriverAt("complete")
      /\ \/ /\ Control = NoCode
            /\ Publish("driver", driver.memory, event)
            /\ Become("succeeded") /\ UNCHANGED spent
         \/ RaisesControl(driver.memory.phase) /\ UNCHANGED <<events, spent>>
         \/ Control = NoCode /\ PublishFails("driver", driver.memory, event) /\ Breaks
      /\ DriverLocal /\ UNCHANGED written

\* main()'s handlers.  A handler's own publication is not retried: its
\* exception leaves main(), and the job fails.
DriverReport ==
  LET event == IF driver.at = "raised"
               THEN ControlEvent(driver.memory, driver.code, driver.memory.phase)
               ELSE EventFrom(driver.memory, "FAILED", "EXECUTING",
                              "EXECUTION_FAILED", NoRows)
  IN  /\ DriverAt("raised") \/ DriverAt("failing")
      /\ \/ Publish("driver", driver.memory, event) /\ UNCHANGED spent
         \/ PublishFails("driver", driver.memory, event)
      /\ Become("failed")
      /\ DriverLocal /\ UNCHANGED written

\* The process ends, and Ray takes the job's status from its exit code.
DriverExit ==
  /\ DriverAt("succeeded") \/ DriverAt("failed")
  /\ JobEnds(driver.at)
  /\ RayLocal /\ UNCHANGED <<events, written, spent>>

DriverStep ==
  DriverConstruct \/ DriverBegin \/ DriverProgress \/ DriverWrite
    \/ DriverComplete \/ DriverReport \/ DriverExit

-----------------------------------------------------------------------------

Next ==
  \/ \E d \in Deliveries : Send(d)
  \/ AskCancel \/ Tick
  \/ Start \/ Crash
  \/ MainStep \/ ReadEscapes \/ AckEscapes
  \/ WatchStep
  \/ RayStops \/ JobDies \/ DriverStep

Spec == Init /\ [][Next]_vars

\* The Consumer is supervised, its two threads run, and Ray carries out a stop.
\* The client, the clock and the faults are not fair, nor is the driver: it may
\* hang anywhere.
FairSpec ==
  Spec /\ WF_vars(Start) /\ WF_vars(MainStep) /\ WF_vars(WatchStep) /\ WF_vars(RayStops)

DriverRuns == WF_vars(DriverStep)

-----------------------------------------------------------------------------
(* Properties *)

Outcome == IF Closed(stream) THEN stream[Len(stream)] ELSE
             [type |-> "open", phase |-> NoPhase, code |-> NoCode,
              rows |-> NoRows, call |-> ""]

JobEnded == job.status \in {"succeeded", "failed", "stopped"}

Statuses == {"none", "running", "succeeded", "failed", "stopped"}

Jobs == [status : Statuses, deadline : Nat, stop : {"no", "cancel", "timeout"}]

Drivers ==
  [at : {"none", "boot", "control", "work", "complete", "raised", "failing",
         "succeeded", "failed"},
   memory : Reporter(OpType), done : 0..MaxProgress,
   code : {NoCode, "CANCELLED", TimeoutCode(OpType)}]

MainThreads ==
  [at : {"idle", "cancel", "refuse", "invalid", "resume", "second", "submit", "put",
         "admit", "ack"},
   delivery : Deliveries \cup {"none"}, deadline : Nat]

Watchers ==
  [at : {"idle", "status", "decide", "stop", "report", "publish"}, deadline : Nat,
   status : Statuses, memory : Reporter(OpType),
   code : {NoCode, "cancel", "timeout", "CANCELLED", "EXECUTION_TIMEOUT",
           "RAY_JOB_FAILED", "RAY_JOB_STOPPED", "TERMINAL_EVENT_MISSING"}]

Bounds == [crashes : 0..MaxCrashes, faults : 0..MaxFaults, unconfirmed : 0..MaxUnconfirmed]

\* Every variable has its type: only phases, codes and statuses that the four
\* actors know of.
TypeOK ==
  /\ valid \in Requests
  /\ delivery \in [Deliveries -> {"absent", "new", "pending", "acked"}]
  /\ cancel \in BOOLEAN /\ written \in BOOLEAN /\ up \in BOOLEAN
  /\ clock \in 0..MaxClock
  /\ stream \in Seq(Event(OpType)) /\ Len(stream) <= MaxLen
  /\ closer \in {"nobody", "admission", "watcher", "driver"}
  /\ job \in Jobs /\ driver \in Drivers
  /\ main \in MainThreads /\ watch \in Watchers
  /\ active \in [known : BOOLEAN, deadline : Nat]
  /\ requested \in [cancel : BOOLEAN, timeout : BOOLEAN]
  /\ spent \in Bounds

\* Whoever of admission and watcher closes the stream, the operation's Ray job
\* is not at work: cancellation of a running job is the watcher's to report,
\* and only once Ray says the job has ended.
StoppedBeforeReported ==
  Closed(stream) /\ closer \in {"admission", "watcher"} => job.status # "running"

\* An ACKed request is never dropped: while its outcome is open, a running
\* Consumer follows its job, and so notices when it ends.
AckedIsFollowed ==
  up /\ ~Closed(stream) /\ (\E d \in valid : delivery[d] = "acked") => active.known

\* A job nobody follows still has a delivery that will lead the Consumer to it.
NoOrphan ==
  up /\ ~Closed(stream) /\ job.status # "none" =>
    active.known \/ (\E d \in Deliveries : delivery[d] = "pending")

\* The terminal event the watcher publishes for a driver that could not says
\* where the driver was: its last phase and its last progress.
FallbackKeepsProgress ==
  closer = "watcher" /\ Len(stream) > 1 =>
    LET before == SubSeq(stream, 1, Len(stream) - 1)
    IN  /\ Outcome.phase = before[Len(before)].phase
        /\ CarriesRows(OpType, Outcome.type) =>
             \A i \in 1..Len(before) : before[i].rows <= Outcome.rows

\* A job that was stopped and left no outcome of its own is reported with the
\* reason it was stopped for.
StopReasonKept ==
  closer = "watcher" /\ job.status = "stopped" =>
    IF job.stop = "timeout" THEN Outcome.code = TimeoutCode(OpType)
    ELSE Outcome.type = "CANCELLED"

\* So much holds of a Consumer that neither crashed nor lost an answer of Ray:
\* a cancellation and a deadline that race are reported as the one that won.
ReasonKeptWhileUp ==
  spent.crashes = 0 /\ spent.faults = 0 => StopReasonKept

\* What the watcher reports in the place of a driver that could not is true of
\* the job: where it was, and why it was stopped.
FallbackIsTrue == FallbackKeepsProgress /\ ReasonKeptWhileUp

\* No job is started for an operation whose outcome is known.
NoLateStart ==
  [][job.status = "none" /\ job'.status = "running" => ~Closed(stream)]_vars

\* Nothing follows the terminal event in the stream.
SingleTerminal ==
  \A i \in 1..Len(stream) : IsTerminal(stream[i]) => i = Len(stream)

\* What the main thread has found out stays true until it acts on it: only it
\* adds to active_submissions, and a cancel key is never taken away.
MainKnows ==
  /\ main.at # "idle" =>
       up /\ main.delivery \in Deliveries /\ delivery[main.delivery] = "pending"
  /\ main.at = "refuse" => cancel
  /\ main.at = "invalid" => main.delivery \notin valid
  /\ main.at \in {"resume", "second", "submit", "put", "admit"} => main.delivery \in valid
  /\ main.at \in {"refuse", "second", "submit"} => ~active.known
  /\ main.at = "put" => job.status # "none"
  /\ main.at = "admit" \/ (main.at = "ack" /\ main.delivery \in valid) =>
       active.known \/ Closed(stream)

\* A request that is ACKed, or whose job runs, is on its way to its outcome.
Followed ==
  /\ active.known => up /\ job.status # "none"
  /\ job.status # "none" => valid # {}
  /\ ~Closed(stream) /\ (\E d \in valid : delivery[d] = "acked") =>
       job.status # "none" /\ (up => active.known)
  /\ up /\ ~Closed(stream) /\ job.status # "none" =>
       active.known \/ (\E d \in valid : delivery[d] = "pending")

\* Where the driver is, and what it has done there.
DriverKnows ==
  /\ job.status = "running" <=> driver.at # "none"
  /\ driver.at = "none" => driver = NoDriver
  /\ job.status = "none" => job.stop = "no" /\ ~written
  /\ job.status = "stopped" => job.stop # "no"
  /\ driver.at \in {"boot", "control", "work"} => ~written
  /\ driver.at = "complete" => written
  /\ driver.code = "CANCELLED" => cancel
  /\ driver.at = "raised" => driver.code # NoCode

\* What the watcher has read stays true until it acts on it: a job that has
\* ended stays so, and nobody else asks Ray to stop one.
WatcherKnows ==
  /\ watch.at # "idle" => up /\ job.status # "none"
  /\ watch.at \in {"report", "publish"} => HasEnded
  /\ watch.at \in {"decide", "report", "publish"} /\ HasEnded => watch.status = job.status
  /\ watch.at \in {"report", "publish"} => watch.code \notin {NoCode, "cancel", "timeout"}
  /\ watch.at = "stop" => watch.code \in {"cancel", "timeout"}
  /\ watch.at \in {"idle", "status", "decide"} => watch.code = NoCode
  /\ watch.code \in {"cancel", "CANCELLED"} \/ requested.cancel => cancel
  /\ watch.memory.terminal => Closed(stream)
  /\ closer = "watcher" => JobEnded
  /\ Closed(stream) <=> closer # "nobody"

\* Whoever reports a timeout has seen the deadline of the job pass, although
\* each delivery gets a deadline of its own.
DeadlinesPassed ==
  LET late == clock >= job.deadline
  IN  /\ main.at # "idle" => main.deadline <= clock + Timeout
      /\ job.status # "none" =>
           /\ job.deadline <= clock + Timeout
           /\ main.at # "idle" => job.deadline <= main.deadline
           /\ active.known => job.deadline <= active.deadline
           /\ watch.at # "idle" => job.deadline <= watch.deadline
      /\ requested.timeout => job.status # "none" /\ late
      /\ watch.code \in {"timeout", "EXECUTION_TIMEOUT"} => late
      /\ driver.code = TimeoutCode(OpType) => late

LastPhase == IF stream = <<>> THEN InitialPhase(OpType) ELSE stream[Len(stream)].phase

\* The progress in the stream never goes back before the outcome, and is never
\* ahead of a driver that works.
ProgressKept ==
  /\ \A i, j \in 1..Len(stream) :
       i <= j /\ ~IsTerminal(stream[j]) /\ stream[j].rows # NoRows =>
         stream[i].rows <= stream[j].rows
  /\ \A i \in 1..Len(stream) : ~IsTerminal(stream[i]) =>
       /\ stream[i].rows >= NoRows
       /\ driver.at \in {"none", "boot", "control", "work"} /\ ~JobEnded =>
            stream[i].rows <= driver.done

\* What the watcher has read of the driver's progress is the newest.
NewestRead ==
  watch.at = "publish" /\ ~Closed(stream) =>
    watch.memory.phase = LastPhase /\ watch.memory.rows = NewestRows(stream)

\* The reason for which Ray was asked to stop the job is remembered by a
\* Consumer that stays up, and is the one it reports.
ReasonKnown ==
  /\ job.stop = "cancel" => cancel /\ (watch.at = "stop" => watch.code = "cancel")
  /\ requested.timeout => job.stop = "timeout" \/ (job.stop = "no" /\ JobEnded)
  /\ spent.crashes = 0 /\ spent.faults = 0 =>
       /\ job.stop = "timeout" /\ ~Closed(stream) => requested.timeout
       /\ watch.at \in {"report", "publish"} /\ job.status = "stopped" /\ ~Closed(stream) =>
            watch.code = IF job.stop = "timeout" THEN "EXECUTION_TIMEOUT" ELSE "CANCELLED"

\* No malformed delivery has the identifier of a well-formed one.
AllAlike == valid \in {{}, Deliveries}

\* An operation that was refused before it had a job gets none.
NothingToStart ==
  Closed(stream) /\ job.status = "none" /\ valid # {} => cancel /\ main.at # "submit"

\* The deliveries are alike, and no submission was left unconfirmed.
Ordinary == AllAlike /\ spent.unconfirmed = 0

\* In the ordinary course a job that runs is known to whoever might close its
\* stream.
OrdinaryCourse ==
  /\ up /\ job.status # "none" /\ ~Closed(stream) => active.known \/ main.at = "put"
  /\ Closed(stream) /\ job.status = "running" =>
       closer = "driver" /\ driver.at \in {"succeeded", "failing", "failed"}

\* The inductive invariant of the proofs.
IInv ==
  /\ TypeOK /\ SingleTerminal
  /\ MainKnows /\ Followed /\ DriverKnows /\ WatcherKnows /\ DeadlinesPassed
  /\ ProgressKept /\ NewestRead /\ ReasonKnown /\ FallbackIsTrue
  /\ AllAlike => NothingToStart
  /\ Ordinary => OrdinaryCourse

\* The four actors together keep the promise of Operation.
Promise == INSTANCE Operation WITH
  Failures <- ProtocolCodes(OpType) \ {TimeoutCode(OpType)},
  Timeout  <- TimeoutCode(OpType),
  asked    <- cancel,
  late     <- job.status # "none" /\ clock >= job.deadline,
  outcome  <- IF Outcome.type = "FAILED" THEN Outcome.code ELSE Outcome.type

\* Consumer, watcher, Ray and driver do together what Operation allows: one
\* outcome, CANCELLED only when asked, a timeout only when late.
KeepsPromise == Promise!Spec

\* Every well-formed request that the Consumer gets has an outcome in the end,
\* whatever crashes, dies or fails on the way, if its driver does not hang.
EventuallyAnswered ==
  DriverRuns =>
    \A d \in Deliveries : d \in valid /\ delivery[d] = "new" ~> Closed(stream)

\* Every delivery is ACKed in the end: none is retried for ever.
EventuallyAcked ==
  \A d \in Deliveries : delivery[d] = "new" ~> delivery[d] = "acked"

\* No request is lost and none is worked on for ever.
EventuallyServed == EventuallyAnswered /\ EventuallyAcked

\* A job that hangs before it has published its outcome is stopped once it is
\* cancelled or late, and its stream is closed for it: neither needs the driver
\* to reach a checkpoint.  (A driver that hangs after its terminal event is not
\* stopped: the watcher drops the operation when it sees the event.)
HungJobIsStopped ==
  job.status = "running" /\ (cancel \/ TimedOut(job.deadline))
    ~> Closed(stream) /\ (closer = "driver" \/ job.status # "running")
=============================================================================
