# A TLA+ model of tributo-knova

tributo-knova runs training and batch inference for the KnoVa platform. A
*Consumer* reads tasks from a Redis stream, submits one Ray job per operation
and follows it; the job's *driver* does the work; everybody reports to the
operation's *event stream*, which the platform reads. A deployer replaces one
Consumer with another on Kubernetes; another one deploys a whole release.

The unit tests exercise each of these alone, on a fake Redis and with one
thread. What goes wrong in such a system goes wrong between them: two processes
that answer for the same operation, an answer that is lost after its effect, a
restart between two steps, a thread that publishes late. Or between two readers
of one document: what validation accepts, training plans and inference, weeks
later, takes for granted. That is what is modelled here.

Line numbers are those of `src/` at the modelled commit. Paths are shortened:
`reporter.py`, `broker.py`, `execution_driver.py`, `protocol.py`,
`validation.py`, `inference.py` and `training.py` are in
`src/src/tributo_knova/`; *the patch* is `src/vendor/patches/broker-v2.8.patch`,
which holds the Consumer's lifecycle; `deploy.py` and `doctor.py` are in
`src/deploy/production/consumer-only/`; *the platform's* `deploy.py` is
`src/deploy/production/deploy.py`. In `PROJECT.json` P: is the patch, R:, I: and
T: are `reporter.py`, `inference.py` and `training.py`, V: `validation.py`, Y:
and DP: the two deployers.

## 1. Inventory

| Part | State | Operations | Talks to |
| --- | --- | --- | --- |
| Event protocol and reporter (`reporter.py`) | the event stream; per reporter `_terminal`, `_current_phase`, `_snapshot` | construct (restore from the stream), `check_control`, `publish` (Lua script), `metrics`, `phase` | Redis; shared by threads of a process |
| Consumer, main thread (the patch, `broker.py`) | pending list, `active_submissions`, the message it handles | `poll`, `handle` (cancel, validate, resume, submit, admit), ACK or RETRY, `start`/recovery | task stream, Ray, cancel key, event stream |
| Consumer, watcher thread (`CancelWatcher`) | `_stop_requested`, `_timeout_requested` | `check_once`: terminal? status? stop? report | shares `active_submissions`; Ray; event stream |
| Ray driver (`execution_driver.py`) | one reporter, exit code | `main` and its handlers | event stream, cancel key, its workload |
| Batch inference (`inference.py`) | retries, batch size, progress queue, pump thread, result table | `execute_inference`, `_ClickHouseResultSink.write`, `_InferenceProgress` | Ray Data, ClickHouse, the reporter |
| Training (`training.py` and the boosting package) | rounds, metrics queue, pump thread | `execute_training`, `run_xgboost_training`, `_MetricsPump` | Ray Train, storage, the reporter |
| Consumer-only deployer (`deploy.py`, `doctor.py`) | `state.json`, a file lock, two Deployments | `apply`, `rollback`, `check`, `status`, `render` | kubectl; through the doctor, Ray's job list |
| Request protocol and validation (`protocol.py`, `validation.py`) | none | `parse_request` | called by admission and driver |
| Training plan, rows, manifest (`training.py`) | the plan; the rows in Ray; the Bundle in storage | `_build_execution`, the transform of the rows, `_artifact_manifest` | datasource, object storage |
| Inference plan, model, result rows (`inference.py`) | the plan; the verified files; the attempt | `_build_request`, verification, `_measure_input_rows`, the predictor actors | datasource, object storage, result table |
| Platform deployer (the platform's `deploy.py`) | `switch.json`; RayCluster, ConfigMap, preflight Job, two Deployments | `apply`, `rollback`, `check`, `render`, `status` | kubectl; Ray's job list |
| CLI, cluster check, scripts, packaging | none of their own | | |

### What is hard, and what makes each part correct

* **Reporter.** Admission, watcher and driver each have one, in different
  processes, and the driver's is shared by two threads. `publish()` reads the
  memory, runs the script and updates the memory: three steps, between which
  anything may happen, and the answer may be lost. Correct: one terminal event
  per operation with nothing after it; nobody believes wrongly that it is over
  (later events would be dropped silently); an `ACCEPTED` that comes late does
  not roll the phase back; only KnoVa's phases and codes reach the wire.
* **Consumer.** A crash between submission and ACK, a submission that raises
  although Ray has the job, a delivery that comes twice, a cancellation at any
  moment. Correct: every request is answered and ACKed; a job is never orphaned
  nor started after the answer; nothing is reported about a job that still runs.
* **Watcher.** It reads the stream, the status, the cancel key and the deadline
  one after the other. Correct: it speaks for a driver only when Ray says the
  job is over, with the last progress and the reason of the stop; a job that
  hangs is stopped.
* **Inference.** The pump publishes progress while the main thread goes on;
  appending to the result table is not transactional, and a memory failure is
  retried. Correct: rows are appended at most once, `COMPLETED` is exact about the
  rows read and the rows the result filter kept, no event claims rows that are not
  there, progress goes back only where a retry
  has been announced, both threads end.
* **Training.** The pump swallows what goes wrong and is given up on after two
  seconds; failures are classified by a phase that two threads write. Correct:
  the first and last round are reported, rounds and phases go forward, a failure
  names its stage, both threads end.
* **Deployer.** Killed at any point, kubectl failing after its effect, jobs
  admitted during the check, a Deployment recreated by somebody else. Correct:
  never two Consumers; the journal is true; a switch that was interrupted can be
  undone; nobody else's Deployment is touched.
* **Platform deployer.** The same, without a lock, with a cluster of its own that
  is created first, object by object, and checked by a Job inside it. Correct:
  never two Consumers; no Consumer started but behind this command's own check;
  no release of two configurations; what a command reports is true; rollback
  finds the way back from wherever apply stopped.
* **Request path.** One document is read by validation, by the Consumer and by
  the driver; its query is split into steps for Ray; labels, feature order and
  positive class travel with the model from training to inference; files are
  verified once and read three times. Correct: what is admitted can be run; the
  rows read are those of the query; a label keeps its meaning; a published model
  is found and accepted, and only the verified bytes predict; a written row says
  what the model says of it.

The 40 hazards this comes from are listed in `PROJECT.json`, each at its line
with the properties that watch it, or why none does.

## 2. Modules

```
KnovaProtocol            phases, codes, event types: pure operators
 ├─ EventScript          the Lua script and a reporter's memory: pure operators
 │   ├─ EventScript_proofs   lemmas about both
 │   ├─ EventStream      reporters preempted inside publish()  ── implements ─▶ TerminalOnce
 │   │   ├─ EventStream_proofs
 │   │   └─ MCEventStream
 │   └─ Lifecycle        Consumer, watcher, Ray, driver        ── implements ─▶ Operation
 │       ├─ Lifecycle_proofs
 │       └─ MCLifecycle
 ├─ InferenceRun         inside the driver: batch inference
 │   └─ InferenceRun_proofs
 └─ TrainingRun          inside the driver: training
     └─ TrainingRun_proofs

RequestRules             what is admitted: pure operators
 └─ QueryPlan            queries, the steps of a read, their answers
     └─ TrainingPlan     what training makes of a request
         ├─ TrainingRows     what becomes of the rows before the fit ─┐
         └─ ModelArtifacts   manifests, files, verification           │
             └─ InferencePlan    what inference makes of a request    │
                 └─ ResultRows   the rows that are written ───────────┤
                                                                RequestPath
                                                                 ├─ RequestPath_proofs
                                                                 └─ MCRequestPath
ConsumerDeploy           the Consumer-only deployer, on its own
 └─ ConsumerDeploy_proofs
PlatformSwitch           the platform deployer, on its own
 └─ PlatformSwitch_proofs
```

The parts are composed at the event stream. `EventStream` takes `publish()`
apart into the steps between which a thread can be preempted. Everywhere else
one publication is one step: the script re-checks the terminal event whatever
the reporter believed, so the order of the scripts decides, and `EventStream`
shows that what a reporter believes is never wrong. `InferenceRun` and
`TrainingRun` open up what is one `DriverProgress`/`DriverWrite` in `Lifecycle`.
`RequestPath` is the other axis: one operation after the other, without events
and without threads, but with the documents, rows and files that the others
abstract to *succeeds or fails*.

**KnovaProtocol.** `MapPhase` (`reporter.py:186`), `EventPhase`, `EventType`,
`EventRows` (`_training_event`, `_inference_event`, 341-481), `ErrorCode`
(`_error_code`, 218-246) with the code tables. Payload text, sizes and
timestamps are left out; an event is
`[type, phase, code, rows, call]`, with one row count for all of them, and
`call` (the name the caller used) only for `AdmissionFirst`.

**EventScript.** `Reply` and `Stored` are the Lua script (12-36): refused when
the stream's last event is terminal, *late* for an `ACCEPTED` on a stream that
has events, otherwise added, with MAXLEN trimming. `Restored` is the
constructor (131-176), `Sends` and `Settled` the tests before and the
assignments after the call (278-329).

**EventStream.** Variables: `stream`, `appended` (history), `up`, `memory`
(of each reporter), `calls` (where each thread is in `publish`), `stop`.
Actions: `Construct`, `Crash`, `CheckControl`, `Build`, `Eval`, `Settle`,
`Fail` (the call raises before or after the script ran), `RaiseStop`.
`TerminalOnce` is what a reader is promised.

**Lifecycle.** One operation, one or two deliveries. Main thread: `Poll`,
`CheckCancel`, `Refuse`, `Reject`, `Resume`, `CheckCancelAgain`, `Submit`,
`Put`, `Admit`, `Ack`, and the failures that leave `run_once()` and end the
process (`ReadEscapes`, `AckEscapes`). Watcher: `WatchStream`, `WatchStatus`,
`WatchDecide`, `WatchStop`, `WatchConstruct`, `WatchPublish`, one action per
remote read or write of `check_once()`. Driver: `DriverConstruct` ...
`DriverExit`. Ray: `RayStops`, `JobDies`. Also `Start` with its recovery,
`Crash`, `AskCancel`, `Tick`. `Operation` is what the platform is promised
about an operation: results written at most once and never after the outcome,
one outcome, `COMPLETED` only with results, `CANCELLED` only when asked, a
timeout only when late.

**InferenceRun.** `execute_inference()` from the phase `LOAD_MODEL` to the
terminal event of `main()`, with the pump thread (`PumpGet`, `PumpIdle`,
`PumpPublish`, `PumpOrphaned`), a join that may time out, the sink's failure
paths and the adaptive retry. Preparing the request, the model and the input
are one action each, with the error codes they can end in. The workers count the
`Total` rows before `output.result_filter` (`inference.py:1881`); the sink appends
the `Kept` of them that it lets through (1822-1833), and these are the result rows.
A publication that raises may have reached the stream or not (`Unpublished`): the
script may have run before the reply was lost (`reporter.py:289`).

**TrainingRun.** `execute_training()` and, from how it is called and its shipped
package, `run_xgboost_training`: phases, rounds, the metrics queue, the pump,
`finish()` (stop, join for two seconds, drain, make up for the first and last
round), the second `finish()` in the `finally` block, and the classification of
failures. Mapping the request and building the payload of `COMPLETED` succeed
or fail.

**ConsumerDeploy.** `apply` and `rollback`, one action per kubectl call or
journal write that matters, interleaved with the controller (`PodStarts`,
`PodIsStopped`, `PodEnds`, Recreate strategy), Ray jobs, a kill, and a
Deployment that is recreated. The old Deployment may exist or not, and the new
one may be there already. `render`, `check` and `status` change nothing that
lasts.

**PlatformSwitch.** `apply` and `rollback` of the platform's `deploy.py`
(313-667), one action per kubectl call or journal write that matters:
`Preflight` (ownership, the old Consumer), `Decide` (is this release installed,
may it be), `Create` (the List, applied object by object: RayCluster and
ConfigMap as the digest they carry, the Deployment last), `Uncheck`,
`CreateCheck`, `Poll` (the preflight Job), `Probe` (active jobs of the old
cluster), `Record`, `StopOld`, `StartNew`, `Finish`; `Rollback`, `RestoreNew`,
`RestoreOld`, `Restored`, which an `apply` whose switch fails runs too. Every
call fails before or after its effect; `Kill` is a signal, which `except
Exception` does not see; journals of an earlier release, without states and
uids, are an initial state. The world pauses the upstream, runs jobs, ends the
Job, and scales or recreates Deployments by hand between commands or while a
command waits for its Job. `touched` and `outcome` are history.

**RequestRules, QueryPlan.** A request is a record of sections, a section a
record of the fields the rules tell apart; a value of a wrong type is `Bad`, an
absent one `Missing`. `ParseRequest` is the order of the checks of `protocol.py`
and `validation.py` (tuning and search spaces included) and of what the Consumer
adds. A query arrives parsed (`select`, `union`, `other`): the tokenizer of
`training.py` is left out, what it accepts is not. `Answers` is what a query may
yield, `Reads` what a scan with Ray's steps may yield: sets of sets of rows,
since a LIMIT keeps any.

**TrainingPlan, TrainingRows.** `Plannable` is where `_build_execution` refuses;
`TrainingPlan` what it builds: columns, steps or class quotas, split, rounds,
hints, positive class, where the Bundle goes. `Prepared` is what becomes of the
rows: one per entity, quotas, labels encoded. For each class that is more than 5 %
short or over, `_RayInputValidation` logs the same warning, which does not name the
class (248-270); `short` keeps for which classes one was logged.

**ModelArtifacts, InferencePlan, ResultRows.** `Manifest` and `ArtifactStorage`
(what a training publishes), `PredictorCode`/`ExplainerCode` (what an inference
requires of manifest and bytes: a file is a name for its bytes, two names are
two hashes; a graph has its tensors named and shaped as the task's signature or the
manifest says, a native model an objective of its task, of the binary ones
`binary:logistic` alone); `InferenceCode` and `InferencePlan` (`_build_request`: refusals with
their codes, columns, order of the tensor, batch sizes); `Results` (label,
probability, explanation, filter of each row). A model is a score per row.

**RequestPath.** From the document to the rows: `Edit` (the sender changes a
section), `Admit`, `BuildTraining`, `Load`, `Prepare`, `Publish`, `UseModel`
(the inference of the published model), `BuildInference`, `Verify`,
`VerifyExplainer`, `Normalize`, `Measure`, `Predict`, `Explain`, `Retry`,
`GiveUp`, and `Tamper`: a file is overwritten at any time. `MCRequestPath` has
the base requests and, section by section, what may be sent instead.

Operators marked `Mutant:` stand next to the definition they distort. They are
used by no specification: they are the evidence that each property can fail.

## 3. Runs

| Run | Module | Instance | What it asks |
| --- | --- | --- | --- |
| `stream` | MCEventStream | training; 3 reporters, 4 threads, MAXLEN 2, 2 appended events before the call is cut off | sound beliefs, implements `TerminalOnce`; `IInv` of the proofs, with one terminal event and admission first |
| `lifecycle` | MCLifecycle | inference, 1 delivery, well-formed or not; 1 progress, 1 crash, 1 fault, deadline, cancellation, fairness | nothing reported of a running job, ACKed is followed, the fallback is true, implements `Operation`; answered, ACKed, a hung job is stopped; `IInv` of the proofs |
| `lifecycle_duplicate` | MCLifecycle | 2 deliveries, 1 unconfirmed submission, 1 crash | no orphan, no late start |
| `inference_run` | InferenceRun | 5 rows of which the filter keeps 3, batches of 4, interval 2, 2 retries, 2 faults | at-most-once append, true counts, forward progress, both threads end; `IInv` of the proofs |
| `training_run` | TrainingRun | 3 rounds, 2 faults | first and last round, forward rounds and phases, the stage of a failure, both threads end; `IInv` of the proofs |
| `consumer_deploy` | ConsumerDeploy | 2 releases, 4 commands, 2 jobs, 2 faults, 1 kill, 1 replacement | one Consumer, a true journal that leads back, idle start, replaced objects left alone; `IInv` of the proofs |
| `platform_switch` | PlatformSwitch | 2 configurations, 3 commands, 2 replicas, 2 faults, 1 kill, 2 changes by hand | never both wanted, the way back, foreign objects left alone, checked before start, drained before stop; `IInv` of the proofs, with true reports and one configuration |
| `requests` | MCRequestPath | a training and an inference request, up to 2 sections changed or files overwritten; 3 tables | reads are the query, rows and labels of the fit, the published model is found, verified bytes, true results, smaller retries; `IInv` of the proofs, with what is admitted can be run |
| `bug_...` (4) | | the smallest instance that shows it | section 6 |

A property that several parts make up is a conjunction of named ones, each with
its own text: `ResultsMeanTheModel`, for example, is five. `TypeOK` is checked
as part of `IInv`. A property
that is a theorem of section 5 is still checked: each has a mutant, a plausible
bug under which its run fails, and that is evidence a proof does not give.

**Why the bounds are enough.** *Stream*: a publication interacts with at most
what others did between its three steps; three reporters and a shared one give
every pair of actors, MAXLEN 2 makes the stream trim and two events leave room
for one before and one after the closing one.
*Lifecycle*: every property is broken by one crash or one lost call, and each
crash loses all of the Consumer's memory, so that a second crash starts from a
state the first one has already led to; two deliveries are the smallest
duplicate, and a third meets the same `active` entry and stream. The clock has
one tick before and one at the deadline. The deadline is set anew on each poll,
as in the code. *Inference*: 5 rows in batches of 4, 2, 1 give batches that are
smaller than, equal to and larger than the interval, a remainder that no event
announces, and each retry; 3 rows kept tell the rows read from the rows written,
and both from none; a second fault hits the handler of the first.
*Training*: the smallest fit with a first, a middle and a last round.
*Deploy*: deploy, deploy again, roll back, and one more command after a command
that was interrupted; one kill and two faults give a failed rollback of a
failed apply. *Platform switch*: the same with three commands, since a second
configuration only meets the first; two replicas tell *as many as before* from
*one*, and two changes by hand scale one Deployment and recreate the other. For
the safety of all of these the proofs remove the bounds; for liveness they
remain. *Requests*: the proofs
remove these bounds too; a rule reads one section or relates two,
so two changes reach every refusal and every pair of sections that are both
unusual; the base requests go all the way through; the tables have an entity
twice, a label nobody mapped and a class that is short; files are overwritten
with the bytes of another model, with bytes that do not load and with nothing; the
shelf has models of another binary objective, with renamed tensors and with tensors
of another shape.

Deadlock is not checked except in `stream`: the other systems end (the
operation is over, the script has used up its commands).

The symmetry of `d1` and `d2` is not used: liveness is checked in the module,
and the instances are small.

## 4. Fairness

* `Lifecycle!FairSpec`: weak fairness of `Start` (the Consumer runs under a
  supervisor, `deploy/systemd` and the Deployment), of the main thread and of
  the watcher (each is a loop with a poll interval and no lock held across a
  remote call), and of `RayStops` (Ray carries out a stop it has accepted). No
  fairness of the client, the clock, the faults, or the driver: it may hang
  anywhere. `EventuallyAnswered` assumes that the driver runs (`DriverRuns`) and
  says so in its text; `HungJobIsStopped` is the property for one that does not.
* `InferenceRun` and `TrainingRun`: weak fairness of the main thread and of the
  pump, two threads of one process. In `TrainingRun` the fit ends by `FitEnds`
  or `FitFails`; nothing says which. That the pump is given up on (`JoinTimeout`,
  `late`) is never relied on.
* `EventStream`, `ConsumerDeploy`, `PlatformSwitch` and `RequestPath`: no
  fairness, safety only. A rollback is a decision of an operator.

## 5. Proofs

TLC checks an instance; the theorems below hold for all values of the constants.
Each rests on the named `ASSUME` of its module (the constants are numbers, there
is a round, a row, a manifest...), which TLC evaluates in the module's run, and
on nothing else. Each module has one inductive invariant `IInv`, stated in the
model itself, where its run checks it first. The proofs have a lemma or a step
per action, under it a step per conjunct the action can disturb, and lemmas for
what several actions share.

### The event stream

`EventStream_proofs` proves, for any set of reporters, threads and call sites,
either operation type, any MAXLEN (at least 1) and any bound on the events:

| Theorem | Statement |
| --- | --- |
| `TypeCorrect` | `Spec => []TypeOK`: only KnoVa's phases, codes and event types reach the wire or a reporter's memory |
| `Inductive` | `Spec => []IInv` |
| `StreamSafe` | `Spec => [](SingleTerminal /\ BeliefSound /\ AdmissionFirst)` |
| `Frozen` | `Spec => ClosedIsFrozen` |
| `Refinement` | `Spec => KeepsPromise`: implements `TerminalOnce` |

The argument. `SingleTerminal` alone is not inductive: a terminal event could be
appended after another unless the script refuses, which it does when the *last*
event is terminal; that the last one is enough is `SingleTerminal` itself, so
the two carry each other. `BeliefSound` needs more: a reporter that is about to
learn that the stream is closed learns it from an answer computed earlier. Hence
`RepliesSound`: an answer on its way that says closed says so of a closed
stream, which stays closed (`StoredClosed`). `AdmissionFirst` needs that an
*empty* stream is one that has never had an event, for MAXLEN could have emptied
it: trimming keeps the event just added, so it has not. `IInv` is the
conjunction; run `stream` checks it first. `NextIInv` has one step per action
and one per conjunct the action can disturb.

The types, here and below, rest on lemmas about the operators of the protocol and
of the script, stated for every argument: `MapPhaseType`, `EventPhaseType`,
`ErrorCodeType`, `StoredShape`, `NewestRowsType`, ... in `EventScript_proofs`.

### The lifecycle of an operation

`Lifecycle_proofs` proves, for either operation type, any number of deliveries,
well-formed or not, any timeout, progress and MAXLEN, and any number of crashes,
failed calls and unconfirmed submissions:

| Theorem | Statement |
| --- | --- |
| `Inductive`, `TypeCorrect` | `Spec => []IInv`, `Spec => []TypeOK` |
| `NeverDropped` | `Spec => []AckedIsFollowed` |
| `NeverOrphaned` | `Spec => []NoOrphan` |
| `FallbackTrue` | `Spec => []FallbackIsTrue` |
| `ReportedAfterTheStop` | `Spec => [](Ordinary => StoppedBeforeReported)` |
| `NeverStartedLate` | `Spec /\ []AllAlike => NoLateStart` |
| `PromiseKept` | `Spec /\ []Ordinary => KeepsPromise`: implements `Operation` |

The argument. Four actors (main thread, watcher, Ray, driver) act on what they
have read one or more steps ago. `IInv` says of each what of that stays true
until it acts: `MainKnows` (only the main thread adds to `active_submissions`,
and a cancel key is never taken away), `WatcherKnows` (a job that has ended stays
so), `DriverKnows`, `NewestRead` (what the watcher has restored is the stream's
newest as long as the stream is open). `Followed` joins them: a job
whose operation is open is in the memory of a Consumer that is up, or a delivery
is pending that will put it there. `DeadlinesPassed` compares the deadlines that
the actors hold: every delivery computes its own, but none of those that decide a
timeout is earlier than the job's. `ProgressKept` makes the largest row count also the newest, which
is what the constructor's search of the stream needs; `ReasonKnown` is
`ReasonKeptWhileUp` with the steps on the way. Three parts were found when a proof
failed: that the watcher's code is empty while it is idle, that a driver that is
not there is the blank one, and that the watcher's memory is closed only if the
stream is.

The hypotheses are what the proof showed to be needed, not a convenience.
`AllAlike`: no malformed delivery has the identifier of a well-formed one; with
one, `_invalid()` closes the stream of an operation that runs, or that is about
to be submitted. `Ordinary` adds that no submission has been left unconfirmed,
which is divergence 1 of section 6; there the property fails. Both are conditions
on the behaviour and not on the constants, so the theorems cover behaviours with
crashes and failed calls of any number. The runs meet them by `Requests` and
`MaxUnconfirmed = 0`.

### Inference inside the driver

`InferenceRun_proofs` proves, for any number of rows and of rows kept among them,
batch size, interval, and bound on retries and failed publications:

| Theorem | Statement |
| --- | --- |
| `Inductive`, `TypeCorrect` | `Spec => []IInv`, `Spec => []TypeOK` |
| `NeverWrittenTwice` | `Spec => []WrittenAtMostOnce` |
| `CountsTrue` | `Spec => []CountsAreTrue` |
| `NeverBackwards` | `Spec => []ReaderGoesForward` |

The argument. *Counts*: a row that a worker has counted is in the queue, in the
hands of the pump or in its sum, and `COMPLETED` needs their total, while its
result rows are the receipt, which is what the filter kept. A sum over a
sequence would be a recursive function about which nothing can be proved here;
but workers count full shares but for the last, so the sum has a closed form
(`Accounted`), which adding at the back and taking from the front both keep. The
sentinel is behind all counts (`NoCountLost`), so a pump that has ended without
an error has summed all. *Phases*: `PumpPlace` says where the pump can still
publish once the queue is closed: only where `join()` has given up on it, and
then the sink has failed and no write phase follows. `Reached` and `Announced`
bound what the events so far may have said by where the threads are; a retry
resets the second and is announced by a LOG. *Writes*: `NotWrittenBefore` says
that nothing has been appended where another attempt is still possible.

### Training inside the driver

`TrainingRun_proofs` proves, for any number of rounds and lost publications:

| Theorem | Statement |
| --- | --- |
| `Inductive`, `TypeCorrect` | `Spec => []IInv`, `Spec => []TypeOK` |
| `FirstAndLastAreSeen` | `Spec => []FirstAndLastReported` |
| `NeverBackwards` | `Spec => []ReaderGoesForward` |
| `StageIsNamed` | `Spec => []FailureNamesStage` |

The argument. As long as nothing fails (`Punctual`), what has been reported, what
the pump holds and what is queued are the rounds 1 to `trained`, each once and in
order (`RoundsInOrder`); that both threads take from the queue does not matter,
for they never do so at once (`PumpPlace`). When something has failed only the
two ends are promised: `MadeUp` says what `finish()` has made up for where.
`FailureNamesStage` is the subtle one: the code is derived from the reporter's
current phase, which the pump writes too. `PhaseKnown` says that the phase is
the one of the place of failure, `CauseFits` that cause and phase determine the
code. `WayOut` had to be strengthened in the course of it: no cause means no stage,
and only the fit and `finish()` can be recorded when `finish()` runs.

A finding about the model came from here. `Verdict` was a `CASE` whose guards
overlapped. TLC takes the first that holds, as the code's `if` chain does, but in
TLA+ any may be taken, so the lemma about it was false. It is `OfCause` and
`OfPhase` now, and the same pattern in the modules of the request path is an
`IF ... ELSE IF` chain.

### The Consumer-only deployer

`ConsumerDeploy_proofs` proves, for any manifests, and any number of commands,
jobs, failed calls, kills and recreated Deployments:

| Theorem | Statement |
| --- | --- |
| `Inductive`, `TypeCorrect` | `Spec => []IInv`, `Spec => []TypeOK` |
| `NeverBoth` | `Spec => []OneConsumer` |
| `JournalIsGood` | `Spec => []JournalLeadsBack` |
| `OnlyStartedWhenIdle` | `Spec => StartsWhenIdle` |
| `RecreatedIsLeftAlone` | `Spec => ReplacedIsLeftAlone` |

The argument. `OneConsumer` speaks of Pods, but the controller can start a Pod
whenever replicas are wanted; so one of the two Deployments must be quiet: at 0
*and* without a Pod (`OneIsQuiet`). A rollback scales up from the snapshot, hence
the second half: a snapshot with the new Consumer running has the old one down.
`ApplyKnows` and `RestoreKnows` say what is quiet at each place of the script;
`SameObjects` that the identities asserted at the start of `restore()` still hold;
`PhaseKnown` ties the journal's phase to the place. A killed command keeps none
of that, so `JournalTruthful` and `RolledBackIsBefore` are in `IInv` themselves,
and `SnapshotHasIt`/`DeployedWhenFinished` say where the Consumer of the start is
found: in the snapshot of a journal, and deployed when no switch is unfinished.
The exception for an overwritten snapshot is divergence 4.

### The platform deployer

`PlatformSwitch_proofs` proves, for any configurations, any number of replicas,
and any bounds on commands, failed calls, kills and changes by hand:

| Theorem | Statement |
| --- | --- |
| `Inductive`, `TypeCorrect` | `Spec => []IInv`, `Spec => []TypeOK` |
| `NeverTwoConsumers` | `Spec => []NeverBoth` |
| `ReportsTruth` | `Spec => []SuccessIsTrue`: a command that reports success has done what it reports |
| `WayBack` | `Spec => []RollbackLeadsBack` |
| `RollbackRestores` | `Spec => []RolledBackIsBefore` |
| `NeverMixed` | `Spec => []OneConfiguration` |
| `OthersUntouched` | `Spec => OthersAreLeftAlone` |
| `PreflightFirst` | `Spec => CheckedBeforeStart` |
| `DrainedFirst` | `Spec => StoppedWhenIdle` |

The argument. The script has no lock, no transaction and a journal that is
written before and after the calls it is about; so nearly everything must follow
from *where the script is*. `AtPlace` says it place by place: at `start` the old
Consumer is at 0, at `restore_old` and `restored` the new one is, from `stop` on
the recorded targets are the objects that are there, from `probe` on the Job that
has passed is this command's. `NeverBoth` then follows: the only steps that scale
up are at `start` and `restore_old`. A command that dies leaves `idle`, of which
`AtPlace` says nothing: what survives it is in the journal. Hence `Unedited`:
unless somebody has changed the cluster by hand, a journal has the replicas of
the start and targets rollback accepts, and without one the old Consumer still
has its replicas. `Drained` carries the one fact read long before it is used (the
active jobs, and whether the old Consumer runs at all) from `Preflight` and
`Probe` to `StopOld`; it needs the paused upstream. `NothingBefore` is the case
without an old Consumer. The lemmas are one per action; `Failed`, `GoesOn`,
`Rescaled`, `BeginStep`, `OutsideStep` and `EditStep` hold what several share.

### The request path

`RequestPath_proofs` proves, for any requests (`Base`, `Variants`), tables, column
types, Bundles, stored files and replacements that satisfy the assumptions below,
and any bound on changes:

| Theorem | Statement |
| --- | --- |
| `InductiveInvariant` | `Spec => []IInv` |
| `AdmittedIsSoundAlways` | `Spec => []AdmittedIsSound`: types, tables joined into a tree, a deadline the broker accepts |
| `ReadsAreTheQueryAlways` | `Spec => []ReadsAreTheQuery` |
| `FitsWhatWasAskedAlways` | `Spec => []FitsWhatWasAsked` |
| `PublishedIsFoundAlways` | `Spec => []PublishedIsFound` |
| `RunsOnVerifiedBytesAlways` | `Spec => []RunsOnVerifiedBytes` |
| `ResultsMeanTheModelAlways` | `Spec => []ResultsMeanTheModel` |
| `RetriesShrink` | `Spec => RetryShrinks` |

*The assumptions*, each evaluated on the instance by the run, say what the model's
data is and what comes from outside `src/`:

* `ValueAssumption`, `NumeralAssumption`: what stands for an absent, a null and a
  wrong value is none of the scalars, and two numbers are two numerals.
* `RequestAssumption`: a section KnoVa may send has the shape JSON and the parser
  of the queries give it: an array is a finite sequence, a LIMIT a number, a
  label mapping finite. It says nothing of what the shape holds: whatever
  validation and planning refuse may be sent.
* `StorageAssumption`, `TableAssumption`: a file holds known bytes or none; a
  table is a finite set of rows with distinct identities and a score.
* `ExportAssumption`: an exporter leaves one weight file, under the name of its
  format, that loads as that format and tells its features or has them in the
  one file beside it, every file at a path of its own; a graph is in one file, with
  the tensors of its artifact's signature, as many as its objective has. The exporters are not
  under `src/`; `vendor/patches/boosting-v2.7.patch` has the ONNX one write
  `model.onnx`, and `scripts/local_smoke.py:536-539` expects `model.ubj` with one
  `feature_names.json`. Without it `PublishedIsFound` is false, as it should be.

Two bounds are definitions, not constants, and the theorems have them: the
numerals that occur in typed parameters (`SmallNumbers`) and `SeedSpace`, which
stands for the 2^32 seeds are taken modulo.

*The argument.* `IInv` is `PathInv`, `PublishedInv` and `PublishedIsFound`. In
`PathInv`, `DocumentInv` says that a document is still what could be sent, with
null sections dropped, so that `RequestAssumption` speaks of it; `PlanInv` that
document and plan belong together at every stage, that the plan was accepted, and
that after the verification the order of the tensor is that of the declared
bytes; a retry plans anew and needs that it comes to the same; `RowsInv` that the
rows are an outcome of the read or of the preparation; `RunInv` which fields of
the inference are not set yet. The rest is about the operators:

* *Admission.* `TopologyIsATree`: the code grows the joined tables one relation
  at a time; that it succeeds means that every set that contains the PRIMARY
  table and is closed under the relations is the set of all. The growing is a
  recursive function, and induction over data is out of the prover's reach; so
  the lemmas argue by the *first* step at which something is wrong, which the
  well-foundedness of the numbers gives (`LeastNumber`). The same form of
  argument serves `Subsequence`, `After` (the steps of a read) and `Combined`
  (the choices of the quotas).
* *Reads.* `ScannedReads`: filters on columns that are read, then a LIMIT, leave
  the same sets of identities whether rows have been cut down to these columns
  or not, and `KeptAsAsked` that the typed filter of the plan is the WHERE of the
  query; `InputReads`, `SelectReads` and `MeasuredHolds` follow. `QuotasAreTheUnion`:
  quotas taken from the whole table are the UNION ALL that was sent, branch by
  branch (`BranchIsItsQuota`), if no entity appears twice, which is the premise
  of `SamplesAreTheQuery`.
* *The fit.* `OneOfEachEntity`, `QuotaHolds`, `LabelsHold`, `WarningHolds`: the
  order is duplicates, quota, encoding, warning, and each is about the rows as
  they were read (`RawLabel`), not as they are after the earlier steps.
* *Results.* From `PlanInv`: a row is written from the tensor in the order of the
  declared names (`FeatureOrderIsModels`), for the class that the manifest called
  positive.
* *Files.* `FilesAreDeclared`: a file that was accepted has its declared hash, so
  `Unchanged` compares with what was verified.
* *The published model.* `Intact` says that both formats are found at the
  manifest's location, that the ONNX one is verified, and the native one too or, if
  its objective is none that inference takes, refused for it (`Explainable`), and
  that they agree on features and classes. `PublishedIsIntact` proves it of what `Publish` has just written,
  through `StorageFound` (the location in the manifest, normalised by the
  inference, is the canonical one, although a shared bucket was split off and
  empty parts were dropped), `FilesArePlaced`, `FilesAccepted` and
  `ArtifactAccepted`. `SameModel` carries it over to the inference document,
  which keeps other fields of its own; from there each step either leaves model
  and files alone (`StaysFound`) or is a `Tamper`, after which nothing is claimed.

*What the proofs found.* Two statements that TLC accepted on its instance were
false in general, and are now stated as the code has it. `QuotaFilled` claimed
that a class never exceeds its quota: two labels of `class_amounts` can be one
typed value (`"1"` and `"true"` under a Bool), `training.py:868-917` does not
refuse that, and both quotas are then taken from one class; the upper bound has
the premise that no other label has the value. `WarnedIffShort` needs text labels
under a declared text type: under a numeric one, `_query_scalar()` of a label may
be the code of another, and rows are counted for the wrong class. And `RowsInv`
was not inductive: it has to keep the outcome of the preparation, not only the
rows.

### Only model-checked

* *Liveness*: `EventuallyServed`, `HungJobIsStopped` and both `Terminates`. They
  need fairness and ENABLED, which the prover does not reach.
* Every invariant and every action property of a passing run is a theorem, and
  so are both refinements. What a recursive function of the models computes in
  general, beyond the facts the lemmas state, is not: that is induction over data.
* The four divergences: a counterexample is a run, not a theorem.

## 6. Divergences

Each is a run of its own that ends in a counterexample.

1. **CANCELLED while the job runs** (`bug_cancelled_while_running`, patch:809).
   A submission raises although Ray has the job; no `active_submissions` entry
   is made; the task is cancelled and delivered again; admission publishes
   CANCELLED at once and nobody stops the job. The comment at patch:824 says that
   an active job must first be stopped by its watcher.
2. **The reason of a stop is lost** (`bug_stop_reason`, patch:84). The watcher
   stops a job for its deadline, the Consumer restarts, the cancel key has been
   set: the operation is reported CANCELLED. The comment at patch:82-83 says the
   metadata and the cancel marker recover the intent after a restart.
   `ReasonKeptWhileUp` says what does hold, and is checked.
3. **Confirmed rows are not reported** (`bug_receipt`, `inference.py:2152`).
   Between the gateway's receipt and the last PROGRESS the confirmed count is in a
   local variable of the sink's caller; a checkpoint that raises there (the
   operation is cancelled, or late) ends the run with 0 result rows, although they
   are committed. REMEDIATION.md:42 says that failed and cancelled events report the
   last confirmed commit. `ResultRowsNotOverstated` is what does hold, and is checked
   as part of `CountsAreTrue`.
4. **A recovery snapshot is overwritten** (`bug_snapshot`, `deploy.py:590`). A
   rollback of a complete switch scales the Consumer down and fails before the
   journal says so: `state.json` still says `complete`, and the next `apply`
   replaces the snapshot with one of 0 replicas. If that apply fails, it goes
   back to no Consumer. `ConsumerNotForgotten` is the property with that path
   taken out (the history variable `attempt`), and is checked.

Two more are in the model without a run of their own, and the properties are
stated around them. *A rejection without an event* (patch:777): the one
publication of `_invalid()` fails, and the delivery is ACKed;
`EventuallyAnswered` is about well-formed requests. *A missing credential
reference is an empty password* (`training.py:982`): the variable that
`datasource.credential_ref` names is read with an empty default, and the training is
planned and submitted without a password, where REMEDIATION.md:18 says that a missing
reference is refused and inference refuses it (`inference.py:978-982`). `Password`
has the step; it is one line of the code, and a run would say no more than it.

Seen, and not a finding because nothing in the repository speaks of it: a
malformed duplicate of a running operation is rejected on the running
operation's stream; a driver that hangs after its terminal event is never
stopped; when the reply of the last delete of a rollback is lost, or the script
is killed before its last journal entry, `rollback` and `apply` of the
Consumer-only deployer both refuse from then on; a training accepts any
`binary:` objective (`training.py:604`), of whose models inference refuses the native
one unless it is `binary:logistic` (`inference.py:421`), so that a published model may
have predictions and no explanations (`PublishedIsFound` has the exception).

## 7. Limits

* One operation at a time. The two task channels have a Consumer each and share
  no operation; two operations share the Consumer's threads only.
* A job that Ray reports as ended has no process left.
* A submission call still in flight when its Consumer dies is not modelled apart
  from one that raises although Ray has the job (`MaxUnconfirmed`).
* In `Lifecycle` the admission constructs its reporter and publishes in one
  step; the script decides again, as said above.
* `InferenceRun` and `TrainingRun` have no other writers to the stream: what the
  watcher may do meanwhile is in `Lifecycle`. Ray Data tasks are not retried
  (`max_retries=0`), so a batch is counted once per attempt. The input has as many
  rows when it is read as when it was measured, and the write gateway's receipt is
  the rows it appended.
* `RoundsMoveForward` is stated without failed publications, `PhasesMoveForward`
  and `FailureNamesStage` as long as the pump has ended within two seconds: when
  it has not, a late METRICS puts the phase back to TRAINING, and the code
  accepts that.
* `ConsumerDeploy`: a Deployment is recreated between commands or while others
  are stopped, not between the identity check and the next call, where the code
  would overwrite it; the controller acts on the current spec (its lag,
  `observedGeneration`, is left out); one namespace and one output directory,
  whose lock makes commands exclusive.

* `PlatformSwitch` speaks of wanted replicas, not of Pods: `kubectl rollout
  status` of a Deployment at 0 returns while its Pods are still terminating, so
  that "waits until the new Consumer has stopped"
  (`deploy/production/README.md:104`) is not something the model can confirm, and
  old and new Pods may overlap for the grace period. The output directory has no
  lock: commands are given one at a time. An object that is created between the
  checks and `kubectl apply` (the platform's `deploy.py:471-534`) is applied
  over. `previous_replicas` is recorded once: replicas changed by hand between a
  rollback and the next `apply` are not restored by a second rollback;
  `Unedited` and `RolledBackIsBefore` are stated without changes by hand.
* `StoppedWhenIdle` is stated for a paused upstream, as the deployer's README
  asks; nothing in the script checks it.
* `RequestPath`: texts are names, ratios percents, a query arrives parsed, SHAP
  values are their sign, a model is a score per row. The catalogue of
  hyperparameters and the search space at planning time are left out; their
  validation is in. The instances encode text labels: a numeric target column
  counts as already encoded (`training.py:292`), so that a mapping that swaps 0
  and 1 swaps the names. Of wrongly typed and falsy values of a
  request the model has those that decide a rule of its own (`Null`, `Bad`, the empty
  `ray_storage_path`), not each of every field: an empty tensor name in a manifest,
  for example. A bucket written with
  slashes is admitted and fails at the export (1291). A result datasource whose
  reference is `env://TRIBUTO_CLICKHOUSE_PASSWORD` replaces the inline password
  of the input (`inference.py:1316`). Null hints and an integer positive label
  beside a mapping pass validation and are refused by the plan
  (`validation.py:347`, `inference.py:1021`): the model has the refusals.

**Not modelled.** The payload texts and sizes of events; the numbers of a fit;
the CLI; `check_cluster.py` and the checks of the doctor, which are a PASS or a
FAIL; how the platform's manifests are built (`build()`: its digest stands for
them); the acceptance, smoke and packaging scripts, which test or package the
program and are no part of it; the packages in `vendor/wheels` other than
through how the program uses them, and the patches that `broker-v2.8.patch`
supersedes.

## 8. Plan

Done, in this order of importance: the event stream; the lifecycle; inference;
training; the Consumer-only deployer; the platform deployer; all of them with
their proofs; the request path with its proofs.

Next, to model:

1. Two operations in one Consumer: fairness between them in the watcher's loop,
   and two Consumers that overlap while one is replaced (which `OneConsumer`
   rules out for its deployer; the terminating Pods of the platform's do not).
2. The Pods of `PlatformSwitch`, as in `ConsumerDeploy`.
3. The resource and timeout policies (`_execution_policy`, `configure_timeout`),
   and the catalogue of hyperparameters.

Next, to prove:

1. That `EventStream` justifies the one-step publications of `Lifecycle`: a
   refinement from interleaved publications to one script per step.
2. `Ordinary` refined: which promises of `Operation` survive an unconfirmed
   submission.

To check the project: `tlc -config <cfg> <module>` for the runs of
`PROJECT.json`, and for the proofs `tlapm` on `EventScript_proofs.tla`,
`EventStream_proofs.tla`, `Lifecycle_proofs.tla`, `InferenceRun_proofs.tla`,
`TrainingRun_proofs.tla`, `ConsumerDeploy_proofs.tla`, `PlatformSwitch_proofs.tla`
and `RequestPath_proofs.tla`.
