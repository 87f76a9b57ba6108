-------------------------- MODULE Lifecycle_proofs --------------------------
(***************************************************************************)
(* Proofs about Lifecycle, for either operation type, any number of        *)
(* deliveries, well-formed or not, any timeout and progress, every MAXLEN, *)
(* and any number of crashes, failed calls and unconfirmed submissions.    *)
(***************************************************************************)
EXTENDS Lifecycle, EventScript_proofs

-----------------------------------------------------------------------------
(* What the actors publish *)

\* The assumptions on the constants.
LEMMA Constants ==
  /\ OpType \in OperationTypes
  /\ MaxProgress \in Nat /\ Timeout \in Nat /\ MaxClock \in Nat
  /\ MaxCrashes \in Nat /\ MaxFaults \in Nat /\ MaxUnconfirmed \in Nat
  /\ MaxLen \in Nat \ {0}
  BY LifecycleAssumption, MaxLenAssumption

\* Whatever a reporter remembers, it publishes well-typed events.
LEMMA EventFromType ==
  ASSUME NEW m \in Reporter(OpType), NEW call \in CallTypes, NEW code,
         NEW phase \in PhaseArgs(OpType), NEW rows \in Int
  PROVE  /\ EventFrom(m, call, phase, code, rows) \in Event(OpType)
         /\ EventFrom(m, call, phase, code, rows).call = call
         /\ EventFrom(m, call, phase, code, rows).type = EventType(OpType, call)
<1>1. m.phase \in ProtocolPhases(OpType) /\ m.rows \in Int
  BY DEF Reporter
<1>2. EventFrom(m, call, phase, code, rows) \in Event(OpType)
  BY <1>1, Constants, EventOfType DEF EventFrom
<1> QED
  BY <1>2 DEF EventFrom, EventOf

\* The phases the actors name, and those a reporter remembers, are phases.
LEMMA PhaseArgsHas ==
  /\ {"QUEUED", "ADMISSION", "ADMITTED", "EXECUTING", "MATERIALIZING",
      "COMPLETED", "FAILED", "CANCELLED"} \subseteq PhaseArgs(OpType)
  /\ ProtocolPhases(OpType) \subseteq PhaseArgs(OpType)
  BY DEF PhaseArgs, BrokerPhases

\* Which calls end a stream.
LEMMA TerminalCalls ==
  /\ EventType(OpType, "CANCELLED") = "CANCELLED"
  /\ EventType(OpType, "FAILED") = "FAILED"
  /\ EventType(OpType, "COMPLETED") = "COMPLETED"
  /\ \A call \in CallTypes :
       EventType(OpType, call) \in TerminalTypes => call \in TerminalTypes
  BY DEF EventType, TerminalTypes, CallTypes

\* A publication adds nothing, or one event, and that only to an open stream.
StreamStep(by, e) ==
  \/ UNCHANGED events
  \/ /\ ~Closed(stream) /\ Reply(stream, e) = "added"
     /\ stream' = Stored(stream, e)
     /\ closer' = IF IsTerminal(e) THEN by ELSE closer

\* A publication appends its event once, or loses it.
LEMMA PublishIsStep ==
  ASSUME NEW by, NEW m, NEW e, Publish(by, m, e) \/ PublishFails(by, m, e)
  PROVE  StreamStep(by, e)
<1>1. CASE Append1(by, e)
  <2>1. CASE Reply(stream, e) = "added"
    BY <1>1, <2>1 DEF Append1, StreamStep, Reply
  <2>2. CASE Reply(stream, e) # "added"
    BY <1>1, <2>2 DEF Append1, StreamStep, Stored, events
  <2> QED
    BY <2>1, <2>2
<1>2. CASE UNCHANGED events
  BY <1>2 DEF StreamStep
<1> QED
  BY <1>1, <1>2 DEF Publish, PublishFails

\* The types of the stream, and that it is closed exactly when somebody closed it.
StreamOK ==
  /\ stream \in Seq(Event(OpType)) /\ Len(stream) <= MaxLen
  /\ closer \in {"nobody", "admission", "watcher", "driver"}
  /\ SingleTerminal
  /\ Closed(stream) <=> closer # "nobody"

\* What a publication does to the stream, seen from outside.
LEMMA StepFacts ==
  ASSUME StreamOK, NEW by \in {"admission", "watcher", "driver"},
         NEW e \in Event(OpType), StreamStep(by, e)
  PROVE  /\ StreamOK'
         /\ Closed(stream) => UNCHANGED events /\ Closed(stream')
         /\ ~Closed(stream) /\ Closed(stream') =>
              IsTerminal(e) /\ closer' = by /\ stream'[Len(stream')] = e /\ stream' # <<>>
<1>1. CASE UNCHANGED events
  BY <1>1 DEF StreamOK, SingleTerminal, events
<1>2. CASE ~UNCHANGED events
  <2> DEFINE n == Stored(stream, e)
  <2>1. /\ ~Closed(stream) /\ Reply(stream, e) = "added" /\ stream' = n
        /\ closer' = IF IsTerminal(e) THEN by ELSE closer
    BY <1>2 DEF StreamStep
  <2>2. /\ n \in Seq(Event(OpType)) /\ Len(n) \in 1..MaxLen /\ n[Len(n)] = e
        /\ \A i \in 1..(Len(n) - 1) : n[i] = stream[i + (Len(stream) + 1 - Len(n))]
        /\ Len(n) \in {Len(stream), Len(stream) + 1}
    BY <2>1, StoredShape DEF StreamOK
  <2> HIDE DEF n
  <2>3. n # <<>> /\ (Closed(n) <=> IsTerminal(e))
    BY <2>2 DEF Closed
  <2>4. \A i \in 1..Len(stream) : ~IsTerminal(stream[i])
    <3>1. CASE stream = <<>>
      BY <3>1
    <3>2. CASE stream # <<>>
      BY <2>1, <3>2 DEF StreamOK, SingleTerminal, Closed
    <3> QED
      BY <3>1, <3>2
  <2>5. \A i \in 1..Len(n) : IsTerminal(n[i]) => i = Len(n)
    <3> SUFFICES ASSUME NEW i \in 1..(Len(n) - 1) PROVE ~IsTerminal(n[i])
      BY <2>2
    <3>1. i + (Len(stream) + 1 - Len(n)) \in 1..Len(stream)
      BY <2>2, Constants DEF StreamOK
    <3> QED
      BY <2>2, <2>4, <3>1
  <2> QED
    BY <2>1, <2>2, <2>3, <2>5 DEF StreamOK, SingleTerminal
<1> QED
  BY <1>1, <1>2

\* A new reporter knows of a terminal event exactly if the stream is closed.
LEMMA FreshFacts ==
  ASSUME StreamOK
  PROVE  Fresh \in Reporter(OpType) /\ (Fresh.terminal <=> Closed(stream))
<1>1. Fresh \in Reporter(OpType)
  BY Constants, RestoredType DEF StreamOK, Fresh
<1>2. Fresh.terminal <=> \E i \in 1..Len(stream) : IsTerminal(stream[i])
  BY DEF Fresh, Restored
<1>3. (\E i \in 1..Len(stream) : IsTerminal(stream[i])) <=> Closed(stream)
  <2>1. CASE stream = <<>>
    BY <2>1 DEF Closed
  <2>2. CASE stream # <<>>
    <3>1. Len(stream) \in 1..Len(stream)
      BY <2>2 DEF StreamOK
    <3> QED
      BY <2>2, <3>1 DEF StreamOK, SingleTerminal, Closed
  <2> QED
    BY <2>1, <2>2
<1> QED
  BY <1>1, <1>2, <1>3

\* A terminal event that is published leaves the stream closed.
LEMMA PublishCloses ==
  ASSUME StreamOK, NEW by \in {"admission", "watcher", "driver"},
         NEW m \in Reporter(OpType), m.terminal => Closed(stream),
         NEW e \in Event(OpType), IsTerminal(e), e.call # "ACCEPTED", Publish(by, m, e)
  PROVE  Closed(stream')
<1>1. CASE Closed(stream)
  BY <1>1, PublishIsStep, StepFacts
<1>2. CASE ~Closed(stream)
  <2>1. Append1(by, e) /\ Reply(stream, e) = "added"
    BY <1>2 DEF Publish, Sends, Reply
  <2>2. stream' = Stored(stream, e)
    BY <2>1 DEF Append1
  <2>3. Stored(stream, e) \in Seq(Event(OpType)) /\ Len(Stored(stream, e)) \in 1..MaxLen
        /\ Stored(stream, e)[Len(Stored(stream, e))] = e
    BY <2>1, StoredShape DEF StreamOK
  <2> QED
    BY <2>2, <2>3 DEF Closed
<1> QED
  BY <1>1, <1>2

-----------------------------------------------------------------------------
(* What each actor leaves alone *)

\* The client and the clock only move the delivery, the cancel key and the time.
LEMMA ClientFrame ==
  ASSUME TypeOK, (\E d \in Deliveries : Send(d)) \/ AskCancel \/ Tick
  PROVE  /\ UNCHANGED <<valid, events, ray, consumer, spent>>
         /\ delivery' \in [Deliveries -> {"absent", "new", "pending", "acked"}]
         /\ \A d \in Deliveries : delivery'[d] = delivery[d] \/
                                    (delivery[d] = "absent" /\ delivery'[d] = "new")
         /\ cancel' \in BOOLEAN /\ (cancel => cancel')
         /\ clock' \in 0..MaxClock /\ clock <= clock'
<1>1. /\ delivery \in [Deliveries -> {"absent", "new", "pending", "acked"}]
      /\ cancel \in BOOLEAN /\ clock \in 0..MaxClock
  BY DEF TypeOK
<1>2. ASSUME NEW d \in Deliveries, Send(d) PROVE UNCHANGED <<valid, cancel, clock, events, ray, consumer, spent>>
      /\ delivery[d] = "absent" /\ delivery' = [delivery EXCEPT ![d] = "new"]
  BY <1>2 DEF Send
<1>3. CASE \E d \in Deliveries : Send(d)
  BY <1>1, <1>2, <1>3
<1>4. CASE AskCancel
  BY <1>1, <1>4 DEF AskCancel
<1>5. CASE Tick
  BY <1>1, <1>5, Constants DEF Tick
<1> QED
  BY <1>3, <1>4, <1>5

\* A Consumer that goes down loses all it remembers, and what it has not ACKed
\* stays pending.
LEMMA DownFrame ==
  ASSUME TypeOK, Crash \/ ReadEscapes \/ AckEscapes
  PROVE  /\ Down /\ UNCHANGED <<channel, events, ray>>
         /\ spent' \in Bounds
         /\ spent'.unconfirmed = spent.unconfirmed
         /\ spent'.crashes > 0 \/ spent'.faults > 0
<1>1. spent \in Bounds
  BY DEF TypeOK
<1>2. CASE Crash
  BY <1>1, <1>2, Constants DEF Crash, Bounds
<1>3. CASE Escapes
  BY <1>1, <1>3, Constants DEF Escapes, Fault, Bounds
<1> QED
  BY <1>2, <1>3 DEF ReadEscapes, AckEscapes

\* Starting reads the jobs and the streams back.
LEMMA StartFrame ==
  ASSUME Start
  PROVE  /\ ~up /\ up' = TRUE /\ active' = Recovered
         /\ UNCHANGED <<channel, events, ray, main, watch, requested, spent>>
  BY DEF Start

\* What a step may add to the bounds.
SpentStep ==
  \/ UNCHANGED spent
  \/ Fault
  \/ /\ spent.unconfirmed < MaxUnconfirmed
     /\ spent' = [spent EXCEPT !.unconfirmed = @ + 1]

\* What is spent of the bounds is not given back.
LEMMA SpentFacts ==
  ASSUME TypeOK, SpentStep
  PROVE  /\ spent' \in Bounds /\ spent'.crashes = spent.crashes
         /\ spent'.unconfirmed = 0 => spent.unconfirmed = 0
         /\ spent'.faults = 0 => spent.faults = 0 /\ ~Fault
<1>1. spent \in Bounds
  BY DEF TypeOK
<1>2. CASE UNCHANGED spent
  BY <1>1, <1>2, Constants DEF Bounds, Fault
<1>3. CASE Fault
  BY <1>1, <1>3, Constants DEF Bounds, Fault
<1>4. CASE /\ spent.unconfirmed < MaxUnconfirmed
           /\ spent' = [spent EXCEPT !.unconfirmed = @ + 1]
  BY <1>1, <1>4, Constants DEF Bounds, Fault
<1> QED
  BY <1>2, <1>3, <1>4 DEF SpentStep

\* The main thread works on its delivery, on active_submissions and, when it
\* submits, on the job.
LEMMA MainFrame ==
  ASSUME TypeOK, MainStep
  PROVE  /\ UNCHANGED <<valid, cancel, clock, written, up, watch, requested>>
         /\ UNCHANGED <<job, driver>> \/ (main.at = "submit" /\ CreateJob)
         /\ SpentStep
<1>1. ASSUME NEW d \in Deliveries, Poll(d)
      PROVE  UNCHANGED <<valid, cancel, clock, written, up, watch, requested, job, driver, spent>>
  BY <1>1 DEF Poll, ray
<1>2. CASE CheckCancel
  BY <1>2 DEF CheckCancel, MainLocal, channel, ray, SpentStep
<1>3. CASE Refuse
  BY <1>3 DEF Refuse, PublishFails, MainLocal, channel, ray, SpentStep
<1>4. CASE Reject
  BY <1>4 DEF Reject, PublishFails, MainLocal, channel, ray, SpentStep
<1>5. CASE Resume
  BY <1>5 DEF Resume, PublishFails, MainLocal, channel, ray, SpentStep
<1>6. CASE CheckCancelAgain
  BY <1>6 DEF CheckCancelAgain, MainLocal, channel, ray, SpentStep
<1>7. CASE Submit
  BY <1>7 DEF Submit, channel, SpentStep
<1>8. CASE Put
  BY <1>8 DEF Put, MainLocal, channel, ray, SpentStep
<1>9. CASE Admit
  BY <1>9 DEF Admit, PublishFails, MainLocal, channel, ray, SpentStep
<1>10. CASE Ack
  BY <1>10 DEF Ack, ray, SpentStep
<1> QED
  BY <1>1, <1>2, <1>3, <1>4, <1>5, <1>6, <1>7, <1>8, <1>9, <1>10 DEF MainStep, SpentStep

\* The watcher reads, asks Ray to stop the job, or reports its outcome.
LEMMA WatchFrame ==
  ASSUME TypeOK, WatchStep
  PROVE  /\ UNCHANGED <<channel, driver, written, up, main>>
         /\ job' = job \/ (watch.at = "stop" /\ AskStop)
         /\ active' = active \/ active' = NoEntry
         /\ SpentStep
<1>1. CASE WatchStream
  BY <1>1 DEF WatchStream, WatchLocal, Forget, ray, SpentStep
<1>2. CASE WatchStatus
  BY <1>2 DEF WatchStatus, WatchLocal, ray, SpentStep
<1>3. CASE WatchDecide
  BY <1>3 DEF WatchDecide, WatchLocal, ray, SpentStep
<1>4. CASE WatchStop
  BY <1>4 DEF WatchStop, SpentStep
<1>5. CASE WatchConstruct
  BY <1>5 DEF WatchConstruct, WatchLocal, ray, SpentStep
<1>6. CASE WatchPublish
  BY <1>6 DEF WatchPublish, WatchLocal, PublishFails, Forget, ray, SpentStep
<1> QED
  BY <1>1, <1>2, <1>3, <1>4, <1>5, <1>6 DEF WatchStep

\* Ray and the driver know nothing of the Consumer; they end the job or go on.
LEMMA DriverFrame ==
  ASSUME TypeOK, RayStops \/ JobDies \/ DriverStep
  PROVE  /\ UNCHANGED <<channel, consumer>>
         /\ job.status = "running"
         /\ \/ job' = job
            \/ \E status \in {"succeeded", "failed", "stopped"} : JobEnds(status)
         /\ SpentStep
<1>1. CASE RayStops \/ JobDies
  BY <1>1 DEF RayStops, JobDies, RayLocal, SpentStep
<1>2. CASE DriverConstruct
  BY <1>2 DEF DriverConstruct, DriverAt, RayLocal, JobEnds, SpentStep
<1>3. CASE DriverBegin
  BY <1>3 DEF DriverBegin, DriverAt, DriverLocal, RayLocal, SpentStep
<1>4. CASE DriverProgress
  BY <1>4 DEF DriverProgress, DriverAt, DriverLocal, RayLocal, PublishFails, SpentStep
<1>5. CASE DriverWrite
  BY <1>5 DEF DriverWrite, DriverAt, DriverLocal, RayLocal, SpentStep
<1>6. CASE DriverComplete
  BY <1>6 DEF DriverComplete, DriverAt, DriverLocal, RayLocal, PublishFails, SpentStep
<1>7. CASE DriverReport
  BY <1>7 DEF DriverReport, DriverAt, DriverLocal, RayLocal, PublishFails, SpentStep
<1>8. CASE DriverExit
  BY <1>8 DEF DriverExit, DriverAt, RayLocal, SpentStep
<1> QED
  BY <1>1, <1>2, <1>3, <1>4, <1>5, <1>6, <1>7, <1>8 DEF DriverStep

-----------------------------------------------------------------------------
(* What each actor publishes *)

\* The ACCEPTED of an admission tells of no progress and of no later phase.
LEMMA AcceptedFacts ==
  ASSUME StreamOK
  PROVE  /\ Accepted \in Event(OpType) /\ ~IsTerminal(Accepted)
         /\ Accepted.call = "ACCEPTED" /\ Accepted.rows = NoRows
         /\ Accepted.phase = InitialPhase(OpType)
<1>1. Fresh \in Reporter(OpType)
  BY FreshFacts
<1>2. "ACCEPTED" \in CallTypes /\ NoRows \in Int
  BY DEF CallTypes, NoRows
<1>3. Accepted \in Event(OpType) /\ Accepted.call = "ACCEPTED"
      /\ Accepted.type = EventType(OpType, "ACCEPTED")
  BY <1>1, <1>2, EventFromType, PhaseArgsHas DEF Accepted
<1>4. EventType(OpType, "ACCEPTED") \in {"PHASE", "LOG"}
  BY DEF EventType
<1>5. Accepted.rows = NoRows
  BY <1>4 DEF Accepted, EventFrom, EventOf, EventRows, CarriesRows, NoRows, EventType
<1>6. Accepted.phase = InitialPhase(OpType)
  <2>1. Accepted.phase = EventPhase(OpType, "ACCEPTED", "ADMITTED", Fresh.phase)
    BY DEF Accepted, EventFrom, EventOf
  <2>2. CASE OpType = "training"
    BY <2>1, <2>2 DEF EventPhase, InitialPhase
  <2>3. CASE OpType # "training"
    <3>1. MapPhase(OpType, "ADMITTED") = "INIT"
      BY <2>3 DEF MapPhase, PhaseTable, InferencePhases
    <3> QED
      BY <2>1, <2>3, <3>1 DEF EventPhase, RequestedPhase, InitialPhase, NoPhase
  <2> QED
    BY <2>2, <2>3
<1> QED
  BY <1>3, <1>4, <1>5, <1>6 DEF IsTerminal, TerminalTypes

\* A failure carries a code of the protocol, and a timeout only if it is one.
LEMMA FailureCode ==
  ASSUME NEW code, NEW phase
  PROVE  /\ ErrorCode(OpType, code, phase) \in ProtocolCodes(OpType)
         /\ code \in {TimeoutCode(OpType), "EXECUTION_TIMEOUT"} =>
              ErrorCode(OpType, code, phase) = TimeoutCode(OpType)
         /\ code \in {"INVALID_REQUEST"} \cup OpaqueCodes =>
              ErrorCode(OpType, code, phase) # TimeoutCode(OpType)
<1>1. CASE OpType = "training"
  BY <1>1, Constants, ErrorCodeType DEF ErrorCode, TimeoutCode, ProtocolCodes, TrainingCodes,
     InvalidCodes, OpaqueCodes, CodeOfPhase
<1>2. CASE OpType = "batch_inference"
  BY <1>2, Constants, ErrorCodeType DEF ErrorCode, TimeoutCode, ProtocolCodes, InferenceCodes,
     InvalidCodes, OpaqueCodes, CodeOfPhase
<1> QED
  BY <1>1, <1>2, Constants DEF OperationTypes

\* A terminal event, as its reader takes it.
LEMMA TerminalFacts ==
  ASSUME NEW m \in Reporter(OpType), NEW call \in TerminalTypes, NEW code,
         NEW phase \in PhaseArgs(OpType), NEW rows \in Int
  PROVE  LET e == EventFrom(m, call, phase, code, rows)
         IN  /\ e \in Event(OpType) /\ IsTerminal(e) /\ e.type = call /\ e.call = call
             /\ e.call # "ACCEPTED"
             /\ call = "FAILED" =>
                  \E p : e.code = ErrorCode(OpType, code, p)
<1>1. call \in CallTypes
  BY DEF CallTypes
<1>2. EventFrom(m, call, phase, code, rows) \in Event(OpType)
      /\ EventFrom(m, call, phase, code, rows).call = call
      /\ EventFrom(m, call, phase, code, rows).type = EventType(OpType, call)
  BY <1>1, EventFromType
<1>3. EventType(OpType, call) = call
  BY TerminalCalls DEF TerminalTypes
<1>4. call = "FAILED" => \E p : EventFrom(m, call, phase, code, rows).code = ErrorCode(OpType, code, p)
  BY DEF EventFrom, EventOf
<1> QED
  BY <1>2, <1>3, <1>4 DEF IsTerminal, TerminalTypes

\* The terminal event of a control outcome.
LEMMA ControlEventFacts ==
  ASSUME NEW m \in Reporter(OpType), NEW code, NEW phase \in PhaseArgs(OpType)
  PROVE  LET e == ControlEvent(m, code, phase)
         IN  /\ e \in Event(OpType) /\ IsTerminal(e) /\ e.call # "ACCEPTED"
             /\ IF code = "CANCELLED" THEN e.type = "CANCELLED"
                ELSE e.type = "FAILED" /\ \E p : e.code = ErrorCode(OpType, code, p)
<1>1. NoRows \in Int /\ {"CANCELLED", "FAILED"} \subseteq TerminalTypes
  BY DEF NoRows, TerminalTypes
<1> QED
  BY <1>1, TerminalFacts DEF ControlEvent

\* What the main thread adds to the stream.
MainEvent(e) ==
  /\ e \in Event(OpType) /\ (e.type = "FAILED" => e.code \in ProtocolCodes(OpType))
  /\ \/ e = Accepted
     \/ main.at = "refuse" /\ IsTerminal(e) /\ e.type = "CANCELLED"
     \/ /\ main.at = "invalid" /\ IsTerminal(e) /\ e.type = "FAILED"
        /\ e.code # TimeoutCode(OpType)

\* The admission thread publishes events of its own only.
LEMMA MainEvents ==
  ASSUME TypeOK, StreamOK, MainStep
  PROVE  \E e : MainEvent(e) /\ StreamStep("admission", e)
<1> DEFINE cancelled == EventFrom(Fresh, "CANCELLED", "QUEUED", NoCode, NoRows)
           rejected == EventFrom(Fresh, "FAILED", "ADMISSION", "INVALID_REQUEST", NoRows)
<1>1. MainEvent(Accepted)
  BY AcceptedFacts DEF MainEvent, IsTerminal, TerminalTypes
<1>2. Fresh \in Reporter(OpType) /\ NoRows \in Int /\ {"CANCELLED", "FAILED"} \subseteq TerminalTypes
  BY FreshFacts DEF NoRows, TerminalTypes
<1>3. /\ cancelled \in Event(OpType) /\ IsTerminal(cancelled) /\ cancelled.type = "CANCELLED"
      /\ rejected \in Event(OpType) /\ IsTerminal(rejected) /\ rejected.type = "FAILED"
      /\ \E p : rejected.code = ErrorCode(OpType, "INVALID_REQUEST", p)
  BY <1>2, TerminalFacts, PhaseArgsHas
<1> HIDE DEF cancelled, rejected
<1>4. rejected.code \in ProtocolCodes(OpType) /\ rejected.code # TimeoutCode(OpType)
  BY <1>3, FailureCode
<1>5. ASSUME UNCHANGED events PROVE \E e : MainEvent(e) /\ StreamStep("admission", e)
  BY <1>1, <1>5 DEF StreamStep
<1>6. CASE Refuse
  <2>1. StreamStep("admission", cancelled)
    BY <1>6, PublishIsStep DEF Refuse, cancelled
  <2> QED
    BY <1>3, <1>6, <2>1 DEF MainEvent, Refuse
<1>7. CASE Reject
  <2>1. StreamStep("admission", rejected)
    BY <1>7, PublishIsStep DEF Reject, rejected
  <2> QED
    BY <1>3, <1>4, <1>7, <2>1 DEF MainEvent, Reject
<1>8. CASE Resume \/ Admit
  <2>1. UNCHANGED events \/ StreamStep("admission", Accepted)
    BY <1>8, PublishIsStep DEF Resume, Admit
  <2> QED
    BY <1>1, <1>5, <2>1
<1>9. CASE \/ \E d \in Deliveries : Poll(d)
           \/ CheckCancel \/ CheckCancelAgain \/ Submit \/ Put \/ Ack
  BY <1>5, <1>9 DEF Poll, CheckCancel, CheckCancelAgain, Submit, Put, Ack
<1> QED
  BY <1>6, <1>7, <1>8, <1>9 DEF MainStep

\* What the watcher adds: the outcome of a job that left none.
WatchEvent == ControlEvent(watch.memory, watch.code,
                           IF watch.code = "CANCELLED" THEN "CANCELLED" ELSE "FAILED")

\* The event of the watcher is an outcome, a stop or a failure.
LEMMA WatchEventFacts ==
  ASSUME TypeOK
  PROVE  /\ WatchEvent \in Event(OpType) /\ IsTerminal(WatchEvent)
         /\ WatchEvent.call # "ACCEPTED"
         /\ IF watch.code = "CANCELLED" THEN WatchEvent.type = "CANCELLED"
            ELSE WatchEvent.type = "FAILED"
                   /\ \E p : WatchEvent.code = ErrorCode(OpType, watch.code, p)
<1>1. watch.memory \in Reporter(OpType)
  BY DEF TypeOK, Watchers
<1>2. {"CANCELLED", "FAILED"} \subseteq PhaseArgs(OpType)
  BY PhaseArgsHas
<1> QED
  BY <1>1, <1>2, ControlEventFacts DEF WatchEvent

\* The watcher publishes nothing but that.
LEMMA WatchEvents ==
  ASSUME WatchStep
  PROVE  UNCHANGED events \/ (watch.at = "publish" /\ StreamStep("watcher", WatchEvent))
<1>1. CASE WatchPublish
  BY <1>1, PublishIsStep DEF WatchPublish, WatchEvent
<1> QED
  BY <1>1 DEF WatchStep, WatchStream, WatchStatus, WatchDecide, WatchStop, WatchConstruct

\* What the driver adds: its progress, and its outcome.
DriverEvent(e) ==
  /\ e \in Event(OpType) /\ (e.type = "FAILED" => e.code \in ProtocolCodes(OpType))
  /\ \/ /\ driver.at = "work" /\ ~IsTerminal(e)
        /\ e.rows \in {NoRows, driver.done + 1} /\ Control = NoCode
     \/ driver.at = "complete" /\ IsTerminal(e) /\ e.type = "COMPLETED"
     \/ driver.at = "raised" /\ IsTerminal(e) /\ driver.code = "CANCELLED" /\ e.type = "CANCELLED"
     \/ /\ driver.at = "raised" /\ IsTerminal(e) /\ driver.code # "CANCELLED"
        /\ e.type = "FAILED" /\ \E p : e.code = ErrorCode(OpType, driver.code, p)
     \/ /\ driver.at = "failing" /\ IsTerminal(e) /\ e.type = "FAILED"
        /\ e.code # TimeoutCode(OpType)

\* The driver publishes events of its own only.
LEMMA DriverEvents ==
  ASSUME TypeOK, RayStops \/ JobDies \/ DriverStep
  PROVE  UNCHANGED events \/ \E e : DriverEvent(e) /\ StreamStep("driver", e)
<1>1. /\ driver.memory \in Reporter(OpType) /\ driver.done \in Nat /\ MaxProgress \in Int
      /\ driver.memory.phase \in PhaseArgs(OpType)
  <2>1. driver \in Drivers
    BY DEF TypeOK
  <2>2. driver.memory \in Reporter(OpType) /\ driver.done \in Nat
    BY <2>1, Constants DEF Drivers
  <2> QED
    BY <2>2, PhaseArgsHas, Constants DEF Reporter
<1>2. NoRows \in Int /\ TerminalTypes \subseteq CallTypes
      /\ {"CANCELLED", "FAILED", "COMPLETED"} \subseteq TerminalTypes
  BY DEF NoRows, TerminalTypes, CallTypes
<1>3. CASE DriverProgress
  <2> DEFINE call == IF OpType = "training" THEN "METRICS" ELSE "PROGRESS"
             e == EventFrom(driver.memory, call, "EXECUTING", NoCode, driver.done + 1)
  <2>1. call \in CallTypes /\ driver.done + 1 \in Int
    BY <1>1 DEF CallTypes
  <2>2. e \in Event(OpType) /\ e.type = EventType(OpType, call)
    BY <1>1, <2>1, EventFromType, PhaseArgsHas
  <2>3. ~IsTerminal(e)
    BY <2>2 DEF IsTerminal, TerminalTypes, EventType
  <2>4. e.rows \in {NoRows, driver.done + 1}
    BY <1>1 DEF EventFrom, EventOf, EventRows, CarriesRows, EventType, NoRows
  <2>5. UNCHANGED events \/ (Control = NoCode /\ StreamStep("driver", e))
    BY <1>3, PublishIsStep DEF DriverProgress
  <2> QED
    BY <1>3, <2>2, <2>3, <2>4, <2>5 DEF DriverEvent, DriverProgress, DriverAt, IsTerminal, TerminalTypes
<1>4. CASE DriverComplete
  <2> DEFINE e == EventFrom(driver.memory, "COMPLETED", "COMPLETED", NoCode, MaxProgress)
  <2>1. e \in Event(OpType) /\ IsTerminal(e) /\ e.type = "COMPLETED"
    BY <1>1, <1>2, TerminalFacts, PhaseArgsHas
  <2>2. UNCHANGED events \/ StreamStep("driver", e)
    BY <1>4, PublishIsStep DEF DriverComplete
  <2> QED
    BY <1>4, <2>1, <2>2 DEF DriverEvent, DriverComplete, DriverAt
<1>5. CASE DriverReport /\ driver.at = "raised"
  <2> DEFINE e == ControlEvent(driver.memory, driver.code, driver.memory.phase)
  <2>1. StreamStep("driver", e)
    BY <1>5, PublishIsStep DEF DriverReport
  <2>2. DriverEvent(e)
    BY <1>1, <1>5, ControlEventFacts, FailureCode DEF DriverEvent
  <2> QED
    BY <2>1, <2>2
<1>6. CASE DriverReport /\ driver.at # "raised"
  <2> DEFINE e == EventFrom(driver.memory, "FAILED", "EXECUTING", "EXECUTION_FAILED", NoRows)
  <2>1. e \in Event(OpType) /\ IsTerminal(e) /\ e.type = "FAILED"
        /\ \E p : e.code = ErrorCode(OpType, "EXECUTION_FAILED", p)
    BY <1>1, <1>2, TerminalFacts, PhaseArgsHas
  <2>2. e.code \in ProtocolCodes(OpType) /\ e.code # TimeoutCode(OpType)
    BY <2>1, FailureCode DEF OpaqueCodes
  <2>3. StreamStep("driver", e) /\ driver.at = "failing"
    BY <1>6, PublishIsStep DEF DriverReport, DriverAt
  <2> QED
    BY <2>1, <2>2, <2>3 DEF DriverEvent
<1>7. CASE RayStops \/ JobDies \/ DriverConstruct \/ DriverBegin \/ DriverWrite \/ DriverExit
  BY <1>7 DEF RayStops, JobDies, DriverConstruct, DriverBegin, DriverWrite, DriverExit
<1> QED
  BY <1>3, <1>4, <1>5, <1>6, <1>7 DEF DriverStep
-----------------------------------------------------------------------------
(* Types *)

\* The parts of the type invariant.
LEMMA Typed ==
  ASSUME TypeOK
  PROVE  /\ valid \in SUBSET Deliveries
         /\ delivery \in [Deliveries -> {"absent", "new", "pending", "acked"}]
         /\ cancel \in BOOLEAN /\ written \in BOOLEAN /\ up \in BOOLEAN
         /\ clock \in Nat /\ clock \in 0..MaxClock
         /\ job \in Jobs /\ driver \in Drivers
         /\ main \in MainThreads /\ watch \in Watchers
         /\ active \in [known : BOOLEAN, deadline : Nat]
         /\ requested \in [cancel : BOOLEAN, timeout : BOOLEAN]
         /\ spent \in Bounds
  BY LifecycleAssumption DEF TypeOK

\* What the actors start with, and what a crash leaves.
LEMMA RestTypes ==
  /\ NotWatching \in Watchers /\ NoDriver \in Drivers /\ MainIdle \in MainThreads
  /\ NoEntry \in [known : BOOLEAN, deadline : Nat]
  /\ NothingRequested \in [cancel : BOOLEAN, timeout : BOOLEAN]
<1>1. <<>> \in Seq(Event(OpType))
  OBVIOUS
<1>2. Restored(OpType, <<>>) \in Reporter(OpType)
  BY <1>1, Constants, RestoredType
<1> HIDE DEF Reporter
<1> QED
  BY <1>2, Constants DEF NotWatching, NoDriver, MainIdle, NoEntry, NothingRequested,
     Watchers, Drivers, MainThreads, Statuses

\* A step of anyone adds at most one event, and none to a closed stream.
LEMMA EventsFacts ==
  ASSUME TypeOK, StreamOK, Next
  PROVE  /\ StreamOK'
         /\ Closed(stream) => UNCHANGED events /\ Closed(stream')
<1>1. ASSUME NEW by \in {"admission", "watcher", "driver"}, NEW e \in Event(OpType),
             StreamStep(by, e)
      PROVE  /\ StreamOK'
             /\ Closed(stream) => UNCHANGED events /\ Closed(stream')
  BY <1>1, StepFacts
<1>2. CASE UNCHANGED events
  BY <1>2 DEF StreamOK, SingleTerminal, events
<1>3. CASE (\E d \in Deliveries : Send(d)) \/ AskCancel \/ Tick
  BY <1>2, <1>3, ClientFrame
<1>4. CASE Start \/ Crash \/ ReadEscapes \/ AckEscapes
  BY <1>2, <1>4, StartFrame, DownFrame
<1>5. CASE MainStep
  BY <1>1, <1>5, MainEvents DEF MainEvent
<1>6. CASE WatchStep
  BY <1>1, <1>2, <1>6, WatchEvents, WatchEventFacts
<1>7. CASE RayStops \/ JobDies \/ DriverStep
  BY <1>1, <1>2, <1>7, DriverEvents DEF DriverEvent
<1> QED
  BY <1>3, <1>4, <1>5, <1>6, <1>7 DEF Next

\* The main thread keeps its own state well-typed, and creates at most the job.
LEMMA MainTypes ==
  ASSUME TypeOK, MainStep
  PROVE  /\ delivery' \in [Deliveries -> {"absent", "new", "pending", "acked"}]
         /\ main' \in MainThreads
         /\ active' \in [known : BOOLEAN, deadline : Nat]
         /\ job' \in Jobs /\ driver' \in Drivers
<1>1. /\ delivery \in [Deliveries -> {"absent", "new", "pending", "acked"}]
      /\ main \in MainThreads /\ active \in [known : BOOLEAN, deadline : Nat]
      /\ job \in Jobs /\ driver \in Drivers /\ clock \in Nat
  BY Typed
<1>2. MainIdle \in MainThreads /\ NoEntry \in [known : BOOLEAN, deadline : Nat]
      /\ NoDriver \in Drivers /\ Timeout \in Nat
  BY RestTypes, Constants
<1>3. ASSUME NEW d \in Deliveries, Poll(d)
      PROVE  /\ delivery' \in [Deliveries -> {"absent", "new", "pending", "acked"}]
             /\ main' \in MainThreads /\ UNCHANGED active
  BY <1>1, <1>2, <1>3 DEF Poll, MainThreads
<1>4. ASSUME NEW place \in {"ack", "refuse", "resume", "invalid", "second", "submit", "put", "admit"},
             Goto(place) \/ Retry
      PROVE  main' \in MainThreads
  BY <1>1, <1>2, <1>4 DEF Goto, Retry, MainThreads
<1>5. CASE CheckCancel
  <2>1. AfterCancelCheck \in {"ack", "refuse", "resume", "invalid"}
    <3>1. cancel \in BOOLEAN /\ active.known \in BOOLEAN
      BY Typed
    <3> QED
      BY <3>1 DEF AfterCancelCheck
  <2> QED
    BY <1>1, <1>4, <1>5, <2>1 DEF CheckCancel, MainLocal, channel, ray
<1>6. CASE Refuse \/ Reject \/ Admit
  BY <1>1, <1>4, <1>6 DEF Refuse, Reject, Admit, MainLocal, channel, ray
<1>7. CASE Resume
  BY <1>1, <1>2, <1>4, <1>7 DEF Resume, MainLocal, channel, ray
<1>8. CASE CheckCancelAgain
  BY <1>1, <1>4, <1>8 DEF CheckCancelAgain, MainLocal, channel, ray
<1>9. CASE Submit
  <2>1. ASSUME CreateJob PROVE job' \in Jobs /\ driver' \in Drivers
    BY <1>1, <1>2, <2>1 DEF CreateJob, Jobs, Drivers, MainThreads, Statuses
  <2> QED
    BY <1>1, <1>4, <1>9, <2>1 DEF Submit, channel
<1>10. CASE Put
  <2>1. Entry(main.deadline) \in [known : BOOLEAN, deadline : Nat]
    BY <1>1 DEF Entry, MainThreads
  <2> QED
    BY <1>1, <1>4, <1>10, <2>1 DEF Put, MainLocal, channel, ray
<1>11. CASE Ack
  BY <1>1, <1>2, <1>11 DEF Ack, MainThreads, ray
<1>12. (\E d \in Deliveries : Poll(d)) => UNCHANGED <<job, driver>>
  BY DEF Poll, ray
<1> QED
  BY <1>1, <1>3, <1>5, <1>6, <1>7, <1>8, <1>9, <1>10, <1>11, <1>12 DEF MainStep

\* The outcome the watcher reports for a job that ended is one it knows.
LEMMA EndedWithIs ==
  EndedWith \in {"CANCELLED", "EXECUTION_TIMEOUT", "RAY_JOB_FAILED", "RAY_JOB_STOPPED",
                 "TERMINAL_EVENT_MISSING"}
  BY DEF EndedWith

\* The watcher keeps its own state well-typed, and touches of the job only the
\* request to stop it.
LEMMA WatchTypes ==
  ASSUME TypeOK, StreamOK, WatcherKnows, WatchStep
  PROVE  /\ watch' \in Watchers /\ job' \in Jobs
         /\ active' \in [known : BOOLEAN, deadline : Nat]
         /\ requested' \in [cancel : BOOLEAN, timeout : BOOLEAN]
<1>1. /\ active \in [known : BOOLEAN, deadline : Nat] /\ watch \in Watchers
      /\ requested \in [cancel : BOOLEAN, timeout : BOOLEAN]
      /\ job \in Jobs
  BY Typed
<1>2. /\ NotWatching \in Watchers /\ NoEntry \in [known : BOOLEAN, deadline : Nat]
      /\ NothingRequested \in [cancel : BOOLEAN, timeout : BOOLEAN]
  BY RestTypes
<1>3. CASE WatchStream
  BY <1>1, <1>2, <1>3 DEF WatchStream, Forget, WatchLocal, Watchers, ray
<1>4. CASE WatchStatus
  BY <1>1, <1>4 DEF WatchStatus, WatchLocal, Watchers, ray, Jobs
<1>5. CASE WatchDecide
  BY <1>1, <1>2, <1>5, EndedWithIs DEF WatchDecide, WatchLocal, Watchers, ray
<1>6. CASE WatchStop
  <2>1. watch.code \in {"cancel", "timeout"}
    BY <1>6 DEF WatcherKnows, WatchStop
  <2> QED
    BY <1>1, <1>2, <1>6, <2>1 DEF WatchStop, AskStop, Watchers, Jobs
<1>7. CASE WatchConstruct
  <2>1. Fresh \in Reporter(OpType)
    BY FreshFacts
  <2> QED
    BY <1>1, <1>2, <1>7, <2>1 DEF WatchConstruct, WatchLocal, Watchers, ray
<1>8. CASE WatchPublish
  BY <1>1, <1>2, <1>8 DEF WatchPublish, Forget, WatchLocal, ray
<1> QED
  BY <1>3, <1>4, <1>5, <1>6, <1>7, <1>8 DEF WatchStep

\* The codes a driver may be stopped with.
LEMMA ControlType ==
  Control \in {NoCode, "CANCELLED", TimeoutCode(OpType)}
  BY DEF Control

\* The driver keeps its own state well-typed, and ends the job or leaves it.
LEMMA DriverTypes ==
  ASSUME TypeOK, StreamOK, RayStops \/ JobDies \/ DriverStep
  PROVE  /\ driver' \in Drivers /\ job' \in Jobs /\ written' \in BOOLEAN
<1>1. driver \in Drivers /\ job \in Jobs /\ written \in BOOLEAN /\ NoDriver \in Drivers
  BY Typed, RestTypes
<1>2. /\ driver.memory \in Reporter(OpType) /\ driver.memory.phase \in PhaseArgs(OpType)
      /\ driver.done \in 0..MaxProgress /\ MaxProgress \in Nat
  <2>1. driver.memory \in Reporter(OpType) /\ driver.done \in 0..MaxProgress
    BY <1>1 DEF Drivers
  <2> QED
    BY <2>1, PhaseArgsHas, Constants DEF Reporter
<1>3. ASSUME NEW status \in {"succeeded", "failed", "stopped"}, JobEnds(status)
      PROVE  driver' \in Drivers /\ job' \in Jobs
  BY <1>1, <1>3 DEF JobEnds, Jobs, Statuses
<1>4. ASSUME NEW phase \in PhaseArgs(OpType), RaisesControl(phase)
      PROVE  driver' \in Drivers
  <2>1. MapPhase(OpType, phase) \in ProtocolPhases(OpType)
    BY Constants, MapPhaseType
  <2> QED
    BY <1>1, <1>4, <2>1, ControlType DEF RaisesControl, Drivers, Reporter
<1>5. ASSUME NEW place \in {"work", "complete", "succeeded", "failed", "failing"}, Become(place)
      PROVE  driver' \in Drivers
  BY <1>1, <1>5 DEF Become, Drivers
<1>6. Breaks => driver' \in Drivers
  BY <1>5 DEF Breaks, Become
<1>7. CASE RayStops \/ JobDies
  BY <1>1, <1>3, <1>7 DEF RayStops, JobDies
<1>8. CASE DriverConstruct
  <2>1. Fresh \in Reporter(OpType)
    BY FreshFacts
  <2>2. ASSUME driver' = [driver EXCEPT !.at = "control", !.memory = Fresh]
        PROVE  driver' \in Drivers
    BY <1>1, <2>1, <2>2 DEF Drivers
  <2> QED
    BY <1>1, <1>3, <1>8, <2>2 DEF DriverConstruct
<1>9. CASE DriverBegin
  BY <1>1, <1>2, <1>4, <1>5, <1>6, <1>9 DEF DriverBegin, DriverLocal
<1>10. CASE DriverProgress
  <2> DEFINE e == EventFrom(driver.memory,
                    IF OpType = "training" THEN "METRICS" ELSE "PROGRESS",
                    "EXECUTING", NoCode, driver.done + 1)
             m == IF Sends(driver.memory, e)
                  THEN Settled(driver.memory, e, Reply(stream, e)) ELSE driver.memory
  <2>1. e \in Event(OpType)
    BY <1>2, EventFromType, PhaseArgsHas DEF CallTypes
  <2> HIDE DEF e
  <2>2. m \in Reporter(OpType)
    BY <1>2, <2>1, SettledType
  <2> HIDE DEF m
  <2>3. ASSUME driver' = [driver EXCEPT !.done = driver.done + 1, !.memory = m],
               driver.done < MaxProgress
        PROVE  driver' \in Drivers
    <3>1. driver.done + 1 \in 0..MaxProgress
      BY <1>2, <2>3
    <3> QED
      BY <1>1, <2>2, <2>3, <3>1 DEF Drivers
  <2>4. UNCHANGED job /\ UNCHANGED written
    BY <1>10 DEF DriverProgress, DriverLocal
  <2>5. \/ RaisesControl("EXECUTING") \/ Breaks
        \/ /\ driver' = [driver EXCEPT !.done = driver.done + 1, !.memory = m]
           /\ driver.done < MaxProgress
    BY <1>10 DEF DriverProgress, e, m
  <2> QED
    BY <1>1, <1>4, <1>6, <2>3, <2>4, <2>5, PhaseArgsHas
<1>11. CASE DriverWrite
  <2>1. MapPhase(OpType, "MATERIALIZING") \in ProtocolPhases(OpType)
    BY Constants, MapPhaseType, PhaseArgsHas
  <2>2. ASSUME driver' = [driver EXCEPT !.at = "complete",
                            !.memory.phase = MapPhase(OpType, "MATERIALIZING")]
        PROVE  driver' \in Drivers
    BY <1>1, <2>1, <2>2 DEF Drivers, Reporter
  <2>3. UNCHANGED job /\ (written' = TRUE \/ UNCHANGED written)
    BY <1>11 DEF DriverWrite, DriverLocal
  <2>4. \/ RaisesControl("MATERIALIZING") \/ Breaks
        \/ driver' = [driver EXCEPT !.at = "complete",
                                    !.memory.phase = MapPhase(OpType, "MATERIALIZING")]
    BY <1>11 DEF DriverWrite
  <2> QED
    BY <1>1, <1>4, <1>6, <2>2, <2>3, <2>4, PhaseArgsHas
<1>12. CASE DriverComplete
  BY <1>1, <1>2, <1>4, <1>5, <1>6, <1>12 DEF DriverComplete, DriverLocal
<1>13. CASE DriverReport
  BY <1>1, <1>5, <1>13 DEF DriverReport, DriverLocal
<1>14. CASE DriverExit
  BY <1>1, <1>3, <1>14 DEF DriverExit, DriverAt
<1> QED
  BY <1>7, <1>8, <1>9, <1>10, <1>11, <1>12, <1>13, <1>14 DEF DriverStep

\* Every step keeps every variable in its type.
LEMMA NextTypeOK ==
  ASSUME TypeOK, StreamOK, WatcherKnows, Next
  PROVE  TypeOK'
<1>1. /\ stream' \in Seq(Event(OpType)) /\ Len(stream') <= MaxLen
      /\ closer' \in {"nobody", "admission", "watcher", "driver"}
  BY EventsFacts DEF StreamOK
<1>2. CASE (\E d \in Deliveries : Send(d)) \/ AskCancel \/ Tick
  BY <1>1, <1>2, ClientFrame DEF TypeOK, ray, consumer
<1>3. CASE Start
  <2>1. job \in Jobs
    BY Typed
  <2>2. Recovered \in [known : BOOLEAN, deadline : Nat]
    BY <2>1 DEF Recovered, Entry, NoEntry, Jobs
  <2> QED
    BY <1>1, <1>3, <2>2, StartFrame DEF TypeOK, channel, ray
<1>4. CASE Crash \/ ReadEscapes \/ AckEscapes
  BY <1>1, <1>4, DownFrame, RestTypes DEF TypeOK, Down, channel, ray
<1>5. CASE MainStep
  BY <1>1, <1>5, MainFrame, MainTypes, SpentFacts DEF TypeOK
<1>6. CASE WatchStep
  BY <1>1, <1>6, WatchFrame, WatchTypes, SpentFacts DEF TypeOK, channel
<1>7. CASE RayStops \/ JobDies \/ DriverStep
  BY <1>1, <1>7, DriverFrame, DriverTypes, SpentFacts DEF TypeOK, channel, consumer
<1> QED
  BY <1>2, <1>3, <1>4, <1>5, <1>6, <1>7 DEF Next

-----------------------------------------------------------------------------
(* What lasts *)

\* The invariant has the stream in it.
LEMMA StreamIsOK ==
  ASSUME IInv PROVE TypeOK /\ StreamOK
  BY DEF IInv, TypeOK, StreamOK, WatcherKnows

\* AskStop only writes down why the job is to stop.
LEMMA AskStopFacts ==
  ASSUME TypeOK, job' = job \/ AskStop
  PROVE  /\ job'.status = job.status /\ job'.deadline = job.deadline
         /\ job.status # "running" \/ job.stop # "no" => job' = job
         /\ job' # job => job'.stop = watch.code
<1>1. job \in Jobs
  BY Typed
<1> QED
  BY <1>1 DEF AskStop, Jobs

\* What no step takes back: the cancel key, the time, a job, its deadline and
\* its end, the outcome in the stream, and a fault that happened.
LEMMA Lasting ==
  ASSUME IInv, Next
  PROVE  /\ valid' = valid /\ (cancel => cancel')
         /\ clock \in Nat /\ clock' \in Nat /\ clock <= clock'
         /\ job.status # "none" => job'.status # "none" /\ job'.deadline = job.deadline
         /\ JobEnded => job' = job
         /\ Closed(stream) => Closed(stream') /\ UNCHANGED events
<1>1. TypeOK /\ StreamOK
  BY StreamIsOK
<1>2. Closed(stream) => Closed(stream') /\ UNCHANGED events
  BY <1>1, EventsFacts
<1>3. job \in Jobs /\ clock \in Nat
  BY <1>1, Typed
<1>4. CASE (\E d \in Deliveries : Send(d)) \/ AskCancel \/ Tick
  BY <1>1, <1>2, <1>3, <1>4, ClientFrame, Constants DEF ray
<1>5. CASE Start \/ Crash \/ ReadEscapes \/ AckEscapes
  <2>1. UNCHANGED channel /\ UNCHANGED ray
    BY <1>1, <1>5, StartFrame, DownFrame
  <2> QED
    BY <1>2, <1>3, <2>1 DEF channel, ray
<1>6. CASE MainStep
  <2>1. CreateJob => job.status = "none" \/ job' = job
    BY DEF CreateJob
  <2> QED
    BY <1>1, <1>2, <1>3, <1>6, <2>1, MainFrame DEF JobEnded
<1>7. CASE WatchStep
  <2>1. job' = job \/ AskStop
    BY <1>1, <1>7, WatchFrame
  <2> QED
    BY <1>1, <1>2, <1>3, <1>7, <2>1, WatchFrame, AskStopFacts DEF JobEnded, channel
<1>8. CASE RayStops \/ JobDies \/ DriverStep
  <2>1. \A status : JobEnds(status) => job' = [job EXCEPT !.status = status]
    BY DEF JobEnds
  <2> QED
    BY <1>1, <1>2, <1>3, <1>8, <2>1, DriverFrame DEF JobEnded, Jobs, channel
<1> QED
  BY <1>4, <1>5, <1>6, <1>7, <1>8 DEF Next

\* The watcher drops the operation only when its stream is closed.
LEMMA WatchForgets ==
  ASSUME IInv, WatchStep
  PROVE  \/ UNCHANGED active /\ (requested' = requested \/ watch.at = "stop")
         \/ Forget /\ Closed(stream')
<1>1. TypeOK /\ StreamOK
  BY StreamIsOK
<1>2. CASE WatchPublish
  <2>1. CASE UNCHANGED <<active, requested>>
    BY <2>1
  <2>2. CASE Publish("watcher", watch.memory, WatchEvent) /\ Forget
    <3>1. watch.memory \in Reporter(OpType)
      BY <1>1, Typed DEF Watchers
    <3>2. watch.at = "publish"
      BY <1>2 DEF WatchPublish
    <3>3. watch.memory.terminal => Closed(stream)
      BY <3>2 DEF IInv, WatcherKnows
    <3>4. Closed(stream')
      BY <1>1, <2>2, <3>1, <3>3, PublishCloses, WatchEventFacts
    <3> QED
      BY <2>2, <3>4
  <2> QED
    BY <1>2, <2>1, <2>2 DEF WatchPublish, WatchEvent
<1>3. CASE WatchStream
  BY <1>3 DEF WatchStream, Forget, events
<1>4. CASE WatchStatus \/ WatchDecide \/ WatchStop \/ WatchConstruct
  BY <1>4 DEF WatchStatus, WatchDecide, WatchStop, WatchConstruct
<1> QED
  BY <1>2, <1>3, <1>4 DEF WatchStep

-----------------------------------------------------------------------------
(* What the main thread knows *)

\* Going on to another place keeps the delivery.
LEMMA GotoFacts ==
  ASSUME TypeOK, NEW place, Goto(place)
  PROVE  main'.at = place /\ main'.delivery = main.delivery /\ main'.deadline = main.deadline
<1>1. main \in MainThreads
  BY Typed
<1> QED
  BY <1>1 DEF Goto, MainThreads

\* The admission's own terminal events, and those of others, leave the stream
\* closed; its ACCEPTED leaves it as open as it was.
LEMMA NextMainKnows ==
  ASSUME IInv, Next
  PROVE  MainKnows'
<1>1. TypeOK /\ StreamOK /\ MainKnows
  BY StreamIsOK DEF IInv
<1>2. /\ main \in MainThreads /\ cancel \in BOOLEAN /\ active.known \in BOOLEAN /\ up \in BOOLEAN
      /\ delivery \in [Deliveries -> {"absent", "new", "pending", "acked"}]
      /\ valid \in SUBSET Deliveries
  BY <1>1, Typed
<1>3. /\ Closed(stream) => Closed(stream')
      /\ job.status # "none" => job'.status # "none"
      /\ valid' = valid /\ (cancel => cancel')
  BY Lasting
<1>4. CASE (\E d \in Deliveries : Send(d)) \/ AskCancel \/ Tick
  BY <1>1, <1>2, <1>3, <1>4, ClientFrame DEF MainKnows, consumer, ray, events
<1>5. CASE main'.at = "idle"
  BY <1>5 DEF MainKnows
<1>6. CASE Start \/ Crash \/ ReadEscapes \/ AckEscapes
  <2>1. main'.at = "idle"
    <3>1. CASE Start
      BY <1>1, <3>1, StartFrame DEF MainKnows
    <3>2. CASE Crash \/ ReadEscapes \/ AckEscapes
      <4>1. Down
        BY <1>1, <3>2, DownFrame
      <4> QED
        BY <4>1 DEF Down, MainIdle
    <3> QED
      BY <1>6, <3>1, <3>2
  <2> QED
    BY <1>5, <2>1
<1>7. CASE MainStep
  <2>1. UNCHANGED <<valid, cancel, up>>
    BY <1>1, <1>7, MainFrame
  <2>2. ASSUME NEW d \in Deliveries, Poll(d) PROVE MainKnows'
    BY <1>1, <1>2, <2>1, <2>2 DEF Poll, MainKnows
  <2>3. ASSUME Retry PROVE MainKnows'
    BY <1>5, <2>3 DEF Retry, MainIdle
  <2>4. CASE CheckCancel
    BY <1>1, <1>2, <2>1, <2>3, <2>4, GotoFacts
       DEF CheckCancel, AfterCancelCheck, MainKnows, MainLocal, channel, events, ray
  <2>5. CASE Refuse
    <3> DEFINE e == EventFrom(Fresh, "CANCELLED", "QUEUED", NoCode, NoRows)
    <3>1. CASE Retry
      BY <2>3, <3>1
    <3>2. CASE Publish("admission", Fresh, e) /\ Goto("ack")
      <4>1. e \in Event(OpType) /\ IsTerminal(e) /\ e.call # "ACCEPTED"
        <5>1. Fresh \in Reporter(OpType) /\ NoRows \in Int /\ "CANCELLED" \in TerminalTypes
          BY <1>1, FreshFacts DEF NoRows, TerminalTypes
        <5> QED
          BY <5>1, TerminalFacts, PhaseArgsHas
      <4> HIDE DEF e
      <4>2. Closed(stream')
        BY <1>1, <3>2, <4>1, FreshFacts, PublishCloses
      <4> QED
        BY <1>1, <2>1, <2>5, <3>2, <4>2, GotoFacts DEF Refuse, MainKnows, MainLocal, channel
    <3> QED
      BY <2>5, <3>1, <3>2 DEF Refuse
  <2>6. CASE Reject
    BY <1>1, <2>1, <2>6, GotoFacts DEF Reject, MainKnows, MainLocal, channel
  <2>7. CASE Resume
    BY <1>1, <1>2, <1>3, <2>1, <2>3, <2>7, GotoFacts
       DEF Resume, MainKnows, MainLocal, channel, events
  <2>8. CASE CheckCancelAgain
    BY <1>1, <1>2, <2>1, <2>3, <2>8, GotoFacts DEF CheckCancelAgain, MainKnows, MainLocal, channel, events
  <2>9. CASE Submit
    <3>1. CreateJob => job'.status # "none"
      BY DEF CreateJob
    <3> QED
      BY <1>1, <1>2, <2>1, <2>3, <2>9, <3>1, GotoFacts DEF Submit, MainKnows, channel, events
  <2>10. CASE Put
    BY <1>1, <1>2, <2>1, <2>10, GotoFacts DEF Put, Entry, MainKnows, MainLocal, channel, events
  <2>11. CASE Admit
    BY <1>1, <1>2, <1>3, <2>1, <2>3, <2>11, GotoFacts DEF Admit, MainKnows, MainLocal, channel
  <2>12. CASE Ack
    BY <1>5, <2>12 DEF Ack, MainIdle
  <2> QED
    BY <1>7, <2>2, <2>4, <2>5, <2>6, <2>7, <2>8, <2>9, <2>10, <2>11, <2>12 DEF MainStep
<1>8. CASE WatchStep
  <2>1. UNCHANGED <<valid, delivery, cancel, up, main>> /\ (active' = active \/ Closed(stream'))
        /\ (active' = active \/ active' = NoEntry)
    BY <1>1, <1>8, WatchFrame, WatchForgets DEF channel
  <2> QED
    BY <1>1, <1>3, <2>1 DEF MainKnows, NoEntry
<1>9. CASE RayStops \/ JobDies \/ DriverStep
  BY <1>1, <1>3, <1>9, DriverFrame DEF MainKnows, channel, consumer
<1> QED
  BY <1>4, <1>6, <1>7, <1>8, <1>9 DEF Next

-----------------------------------------------------------------------------
(* Nobody loses the operation *)

\* A step leaves an open request followed.
LEMMA NextFollowed ==
  ASSUME IInv, Next
  PROVE  Followed'
<1>1. TypeOK /\ StreamOK /\ MainKnows /\ Followed
  BY StreamIsOK DEF IInv
<1>2. /\ main \in MainThreads /\ cancel \in BOOLEAN /\ active.known \in BOOLEAN /\ up \in BOOLEAN
      /\ delivery \in [Deliveries -> {"absent", "new", "pending", "acked"}]
      /\ valid \in SUBSET Deliveries
  BY <1>1, Typed
<1>3. /\ Closed(stream) => Closed(stream')
      /\ job.status # "none" => job'.status # "none"
      /\ valid' = valid
  BY Lasting
<1>4. CASE (\E d \in Deliveries : Send(d)) \/ AskCancel \/ Tick
  <2>1. /\ UNCHANGED <<valid, stream, job, up, active>>
        /\ \A d \in Deliveries : (delivery'[d] = "acked" <=> delivery[d] = "acked")
                                 /\ (delivery[d] = "pending" => delivery'[d] = "pending")
    BY <1>1, <1>4, ClientFrame DEF consumer, ray, events
  <2> QED
    BY <1>1, <1>2, <2>1 DEF Followed
<1>5. CASE Start
  BY <1>1, <1>5, StartFrame DEF Followed, Recovered, Entry, NoEntry, channel, events, ray
<1>6. CASE Crash \/ ReadEscapes \/ AckEscapes
  <2>1. Down /\ UNCHANGED <<channel, events, ray>>
    BY <1>1, <1>6, DownFrame
  <2> QED
    BY <1>1, <2>1 DEF Followed, Down, NoEntry, channel, events, ray
<1>7. CASE MainStep
  <2>1. UNCHANGED <<valid, cancel, up>>
    BY <1>1, <1>7, MainFrame
  <2>2. ASSUME NEW d \in Deliveries, Poll(d) PROVE Followed'
    <3>1. /\ UNCHANGED <<stream, job, active>>
          /\ \A c \in Deliveries : (delivery'[c] = "acked" => delivery[c] = "acked")
                                   /\ (delivery[c] = "pending" => delivery'[c] = "pending")
      BY <1>2, <2>2 DEF Poll, events, ray
    <3> QED
      BY <1>1, <1>2, <2>1, <3>1 DEF Followed
  <2>3. ASSUME UNCHANGED <<delivery, job, active>> PROVE Followed'
    BY <1>1, <1>3, <2>1, <2>3 DEF Followed
  <2>4. CASE CheckCancel \/ Refuse \/ Reject \/ CheckCancelAgain \/ Admit
    BY <2>3, <2>4 DEF CheckCancel, Refuse, Reject, CheckCancelAgain, Admit, MainLocal, channel, ray
  <2>5. CASE Resume
    BY <1>1, <1>3, <2>1, <2>3, <2>5 DEF Resume, Followed, NoEntry, MainLocal, channel, ray, events
  <2>6. CASE Submit
    <3>1. CreateJob => job'.status # "none"
      BY DEF CreateJob
    <3>2. up /\ main.delivery \in valid /\ delivery[main.delivery] = "pending"
      BY <1>1, <2>6 DEF Submit, MainKnows
    <3> QED
      BY <1>1, <1>3, <2>1, <2>3, <2>6, <3>1, <3>2 DEF Submit, Followed, channel, events
  <2>7. CASE Put
    BY <1>1, <1>3, <2>1, <2>7 DEF Put, Entry, Followed, MainKnows, MainLocal, channel, events, ray
  <2>8. CASE Ack
    <3>1. /\ UNCHANGED <<stream, job, active>> /\ up
          /\ main.delivery \in valid => active.known \/ Closed(stream)
      BY <1>1, <2>8 DEF Ack, MainKnows, events, ray
    <3>2. \A c \in Deliveries :
            /\ delivery'[c] = "acked" => delivery[c] = "acked" \/ c = main.delivery
            /\ delivery[c] = "pending" => delivery'[c] = "pending" \/ c = main.delivery
      BY <1>2, <2>8 DEF Ack
    <3> QED
      BY <1>1, <1>2, <2>1, <3>1, <3>2 DEF Followed
  <2> QED
    BY <1>7, <2>2, <2>4, <2>5, <2>6, <2>7, <2>8 DEF MainStep
<1>8. CASE WatchStep
  <2>1. UNCHANGED <<valid, delivery, up>> /\ (active' = active \/ Closed(stream'))
        /\ (active' = active \/ active' = NoEntry)
    BY <1>1, <1>8, WatchFrame, WatchForgets DEF channel
  <2> QED
    <3>1. job'.status = job.status
      <4>1. job' = job \/ AskStop
        BY <1>1, <1>8, WatchFrame
      <4> QED
        BY <1>1, <4>1, AskStopFacts
    <3> QED
      BY <1>1, <1>3, <2>1, <3>1 DEF Followed, NoEntry
<1>9. CASE RayStops \/ JobDies \/ DriverStep
  <2>1. UNCHANGED <<delivery, up, active>> /\ job.status # "none" /\ job'.status # "none"
    BY <1>1, <1>3, <1>9, DriverFrame DEF channel, consumer
  <2> QED
    BY <1>1, <1>3, <2>1 DEF Followed
<1> QED
  BY <1>4, <1>5, <1>6, <1>7, <1>8, <1>9 DEF Next

-----------------------------------------------------------------------------
(* What the driver knows *)

\* A step leaves the driver with what it knows.
LEMMA NextDriverKnows ==
  ASSUME IInv, Next
  PROVE  DriverKnows'
<1>1. TypeOK /\ StreamOK /\ DriverKnows
  BY StreamIsOK DEF IInv
<1>2. job \in Jobs /\ driver \in Drivers /\ cancel \in BOOLEAN /\ written \in BOOLEAN
  BY <1>1, Typed
<1>3. cancel => cancel'
  BY Lasting
<1>4. ASSUME UNCHANGED <<job, driver, written>> PROVE DriverKnows'
  BY <1>1, <1>3, <1>4 DEF DriverKnows
<1>5. CASE (\E d \in Deliveries : Send(d)) \/ AskCancel \/ Tick
  BY <1>1, <1>4, <1>5, ClientFrame DEF ray
<1>6. CASE Start
  BY <1>4, <1>6, StartFrame DEF ray
<1>7. CASE Crash \/ ReadEscapes \/ AckEscapes
  <2>1. UNCHANGED ray
    BY <1>1, <1>7, DownFrame
  <2> QED
    BY <1>4, <2>1 DEF ray
<1>8. CASE MainStep
  <2>1. UNCHANGED <<cancel, written>> /\ (UNCHANGED <<job, driver>> \/ CreateJob)
    BY <1>1, <1>8, MainFrame
  <2>2. CASE CreateJob /\ job.status = "none"
    <3>1. job' = [status |-> "running", deadline |-> main.deadline, stop |-> "no"]
          /\ driver' = [NoDriver EXCEPT !.at = "boot"]
      BY <2>2 DEF CreateJob
    <3>2. driver'.at = "boot" /\ driver'.code = NoCode
      BY <3>1 DEF NoDriver
    <3> QED
      BY <1>1, <2>1, <2>2, <3>1, <3>2 DEF DriverKnows, NoCode
  <2> QED
    BY <1>4, <2>1, <2>2 DEF CreateJob
<1>9. CASE WatchStep
  <2>1. UNCHANGED <<cancel, driver, written>> /\ (job' = job \/ (watch.at = "stop" /\ AskStop))
    BY <1>1, <1>9, WatchFrame DEF channel
  <2>2. job'.status = job.status /\ (job' = job \/ (job.status = "running" /\ job'.stop = watch.code))
    <3>1. job' = job \/ AskStop
      BY <2>1
    <3> QED
      BY <1>1, <3>1, AskStopFacts
  <2>3. watch.at = "stop" => watch.code \in {"cancel", "timeout"}
    BY DEF IInv, WatcherKnows
  <2> QED
    BY <1>1, <1>4, <2>1, <2>2, <2>3 DEF DriverKnows
<1>10. CASE RayStops \/ JobDies \/ DriverStep
  <2>1. UNCHANGED cancel /\ job.status = "running"
    BY <1>1, <1>10, DriverFrame DEF channel
  <2>2. ASSUME NEW status \in {"succeeded", "failed", "stopped"}, JobEnds(status),
               status = "stopped" => job.stop # "no"
        PROVE  DriverKnows'
    <3>1. job'.status = status /\ job'.stop = job.stop /\ driver' = NoDriver
      BY <1>2, <2>2 DEF JobEnds, Jobs
    <3>2. driver'.at = "none" /\ driver'.code = NoCode
      BY <3>1 DEF NoDriver
    <3> QED
      BY <2>1, <2>2, <3>1, <3>2 DEF DriverKnows, NoCode
  <2>3. ASSUME UNCHANGED <<job, written>>, driver'.code = driver.code,
               driver'.at \notin {"none", "raised"},
               driver'.at \in {"boot", "control", "work"} => driver.at \in {"boot", "control", "work"},
               driver'.at = "complete" => driver.at = "complete"
        PROVE  DriverKnows'
    BY <1>1, <2>1, <2>3 DEF DriverKnows
  <2>4. ASSUME UNCHANGED <<job, written>>, NEW phase, RaisesControl(phase) PROVE DriverKnows'
    <3>1. driver'.at = "raised" /\ driver'.code = Control /\ Control # NoCode
      BY <1>2, <2>4 DEF RaisesControl, Drivers
    <3>2. Control = "CANCELLED" => cancel
      BY Constants DEF Control, NoCode, TimeoutCode
    <3> QED
      BY <1>1, <2>1, <2>4, <3>1, <3>2 DEF DriverKnows
  <2>5. ASSUME UNCHANGED <<job, written>>, Breaks PROVE DriverKnows'
    BY <1>2, <2>3, <2>5 DEF Breaks, Drivers
  <2>6. CASE RayStops
    BY <2>2, <2>6 DEF RayStops
  <2>7. CASE JobDies
    BY <2>2, <2>7 DEF JobDies
  <2>8. CASE DriverConstruct
    <3>1. CASE driver' = [driver EXCEPT !.at = "control", !.memory = Fresh] /\ UNCHANGED <<job, written>>
      BY <1>2, <2>3, <2>8, <3>1 DEF DriverConstruct, DriverAt, Drivers
    <3> QED
      BY <2>2, <2>8, <3>1 DEF DriverConstruct
  <2>9. CASE DriverBegin
    <3>1. CASE Become("work")
      BY <1>2, <2>3, <2>9, <3>1 DEF DriverBegin, DriverAt, DriverLocal, Become, Drivers
    <3> QED
      BY <2>4, <2>5, <2>9, <3>1 DEF DriverBegin, DriverLocal
  <2>10. CASE DriverProgress
    <3> DEFINE e == EventFrom(driver.memory,
                      IF OpType = "training" THEN "METRICS" ELSE "PROGRESS",
                      "EXECUTING", NoCode, driver.done + 1)
               m == IF Sends(driver.memory, e)
                    THEN Settled(driver.memory, e, Reply(stream, e)) ELSE driver.memory
    <3>1. /\ UNCHANGED <<job, written>> /\ driver.at = "work"
          /\ \/ RaisesControl("EXECUTING") \/ Breaks
             \/ driver' = [driver EXCEPT !.done = driver.done + 1, !.memory = m]
      BY <2>10 DEF DriverProgress, DriverLocal, DriverAt
    <3> HIDE DEF m
    <3>2. CASE driver' = [driver EXCEPT !.done = driver.done + 1, !.memory = m]
      <4>1. driver'.at = "work" /\ driver'.code = driver.code
        BY <1>2, <3>1, <3>2 DEF Drivers
      <4> QED
        BY <1>1, <2>1, <3>1, <4>1 DEF DriverKnows
    <3> QED
      BY <2>4, <2>5, <3>1, <3>2
  <2>11. CASE DriverWrite
    <3>1. CASE /\ driver' = [driver EXCEPT !.at = "complete",
                                           !.memory.phase = MapPhase(OpType, "MATERIALIZING")]
               /\ written' = TRUE /\ UNCHANGED job
      <4>1. driver'.at = "complete" /\ driver'.code = driver.code
        BY <1>2, <3>1 DEF Drivers
      <4> QED
        BY <1>1, <2>1, <3>1, <4>1 DEF DriverKnows
    <3> QED
      BY <2>4, <2>5, <2>11, <3>1 DEF DriverWrite, DriverLocal
  <2>12. CASE DriverComplete
    <3>1. CASE Become("succeeded")
      BY <1>2, <2>3, <2>12, <3>1 DEF DriverComplete, DriverLocal, Become, Drivers
    <3> QED
      BY <2>4, <2>5, <2>12, <3>1 DEF DriverComplete, DriverLocal
  <2>13. CASE DriverReport
    BY <1>2, <2>3, <2>13 DEF DriverReport, DriverLocal, Become, Drivers
  <2>14. CASE DriverExit
    BY <2>2, <2>14 DEF DriverExit, DriverAt
  <2> QED
    BY <1>10, <2>6, <2>7, <2>8, <2>9, <2>10, <2>11, <2>12, <2>13, <2>14 DEF DriverStep
<1> QED
  BY <1>5, <1>6, <1>7, <1>8, <1>9, <1>10 DEF Next

-----------------------------------------------------------------------------
(* What the watcher knows *)

\* A step leaves the watcher with what it knows.
LEMMA NextWatcherKnows ==
  ASSUME IInv, Next
  PROVE  WatcherKnows'
<1>1. TypeOK /\ StreamOK /\ WatcherKnows
  BY StreamIsOK DEF IInv
<1>2. job \in Jobs /\ watch \in Watchers /\ cancel \in BOOLEAN /\ up \in BOOLEAN
  BY <1>1, Typed
<1>3. /\ cancel => cancel'
      /\ job.status # "none" => job'.status # "none"
      /\ JobEnded => job' = job
      /\ Closed(stream) => Closed(stream') /\ UNCHANGED events
  BY Lasting
<1>4. StreamOK'
  BY <1>1, EventsFacts
<1>5. HasEnded /\ watch.status = job.status => JobEnded
  BY DEF HasEnded, JobEnded
<1>6. ASSUME UNCHANGED <<up, watch, requested>>, closer' = "watcher" => closer = "watcher"
      PROVE  WatcherKnows'
  <2>1. closer' = "watcher" => JobEnded'
    BY <1>1, <1>3, <1>6 DEF WatcherKnows, JobEnded
  <2>2. HasEnded' <=> HasEnded
    BY <1>6 DEF HasEnded
  <2>3. watch.at \in {"decide", "report", "publish"} /\ HasEnded => watch.status = job'.status
    BY <1>1, <1>3, <1>5 DEF WatcherKnows
  <2> QED
    BY <1>1, <1>3, <1>4, <1>6, <2>1, <2>2, <2>3 DEF WatcherKnows, StreamOK
<1>7. CASE (\E d \in Deliveries : Send(d)) \/ AskCancel \/ Tick
  BY <1>1, <1>6, <1>7, ClientFrame DEF consumer, events
<1>8. CASE Start
  <2>1. ~up /\ up' /\ UNCHANGED <<channel, events, ray, watch, requested>>
    BY <1>8, StartFrame
  <2> QED
    BY <1>1, <1>4, <2>1 DEF WatcherKnows, HasEnded, JobEnded, events, ray, channel, StreamOK
<1>9. CASE Crash \/ ReadEscapes \/ AckEscapes
  <2>1. Down /\ UNCHANGED <<channel, events, ray>>
    BY <1>1, <1>9, DownFrame
  <2>2. NotWatching.at = "idle" /\ NotWatching.code = NoCode /\ ~NotWatching.memory.terminal
    BY DEF NotWatching, Restored
  <2> QED
    BY <1>1, <1>4, <2>1, <2>2 DEF Down, NothingRequested, WatcherKnows, HasEnded, JobEnded, events, ray, channel,
       StreamOK, NoCode
<1>10. CASE MainStep
  <2>1. UNCHANGED <<up, watch, requested>>
    BY <1>1, <1>10, MainFrame
  <2>2. closer' = "watcher" => closer = "watcher"
    BY <1>1, <1>10, MainEvents DEF StreamStep, events
  <2> QED
    BY <1>6, <2>1, <2>2
<1>11. CASE WatchStep
  <2>1. UNCHANGED <<cancel, up>> /\ job'.status = job.status
    <3>1. job' = job \/ AskStop
      BY <1>1, <1>11, WatchFrame
    <3> QED
      BY <1>1, <1>11, <3>1, WatchFrame, AskStopFacts DEF channel
  <2>2. closer' = "watcher" => JobEnded'
    <3>1. UNCHANGED events \/ watch.at = "publish"
      BY <1>11, WatchEvents
    <3>2. watch.at = "publish" => JobEnded
      BY <1>1, <1>5 DEF WatcherKnows
    <3> QED
      BY <1>1, <2>1, <3>1, <3>2 DEF JobEnded, events, WatcherKnows
  <2>3. NotWatching.at = "idle" /\ NotWatching.code = NoCode /\ ~NotWatching.memory.terminal
    BY DEF NotWatching, Restored
  <2>4. Closed(stream') <=> closer' # "nobody"
    BY <1>4 DEF StreamOK
  <2>5. requested'.cancel => cancel
    <3>1. requested \in [cancel : BOOLEAN, timeout : BOOLEAN]
      BY <1>1, Typed
    <3>2. CASE WatchStop
      BY <1>1, <3>1, <3>2 DEF WatchStop, WatcherKnows
    <3>3. CASE ~WatchStop
      BY <1>1, <1>11, <3>1, <3>3 DEF WatchStep, WatchStream, WatchStatus, WatchDecide, WatchConstruct,
         WatchPublish, Forget, NothingRequested, WatcherKnows
    <3> QED
      BY <3>2, <3>3
  <2>6. CASE watch' = NotWatching
    BY <2>1, <2>2, <2>3, <2>4, <2>5, <2>6 DEF WatcherKnows, NoCode
  <2>7. CASE watch' = watch
    BY <1>1, <1>3, <2>1, <2>2, <2>4, <2>5, <2>7 DEF WatcherKnows, HasEnded
  <2>8. CASE WatchStream
    <3>1. CASE /\ watch.at = "idle" /\ up /\ active.known
               /\ watch' = [watch EXCEPT !.at = "status", !.deadline = active.deadline]
      <4>1. /\ watch'.at = "status" /\ watch'.code = watch.code
            /\ watch'.memory = watch.memory
        BY <1>2, <3>1 DEF Watchers
      <4>2. job.status # "none"
        BY <3>1 DEF IInv, Followed
      <4> QED
        BY <1>1, <1>3, <2>1, <2>2, <2>4, <2>5, <3>1, <4>1, <4>2 DEF WatcherKnows, HasEnded, NoCode
    <3> QED
      BY <2>7, <2>8, <3>1 DEF WatchStream
  <2>9. CASE WatchStatus
    <3>1. /\ watch'.at = "decide" /\ watch'.code = watch.code /\ watch.at = "status"
          /\ watch'.memory = watch.memory /\ watch'.status = job.status
      BY <1>2, <2>9 DEF WatchStatus, Watchers
    <3> QED
      BY <1>1, <1>3, <2>1, <2>2, <2>4, <2>5, <3>1 DEF WatcherKnows, HasEnded, NoCode
  <2>10. CASE WatchDecide
    <3>1. CASE HasEnded /\ watch' = [watch EXCEPT !.at = "report", !.code = EndedWith]
      <4>1. /\ watch'.at = "report" /\ watch'.code = EndedWith /\ watch.at = "decide"
            /\ watch'.memory = watch.memory /\ watch'.status = watch.status
        BY <1>2, <2>10, <3>1 DEF WatchDecide, Watchers
      <4>2. EndedWith = "CANCELLED" => cancel
        BY <1>1 DEF EndedWith, WatcherKnows
      <4> QED
        BY <1>1, <1>3, <2>1, <2>2, <2>4, <2>5, <3>1, <4>1, <4>2, EndedWithIs DEF WatcherKnows, HasEnded, NoCode
    <3>2. CASE watch' = [watch EXCEPT !.at = "stop", !.code = IF cancel THEN "cancel" ELSE "timeout"]
      <4>1. /\ watch'.at = "stop" /\ watch'.code = IF cancel THEN "cancel" ELSE "timeout"
            /\ watch'.memory = watch.memory /\ watch.at = "decide"
        BY <1>2, <2>10, <3>2 DEF WatchDecide, Watchers
      <4> QED
        BY <1>1, <1>3, <2>1, <2>2, <2>4, <2>5, <4>1 DEF WatcherKnows, HasEnded, NoCode
    <3> QED
      BY <2>6, <2>10, <3>1, <3>2 DEF WatchDecide
  <2>11. CASE WatchConstruct
    <3>1. CASE watch' = [watch EXCEPT !.at = "publish", !.memory = Fresh]
      <4>1. /\ watch'.at = "publish" /\ watch'.code = watch.code /\ watch.at = "report"
            /\ watch'.memory = Fresh /\ watch'.status = watch.status
        BY <1>2, <2>11, <3>1 DEF WatchConstruct, Watchers
      <4> QED
        BY <1>1, <1>3, <2>1, <2>2, <2>4, <2>5, <4>1, FreshFacts DEF WatcherKnows, HasEnded, NoCode
    <3> QED
      BY <2>6, <2>11, <3>1 DEF WatchConstruct
  <2>12. CASE WatchStop \/ WatchPublish
    BY <2>6, <2>12 DEF WatchStop, WatchPublish
  <2> QED
    BY <1>11, <2>8, <2>9, <2>10, <2>11, <2>12 DEF WatchStep
<1>12. CASE RayStops \/ JobDies \/ DriverStep
  <2>1. UNCHANGED <<up, watch, requested>>
    BY <1>1, <1>12, DriverFrame DEF consumer
  <2>2. closer' = "watcher" => closer = "watcher"
    BY <1>1, <1>12, DriverEvents DEF StreamStep, events
  <2> QED
    BY <1>6, <2>1, <2>2
<1> QED
  BY <1>7, <1>8, <1>9, <1>10, <1>11, <1>12 DEF Next

-----------------------------------------------------------------------------
(* Whoever reports a timeout has seen the deadline pass *)

\* A step takes back no deadline.
LEMMA NextDeadlinesPassed ==
  ASSUME IInv, Next
  PROVE  DeadlinesPassed'
<1>1. TypeOK /\ StreamOK /\ WatcherKnows /\ DeadlinesPassed /\ MainKnows /\ Followed
  BY StreamIsOK DEF IInv
<1>2. /\ job \in Jobs /\ watch \in Watchers /\ main \in MainThreads /\ driver \in Drivers
      /\ active \in [known : BOOLEAN, deadline : Nat] /\ up \in BOOLEAN
      /\ requested \in [cancel : BOOLEAN, timeout : BOOLEAN] /\ cancel \in BOOLEAN
      /\ clock \in Nat /\ clock' \in Nat /\ clock <= clock' /\ Timeout \in Nat
  BY <1>1, Typed, Lasting, Constants
<1>3. /\ job.deadline \in Nat /\ main.deadline \in Nat /\ watch.deadline \in Nat
      /\ active.deadline \in Nat
  BY <1>2 DEF Jobs, MainThreads, Watchers
<1>4. job.status # "none" => job'.status # "none" /\ job'.deadline = job.deadline
  BY Lasting
<1>5. NoCode \notin {"timeout", "EXECUTION_TIMEOUT", TimeoutCode(OpType)}
  BY DEF NoCode, TimeoutCode
<1>6. ASSUME UNCHANGED <<main, active, watch, requested>>, job'.deadline = job.deadline,
             job'.status # "none" <=> job.status # "none",
             driver'.code \in {driver.code, NoCode}
      PROVE  DeadlinesPassed'
  BY <1>1, <1>2, <1>3, <1>5, <1>6 DEF DeadlinesPassed
<1>7. CASE (\E d \in Deliveries : Send(d)) \/ AskCancel \/ Tick
  BY <1>1, <1>6, <1>7, ClientFrame DEF consumer, ray
<1>8. CASE Start
  <2>1. /\ up' = TRUE /\ ~up /\ active' = Recovered
        /\ UNCHANGED <<clock, job, driver, main, watch, requested>>
    BY <1>8, StartFrame DEF channel, ray
  <2> QED
    BY <1>1, <1>2, <1>3, <2>1 DEF DeadlinesPassed, Recovered, Entry, NoEntry
<1>9. CASE Crash \/ ReadEscapes \/ AckEscapes
  <2>1. Down /\ UNCHANGED <<channel, ray>>
    BY <1>1, <1>9, DownFrame
  <2> QED
    BY <1>1, <1>2, <1>3, <1>5, <2>1
       DEF DeadlinesPassed, Down, MainIdle, NotWatching, NoEntry, NothingRequested, channel, ray
<1>10. CASE MainStep
  <2>1. UNCHANGED <<clock, watch, requested>> /\ (UNCHANGED <<job, driver>> \/ (main.at = "submit" /\ CreateJob))
    BY <1>1, <1>10, MainFrame
  <2>2. ASSUME NEW d \in Deliveries, Poll(d) PROVE DeadlinesPassed'
    <3>1. UNCHANGED <<job, driver, active>> /\ main'.deadline = clock + Timeout
      BY <2>2 DEF Poll, ray
    <3> QED
      BY <1>1, <1>2, <1>3, <2>1, <3>1 DEF DeadlinesPassed
  <2>3. ASSUME UNCHANGED <<job, driver>>, active' \in {active, NoEntry},
               main'.at = "idle" \/ (main.at # "idle" /\ main'.deadline = main.deadline)
        PROVE  DeadlinesPassed'
    BY <1>1, <1>2, <1>3, <2>1, <2>3 DEF DeadlinesPassed, NoEntry
  <2>4. Retry => main'.at = "idle"
    BY DEF Retry, MainIdle
  <2>5. CASE CheckCancel \/ Refuse \/ Reject \/ Resume \/ CheckCancelAgain \/ Admit
    <3>1. UNCHANGED <<job, driver>> /\ active' \in {active, NoEntry}
      BY <2>5 DEF CheckCancel, Refuse, Reject, Resume, CheckCancelAgain, Admit, MainLocal, ray
    <3>2. main'.at = "idle" \/ (main.at # "idle" /\ main'.deadline = main.deadline)
      BY <1>1, <2>4, <2>5, GotoFacts DEF CheckCancel, Refuse, Reject, Resume, CheckCancelAgain, Admit
    <3> QED
      BY <2>3, <3>1, <3>2
  <2>6. CASE Submit
    <3>1. main'.at = "idle" \/ main'.deadline = main.deadline
      BY <1>1, <2>4, <2>6, GotoFacts DEF Submit
    <3>2. UNCHANGED active /\ ~active.known /\ main.at = "submit"
      BY <1>1, <2>6 DEF Submit, MainKnows
    <3>3. CASE UNCHANGED <<job, driver>>
      BY <2>3, <3>1, <3>2, <3>3
    <3>4. CASE CreateJob /\ job.status = "none"
      <4>1. /\ job'.deadline = main.deadline /\ driver'.code = NoCode
            /\ watch.at = "idle" /\ watch.code = NoCode /\ ~requested.timeout
        BY <1>1, <3>4 DEF CreateJob, NoDriver, WatcherKnows, DeadlinesPassed
      <4> QED
        BY <1>1, <1>2, <1>3, <1>5, <2>1, <3>1, <3>2, <4>1 DEF DeadlinesPassed
    <3> QED
      BY <2>1, <3>3, <3>4 DEF CreateJob
  <2>7. CASE Put
    <3>1. /\ UNCHANGED <<job, driver>> /\ active'.deadline = main.deadline /\ main.at = "put"
          /\ main'.deadline = main.deadline
      BY <1>1, <2>7, GotoFacts DEF Put, Entry, MainLocal, ray
    <3> QED
      BY <1>1, <1>2, <1>3, <2>1, <3>1 DEF DeadlinesPassed
  <2>8. CASE Ack
    BY <2>3, <2>8 DEF Ack, MainIdle, ray
  <2> QED
    BY <1>10, <2>2, <2>5, <2>6, <2>7, <2>8 DEF MainStep
<1>11. CASE WatchStep
  <2>1. UNCHANGED <<clock, cancel, driver, main>> /\ active' \in {active, NoEntry}
        /\ job'.status = job.status /\ job'.deadline = job.deadline
    <3>1. job' = job \/ AskStop
      BY <1>1, <1>11, WatchFrame
    <3> QED
      BY <1>1, <1>11, <3>1, WatchFrame, AskStopFacts DEF channel
  <2>2. ASSUME requested'.timeout => job.status # "none" /\ clock >= job.deadline,
               job.status # "none" /\ watch'.at # "idle" => job.deadline <= watch'.deadline,
               watch'.code \in {"timeout", "EXECUTION_TIMEOUT"} => clock >= job.deadline
        PROVE  DeadlinesPassed'
    BY <1>1, <1>2, <1>3, <2>1, <2>2 DEF DeadlinesPassed, NoEntry
  <2>3. requested'.timeout => job.status # "none" /\ clock >= job.deadline
    <3>1. CASE WatchStop
      <4>1. requested'.timeout => requested.timeout \/ (watch.at = "stop" /\ watch.code = "timeout")
        BY <1>1, <1>2, <3>1 DEF WatchStop, WatcherKnows
      <4> QED
        BY <1>1, <1>2, <1>3, <4>1 DEF DeadlinesPassed, WatcherKnows
    <3>2. CASE ~WatchStop
      BY <1>1, <1>2, <1>11, <3>2 DEF WatchStep, WatchStream, WatchStatus, WatchDecide, WatchConstruct,
         WatchPublish, Forget, NothingRequested, DeadlinesPassed
    <3> QED
      BY <3>1, <3>2
  <2>4. CASE watch' = NotWatching
    BY <1>5, <2>2, <2>3, <2>4 DEF NotWatching
  <2>5. CASE watch' = watch
    BY <1>1, <2>2, <2>3, <2>5 DEF DeadlinesPassed
  <2>6. CASE WatchStream
    <3>1. CASE /\ active.known
               /\ watch' = [watch EXCEPT !.at = "status", !.deadline = active.deadline]
      <4>1. watch'.deadline = active.deadline /\ watch'.code = watch.code
        BY <1>2, <3>1 DEF Watchers
      <4> QED
        BY <1>1, <1>2, <1>3, <2>2, <2>3, <3>1, <4>1 DEF DeadlinesPassed
    <3> QED
      BY <2>5, <2>6, <3>1 DEF WatchStream
  <2>7. CASE WatchStatus \/ WatchConstruct
    <3>1. CASE watch' = NotWatching
      BY <2>4, <3>1
    <3>2. CASE watch' # NotWatching
      <4>1. watch'.deadline = watch.deadline /\ watch'.code = watch.code /\ watch.at # "idle"
        BY <1>2, <2>7, <3>2 DEF Watchers, WatchStatus, WatchConstruct
      <4> QED
        BY <1>1, <1>2, <1>3, <2>2, <2>3, <4>1 DEF DeadlinesPassed
    <3> QED
      BY <3>1, <3>2
  <2>8. CASE WatchDecide
    <3>1. job.status # "none" /\ job.deadline <= watch.deadline
      BY <1>1, <2>8 DEF WatchDecide, WatcherKnows, DeadlinesPassed
    <3>2. TimedOut(watch.deadline) => clock >= job.deadline
      BY <1>2, <1>3, <3>1 DEF TimedOut
    <3>3. CASE watch' = [watch EXCEPT !.at = "report", !.code = EndedWith]
      <4>1. watch'.deadline = watch.deadline /\ watch'.code = EndedWith
        BY <1>2, <3>3 DEF Watchers
      <4>2. EndedWith = "EXECUTION_TIMEOUT" => TimeoutStop
        BY DEF EndedWith
      <4>3. TimeoutStop => clock >= job.deadline
        BY <1>1, <3>2 DEF TimeoutStop, DeadlinesPassed
      <4> QED
        BY <2>2, <2>3, <3>1, <4>1, <4>2, <4>3, EndedWithIs
    <3>4. CASE /\ MustStop
               /\ watch' = [watch EXCEPT !.at = "stop", !.code = IF cancel THEN "cancel" ELSE "timeout"]
      <4>1. watch'.deadline = watch.deadline /\ watch'.code = IF cancel THEN "cancel" ELSE "timeout"
        BY <1>2, <3>4 DEF Watchers
      <4> QED
        BY <2>2, <2>3, <3>1, <3>2, <3>4, <4>1 DEF MustStop
    <3> QED
      BY <2>4, <2>8, <3>3, <3>4 DEF WatchDecide
  <2>9. CASE WatchStop \/ WatchPublish
    BY <2>4, <2>9 DEF WatchStop, WatchPublish
  <2> QED
    BY <1>11, <2>6, <2>7, <2>8, <2>9 DEF WatchStep
<1>12. CASE RayStops \/ JobDies \/ DriverStep
  <2>1. /\ UNCHANGED <<clock, cancel, main, active, watch, requested>> /\ job.status = "running"
        /\ job' = job \/ \E status \in {"succeeded", "failed", "stopped"} : JobEnds(status)
    BY <1>1, <1>12, DriverFrame DEF channel, consumer
  <2>2. ASSUME driver'.code \in {driver.code, NoCode} PROVE DeadlinesPassed'
    BY <1>4, <1>6, <2>1, <2>2
  <2>3. (\E status \in {"succeeded", "failed", "stopped"} : JobEnds(status)) => driver'.code = NoCode
    BY DEF JobEnds, NoDriver
  <2>4. ASSUME NEW phase, RaisesControl(phase) PROVE DeadlinesPassed'
    <3>1. driver'.code = Control
      BY <1>2, <2>4 DEF RaisesControl, Drivers
    <3>2. Control = TimeoutCode(OpType) => clock >= job.deadline
      <4>1. TimeoutCode(OpType) \notin {NoCode, "CANCELLED"}
        BY DEF TimeoutCode, NoCode
      <4> QED
        BY <4>1 DEF Control, TimedOut
    <3> QED
      BY <1>1, <1>2, <1>3, <1>4, <2>1, <3>1, <3>2 DEF DeadlinesPassed
  <2>5. CASE job' = job
    <3>1. \/ driver'.code = driver.code
          \/ driver'.code = NoCode
          \/ \E phase : RaisesControl(phase)
      <4>1. (Breaks \/ \E place : Become(place)) => driver'.code = driver.code
        BY <1>2 DEF Breaks, Become, Drivers
      <4>2. \A status : JobEnds(status) => driver'.code = NoCode
        BY DEF JobEnds, NoDriver
      <4>3. CASE RayStops \/ JobDies \/ DriverExit
        BY <4>2, <4>3 DEF RayStops, JobDies, DriverExit
      <4>4. CASE DriverConstruct \/ DriverProgress \/ DriverWrite
        BY <1>2, <4>1, <4>2, <4>4 DEF DriverConstruct, DriverProgress, DriverWrite, Drivers
      <4>5. CASE DriverBegin \/ DriverComplete \/ DriverReport
        BY <4>1, <4>5 DEF DriverBegin, DriverComplete, DriverReport
      <4> QED
        BY <1>12, <4>3, <4>4, <4>5 DEF DriverStep
    <3> QED
      BY <2>2, <2>4, <3>1
  <2> QED
    BY <2>1, <2>2, <2>3, <2>5
<1> QED
  BY <1>7, <1>8, <1>9, <1>10, <1>11, <1>12 DEF Next

-----------------------------------------------------------------------------
(* The progress in the stream *)

\* The shape of the stream after an event was added.
LEMMA AddedShape ==
  ASSUME StreamOK, NEW by, NEW e \in Event(OpType), StreamStep(by, e), ~UNCHANGED events
  PROVE  /\ \A i \in 1..Len(stream) : ~IsTerminal(stream[i])
         /\ Len(stream') \in 1..MaxLen /\ stream'[Len(stream')] = e
         /\ Len(stream') \in {Len(stream), Len(stream) + 1}
         /\ \A i \in 1..(Len(stream') - 1) :
              /\ i + (Len(stream) + 1 - Len(stream')) \in 1..Len(stream)
              /\ stream'[i] = stream[i + (Len(stream) + 1 - Len(stream'))]
<1> DEFINE n == Stored(stream, e)
<1>1. ~Closed(stream) /\ Reply(stream, e) = "added" /\ stream' = n
  BY DEF StreamStep
<1>2. /\ n \in Seq(Event(OpType)) /\ Len(n) \in 1..MaxLen /\ n[Len(n)] = e
      /\ \A i \in 1..(Len(n) - 1) : n[i] = stream[i + (Len(stream) + 1 - Len(n))]
      /\ Len(n) \in {Len(stream), Len(stream) + 1}
  BY <1>1, StoredShape DEF StreamOK
<1> HIDE DEF n
<1>3. \A i \in 1..Len(stream) : ~IsTerminal(stream[i])
  <2>1. CASE stream = <<>>
    BY <2>1
  <2>2. CASE stream # <<>>
    BY <1>1, <2>2 DEF StreamOK, SingleTerminal, Closed
  <2> QED
    BY <2>1, <2>2
<1>4. \A i \in 1..(Len(n) - 1) : i + (Len(stream) + 1 - Len(n)) \in 1..Len(stream)
  BY <1>2, Constants DEF StreamOK
<1> QED
  BY <1>1, <1>2, <1>3, <1>4

\* The entries of the stream have a progress number, or NoRows.
LEMMA RowsType ==
  ASSUME StreamOK, NEW i \in 1..Len(stream)
  PROVE  stream[i].rows \in Int
<1>1. stream[i] \in Event(OpType)
  BY DEF StreamOK
<1> QED
  BY <1>1 DEF Event

\* An event that is no older than the stream keeps it in order.
LEMMA RowsInOrder ==
  ASSUME StreamOK, NEW by, NEW e \in Event(OpType), StreamStep(by, e), ProgressKept,
         IsTerminal(e) \/ e.rows = NoRows \/ \A i \in 1..Len(stream) : stream[i].rows <= e.rows
  PROVE  \A i, j \in 1..Len(stream') :
           i <= j /\ ~IsTerminal(stream'[j]) /\ stream'[j].rows # NoRows =>
             stream'[i].rows <= stream'[j].rows
<1>1. CASE UNCHANGED events
  BY <1>1 DEF ProgressKept, events
<1>2. CASE ~UNCHANGED events
  <2> DEFINE k == Len(stream) + 1 - Len(stream')
  <2>1. /\ Len(stream') \in Nat /\ stream'[Len(stream')] = e /\ k \in Int
        /\ \A i \in 1..(Len(stream') - 1) :
             i + k \in 1..Len(stream) /\ stream'[i] = stream[i + k]
    BY <1>2, AddedShape, Constants DEF StreamOK
  <2> HIDE DEF k
  <2> SUFFICES ASSUME NEW i \in 1..Len(stream'), NEW j \in 1..Len(stream'), i <= j,
                      ~IsTerminal(stream'[j]), stream'[j].rows # NoRows
               PROVE  stream'[i].rows <= stream'[j].rows
    OBVIOUS
  <2>2. e.rows \in Int
    BY DEF Event
  <2>3. CASE j = Len(stream') /\ i = j
    BY <2>1, <2>2, <2>3
  <2>4. CASE j = Len(stream') /\ i < j
    BY <2>1, <2>4
  <2>5. CASE j < Len(stream')
    <3>1. i + k \in 1..Len(stream) /\ j + k \in 1..Len(stream) /\ i + k <= j + k
          /\ stream'[i] = stream[i + k] /\ stream'[j] = stream[j + k]
      BY <2>1, <2>5
    <3> QED
      BY <3>1 DEF ProgressKept
  <2> QED
    BY <2>1, <2>3, <2>4, <2>5
<1> QED
  BY <1>1, <1>2

\* A property of all entries that go on, and of the new one if it does.
LEMMA EveryEntry ==
  ASSUME StreamOK, NEW by, NEW e \in Event(OpType), StreamStep(by, e), NEW i \in 1..Len(stream'),
         ~IsTerminal(stream'[i])
  PROVE  \/ stream'[i] = e
         \/ \E j \in 1..Len(stream) : stream'[i] = stream[j]
<1>1. CASE UNCHANGED events
  BY <1>1 DEF events
<1>2. CASE ~UNCHANGED events
  <2>1. Len(stream') \in Nat
    BY <1>2, AddedShape, Constants
  <2>2. CASE i = Len(stream')
    BY <1>2, <2>2, AddedShape
  <2>3. CASE i # Len(stream')
    BY <1>2, <2>1, <2>3, AddedShape
  <2> QED
    BY <2>2, <2>3
<1> QED
  BY <1>1, <1>2

\* A driver at work has counted what it publishes.
DriverEarly == driver.at \in {"none", "boot", "control", "work"} /\ ~JobEnded

\* The driver counts forward.
LEMMA DriverCounts ==
  ASSUME TypeOK, DriverKnows, RayStops \/ JobDies \/ DriverStep, DriverEarly'
  PROVE  /\ DriverEarly /\ driver.done <= driver'.done
         /\ UNCHANGED events \/ (driver.at = "work" /\ driver'.done = driver.done + 1)
<1>1. driver \in Drivers /\ job \in Jobs /\ driver.done \in Nat
  <2>1. driver \in Drivers /\ job \in Jobs
    BY Typed
  <2> QED
    BY <2>1, Constants DEF Drivers
<1>2. ASSUME NEW status \in {"succeeded", "failed", "stopped"}, JobEnds(status) PROVE FALSE
  BY <1>1, <1>2 DEF JobEnds, Jobs, DriverEarly, JobEnded
<1>3. ASSUME NEW phase, RaisesControl(phase) PROVE FALSE
  BY <1>1, <1>3 DEF RaisesControl, Drivers, DriverEarly
<1>4. ASSUME NEW place, Become(place) PROVE place \in {"none", "boot", "control", "work"} /\ driver'.done = driver.done
  BY <1>1, <1>4 DEF Become, Drivers, DriverEarly
<1>5. ~Breaks
  BY <1>4 DEF Breaks, Become
<1>6. ~RayStops /\ ~JobDies
  BY <1>2 DEF RayStops, JobDies
<1>7. CASE DriverConstruct
  <2>1. driver' = [driver EXCEPT !.at = "control", !.memory = Fresh] /\ UNCHANGED events
        /\ DriverAt("boot")
    BY <1>2, <1>7 DEF DriverConstruct
  <2>2. driver'.done = driver.done
    BY <1>1, <2>1 DEF Drivers
  <2> QED
    BY <1>1, <2>1, <2>2 DEF DriverAt, DriverEarly, JobEnded
<1>8. CASE DriverBegin
  BY <1>1, <1>3, <1>4, <1>5, <1>8 DEF DriverBegin, DriverAt, DriverEarly, JobEnded
<1>9. CASE DriverProgress
  <2>1. driver'.done = driver.done + 1 /\ DriverAt("work")
    BY <1>1, <1>3, <1>5, <1>9 DEF DriverProgress, Drivers
  <2> QED
    BY <1>1, <2>1 DEF DriverAt, DriverEarly, JobEnded
<1>10. ~DriverWrite
  BY <1>1, <1>3, <1>5 DEF DriverWrite, Drivers, DriverEarly
<1>11. ~DriverComplete
  BY <1>3, <1>4, <1>5 DEF DriverComplete
<1>12. ~DriverReport
  BY <1>4 DEF DriverReport
<1>13. ~DriverExit
  BY <1>2 DEF DriverExit, DriverAt
<1> QED
  BY <1>6, <1>7, <1>8, <1>9, <1>10, <1>11, <1>12, <1>13 DEF DriverStep

\* A step leaves the progress in order.
LEMMA NextProgressKept ==
  ASSUME IInv, Next
  PROVE  ProgressKept'
<1>1. TypeOK /\ StreamOK /\ ProgressKept /\ DriverKnows /\ StreamOK'
  BY StreamIsOK, EventsFacts DEF IInv
<1>2. driver.done \in Nat /\ driver'.done \in Nat /\ driver' \in Drivers
  <2>1. TypeOK'
    BY <1>1, NextTypeOK DEF IInv
  <2>2. driver' \in Drivers
    BY <2>1 DEF TypeOK
  <2> QED
    BY <1>1, <2>2, Typed, Constants DEF Drivers
<1>3. \A i \in 1..Len(stream) : stream[i].rows \in Int
  BY <1>1, RowsType
<1>4. ASSUME UNCHANGED events, DriverEarly' => DriverEarly /\ driver.done <= driver'.done
      PROVE  ProgressKept'
  BY <1>1, <1>2, <1>3, <1>4 DEF ProgressKept, DriverEarly, events
<1>5. ASSUME NEW by, NEW e \in Event(OpType), StreamStep(by, e), ~UNCHANGED events,
             DriverEarly' => DriverEarly /\ driver.done <= driver'.done,
             \/ IsTerminal(e) \/ e.rows = NoRows
             \/ /\ DriverEarly /\ e.rows = driver.done + 1
                /\ DriverEarly' => driver'.done = driver.done + 1
      PROVE  ProgressKept'
  <2>1. \A i \in 1..Len(stream) : ~IsTerminal(stream[i])
    BY <1>1, <1>5, AddedShape
  <2>2. \A i \in 1..Len(stream) :
          stream[i].rows >= NoRows /\ (DriverEarly => stream[i].rows <= driver.done)
    BY <1>1, <2>1 DEF ProgressKept, DriverEarly
  <2>3. IsTerminal(e) \/ e.rows = NoRows \/ \A i \in 1..Len(stream) : stream[i].rows <= e.rows
    BY <1>2, <1>3, <1>5, <2>2
  <2>4. \A i, j \in 1..Len(stream') :
          i <= j /\ ~IsTerminal(stream'[j]) /\ stream'[j].rows # NoRows =>
            stream'[i].rows <= stream'[j].rows
    BY <1>1, <1>5, <2>3, RowsInOrder
  <2>5. ASSUME NEW i \in 1..Len(stream'), ~IsTerminal(stream'[i])
        PROVE  stream'[i].rows >= NoRows /\ (DriverEarly' => stream'[i].rows <= driver'.done)
    <3>1. CASE stream'[i] = e
      BY <1>2, <1>5, <2>5, <3>1 DEF NoRows
    <3>2. CASE \E j \in 1..Len(stream) : stream'[i] = stream[j]
      BY <1>2, <1>3, <1>5, <2>2, <3>2
    <3> QED
      BY <1>1, <1>5, <2>5, <3>1, <3>2, EveryEntry
  <2> QED
    BY <2>4, <2>5 DEF ProgressKept, DriverEarly
<1>6. CASE (\E d \in Deliveries : Send(d)) \/ AskCancel \/ Tick
  BY <1>1, <1>2, <1>4, <1>6, ClientFrame DEF ray, DriverEarly, JobEnded
<1>7. CASE Start
  BY <1>2, <1>4, <1>7, StartFrame DEF ray, DriverEarly, JobEnded
<1>8. CASE Crash \/ ReadEscapes \/ AckEscapes
  <2>1. UNCHANGED <<events, ray>>
    BY <1>1, <1>8, DownFrame
  <2> QED
    BY <1>2, <1>4, <2>1 DEF ray, DriverEarly, JobEnded
<1>9. CASE MainStep
  <2>1. CASE Submit
    <3>1. CASE CreateJob /\ job.status = "none"
      <4>1. driver.at = "none" /\ driver.done = 0 /\ DriverEarly
        BY <1>1, <3>1 DEF DriverKnows, NoDriver, DriverEarly, JobEnded
      <4> QED
        BY <1>2, <1>4, <2>1, <4>1 DEF Submit
    <3>2. CASE UNCHANGED <<job, driver>>
      BY <1>2, <1>4, <2>1, <3>2 DEF Submit, DriverEarly, JobEnded
    <3> QED
      BY <2>1, <3>1, <3>2 DEF Submit, CreateJob
  <2>2. CASE ~Submit
    <3>1. UNCHANGED <<job, driver>>
      BY <1>9, <2>2 DEF MainStep, Poll, CheckCancel, Refuse, Reject, Resume, CheckCancelAgain,
         Put, Admit, Ack, MainLocal, ray
    <3>2. PICK e : MainEvent(e) /\ StreamStep("admission", e)
      BY <1>1, <1>9, MainEvents
    <3>3. e \in Event(OpType) /\ (IsTerminal(e) \/ e.rows = NoRows)
      BY <1>1, <3>2, AcceptedFacts DEF MainEvent
    <3> QED
      BY <1>2, <1>4, <1>5, <3>1, <3>2, <3>3 DEF DriverEarly, JobEnded
  <2> QED
    BY <2>1, <2>2
<1>10. CASE WatchStep
  <2>1. UNCHANGED driver /\ job'.status = job.status
    <3>1. job' = job \/ AskStop
      BY <1>1, <1>10, WatchFrame
    <3> QED
      BY <1>1, <1>10, <3>1, WatchFrame, AskStopFacts
  <2>2. UNCHANGED events \/ StreamStep("watcher", WatchEvent)
    BY <1>10, WatchEvents
  <2> QED
    BY <1>1, <1>2, <1>4, <1>5, <2>1, <2>2, WatchEventFacts DEF DriverEarly, JobEnded
<1>11. CASE RayStops \/ JobDies \/ DriverStep
  <2>1. DriverEarly' => DriverEarly /\ driver.done <= driver'.done
    BY <1>1, <1>11, DriverCounts
  <2>2. CASE UNCHANGED events
    BY <1>4, <2>1, <2>2
  <2>3. CASE ~UNCHANGED events
    <3>1. PICK e : DriverEvent(e) /\ StreamStep("driver", e)
      BY <1>1, <1>11, <2>3, DriverEvents
    <3>2. DriverEarly' => driver'.done = driver.done + 1
      BY <1>1, <1>11, <2>3, DriverCounts
    <3>3. driver.at = "work" => DriverEarly
      BY <1>1, <1>11, DriverFrame DEF DriverEarly, JobEnded
    <3>4. e \in Event(OpType)
      BY <3>1 DEF DriverEvent
    <3> QED
      BY <1>5, <2>1, <2>3, <3>1, <3>2, <3>3, <3>4 DEF DriverEvent
  <2> QED
    BY <2>2, <2>3
<1> QED
  BY <1>6, <1>7, <1>8, <1>9, <1>10, <1>11 DEF Next

\* A step leaves the watcher with the newest progress on the stream.
LEMMA NextNewestRead ==
  ASSUME IInv, Next
  PROVE  NewestRead'
<1>1. TypeOK /\ StreamOK /\ NewestRead /\ WatcherKnows /\ StreamOK'
  BY StreamIsOK, EventsFacts DEF IInv
<1>2. watch \in Watchers /\ up \in BOOLEAN
  BY <1>1, Typed
<1>3. Closed(stream) => UNCHANGED events
  BY Lasting
<1>4. ASSUME UNCHANGED <<watch, stream>> PROVE NewestRead'
  BY <1>1, <1>4 DEF NewestRead, LastPhase
<1>5. CASE watch'.at # "publish"
  BY <1>5 DEF NewestRead
<1>6. CASE (\E d \in Deliveries : Send(d)) \/ AskCancel \/ Tick
  BY <1>1, <1>4, <1>6, ClientFrame DEF consumer, events
<1>7. CASE Start
  BY <1>4, <1>7, StartFrame DEF events
<1>8. CASE Crash \/ ReadEscapes \/ AckEscapes
  <2>1. Down
    BY <1>1, <1>8, DownFrame
  <2> QED
    BY <1>5, <2>1 DEF Down, NotWatching
<1>9. CASE MainStep
  <2>1. UNCHANGED watch
    BY <1>1, <1>9, MainFrame
  <2>2. PICK e : MainEvent(e) /\ StreamStep("admission", e)
    BY <1>1, <1>9, MainEvents
  <2>3. e \in Event(OpType)
    BY <2>2 DEF MainEvent
  <2>4. CASE UNCHANGED events
    BY <1>4, <2>1, <2>4 DEF events
  <2>5. CASE ~UNCHANGED events /\ IsTerminal(e)
    <3>1. Closed(stream')
      <4>1. stream'[Len(stream')] = e /\ Len(stream') \in 1..MaxLen
        BY <1>1, <2>2, <2>3, <2>5, AddedShape
      <4> QED
        BY <1>1, <2>5, <4>1 DEF Closed, StreamOK
    <3> QED
      BY <3>1 DEF NewestRead
  <2>6. CASE ~UNCHANGED events /\ ~IsTerminal(e)
    <3>1. e = Accepted /\ Reply(stream, e) = "added"
      BY <2>2, <2>6 DEF MainEvent, StreamStep
    <3>2. e.call = "ACCEPTED" /\ e.rows = NoRows /\ e.phase = InitialPhase(OpType)
      BY <1>1, <3>1, AcceptedFacts
    <3>3. stream = <<>>
      BY <3>1, <3>2 DEF Reply
    <3>4. Len(stream') = 1 /\ stream'[1] = e
      BY <1>1, <2>2, <2>3, <2>6, <3>3, AddedShape, Constants
    <3>5. NewestRows(stream) = NoRows /\ NewestRows(stream') = NoRows
      BY <3>2, <3>3, <3>4 DEF NewestRows, Carriers
    <3>6. LastPhase' = LastPhase
      BY <3>2, <3>3, <3>4 DEF LastPhase
    <3>7. ~Closed(stream)
      BY <2>2, <2>6 DEF StreamStep
    <3> QED
      BY <1>1, <2>1, <3>5, <3>6, <3>7 DEF NewestRead
  <2> QED
    BY <2>4, <2>5, <2>6
<1>10. CASE WatchStep
  <2>1. CASE WatchConstruct
    <3>1. CASE watch' = [watch EXCEPT !.at = "publish", !.memory = Fresh]
      <4>1. watch'.memory = Fresh /\ UNCHANGED stream
        BY <1>2, <2>1, <3>1 DEF WatchConstruct, Watchers, events
      <4> QED
        BY <4>1 DEF NewestRead, Fresh, Restored, LastPhase
    <3> QED
      BY <1>5, <2>1, <3>1 DEF WatchConstruct, NotWatching
  <2>2. CASE WatchPublish \/ WatchStop
    BY <1>5, <2>2 DEF WatchPublish, WatchStop, NotWatching
  <2>3. CASE WatchStream
    <3>1. CASE UNCHANGED watch
      BY <1>4, <2>3, <3>1 DEF WatchStream, events
    <3> QED
      BY <1>2, <1>5, <2>3, <3>1 DEF WatchStream, Watchers
  <2>4. CASE WatchStatus \/ WatchDecide
    <3>1. NotWatching.at = "idle"
      BY DEF NotWatching
    <3>2. WatchStatus => watch'.at = "decide"
      BY <1>2 DEF WatchStatus, Watchers
    <3>3. WatchDecide => watch' = NotWatching \/ watch'.at \in {"report", "stop"}
      BY <1>2 DEF WatchDecide, Watchers
    <3> QED
      BY <1>5, <2>4, <3>1, <3>2, <3>3
  <2> QED
    BY <1>10, <2>1, <2>2, <2>3, <2>4 DEF WatchStep
<1>11. CASE RayStops \/ JobDies \/ DriverStep
  <2>1. UNCHANGED watch /\ job.status = "running"
    BY <1>1, <1>11, DriverFrame DEF consumer
  <2>2. watch.at # "publish"
    BY <1>1, <2>1 DEF WatcherKnows, HasEnded
  <2> QED
    BY <1>5, <2>1, <2>2
<1> QED
  BY <1>6, <1>7, <1>8, <1>9, <1>10, <1>11 DEF Next

-----------------------------------------------------------------------------
(* Why a job was stopped *)

\* A step leaves a reason with each stop.
LEMMA NextReasonKnown ==
  ASSUME IInv, Next
  PROVE  ReasonKnown'
<1>1. /\ TypeOK /\ StreamOK /\ ReasonKnown /\ WatcherKnows /\ DriverKnows /\ DeadlinesPassed
      /\ spent \in Bounds
  BY StreamIsOK, Typed DEF IInv
<1>2. /\ watch \in Watchers /\ job \in Jobs /\ cancel \in BOOLEAN
      /\ requested \in [cancel : BOOLEAN, timeout : BOOLEAN]
  BY <1>1, Typed
<1>3. /\ cancel => cancel'
      /\ JobEnded => job' = job
      /\ Closed(stream) => Closed(stream')
  BY Lasting
<1>4. ASSUME UNCHANGED <<watch, requested>>, job'.stop = job.stop, JobEnded => JobEnded',
             job'.status = "stopped" /\ watch.at \in {"report", "publish"} => job.status = "stopped",
             spent'.crashes = 0 /\ spent'.faults = 0 => spent.crashes = 0 /\ spent.faults = 0
      PROVE  ReasonKnown'
  BY <1>1, <1>3, <1>4 DEF ReasonKnown
<1>5. CASE (\E d \in Deliveries : Send(d)) \/ AskCancel \/ Tick
  <2>1. UNCHANGED <<watch, requested, job, spent>>
    BY <1>1, <1>5, ClientFrame DEF consumer, ray
  <2> QED
    BY <1>4, <2>1 DEF JobEnded
<1>6. CASE Start
  BY <1>4, <1>6, StartFrame DEF ray, JobEnded
<1>7. CASE Crash \/ ReadEscapes \/ AckEscapes
  <2>1. /\ Down /\ UNCHANGED <<channel, ray>>
        /\ ~(spent'.crashes = 0 /\ spent'.faults = 0)
    <3>1. spent' \in Bounds /\ (spent'.crashes > 0 \/ spent'.faults > 0)
          /\ Down /\ UNCHANGED <<channel, ray>>
      BY <1>1, <1>7, DownFrame
    <3> QED
      BY <3>1 DEF Bounds
  <2> QED
    BY <1>1, <2>1 DEF ReasonKnown, Down, NotWatching, NothingRequested, ray, channel
<1>8. CASE MainStep
  <2>1. /\ UNCHANGED <<watch, requested>> /\ (UNCHANGED job \/ CreateJob)
        /\ spent'.crashes = 0 /\ spent'.faults = 0 => spent.crashes = 0 /\ spent.faults = 0
    BY <1>1, <1>8, MainFrame, SpentFacts
  <2>2. CASE UNCHANGED job
    BY <1>4, <2>1, <2>2 DEF JobEnded
  <2>3. CASE job.status = "none" /\ CreateJob
    <3>1. job'.stop = "no" /\ job.stop = "no" /\ ~JobEnded /\ job'.status = "running"
      BY <1>1, <2>3 DEF CreateJob, DriverKnows, JobEnded
    <3> QED
      BY <1>4, <2>1, <3>1
  <2> QED
    BY <2>1, <2>2, <2>3 DEF CreateJob
<1>9. CASE WatchStep
  <2>1. /\ UNCHANGED cancel /\ job'.status = job.status
        /\ spent'.crashes = 0 /\ spent'.faults = 0 => spent.crashes = 0 /\ spent.faults = 0
    <3>1. job' = job \/ AskStop
      BY <1>1, <1>9, WatchFrame
    <3> QED
      BY <1>1, <1>9, <3>1, WatchFrame, AskStopFacts, SpentFacts DEF channel
  <2>2. CASE WatchStream
    <3>1. UNCHANGED job /\ watch'.at \in {"status", "idle"}
          /\ (UNCHANGED requested \/ (requested' = NothingRequested /\ Closed(stream')))
      BY <1>2, <2>2 DEF WatchStream, WatchLocal, Forget, Watchers, ray, events
    <3> QED
      BY <1>1, <1>3, <2>1, <3>1 DEF ReasonKnown, NothingRequested, JobEnded
  <2>3. CASE WatchStatus
    <3>1. UNCHANGED <<job, requested>> /\ watch'.at = "decide"
      BY <1>2, <2>3 DEF WatchStatus, WatchLocal, Watchers, ray
    <3> QED
      BY <1>1, <1>3, <2>1, <3>1 DEF ReasonKnown, JobEnded
  <2>4. CASE WatchDecide
    <3>1. UNCHANGED <<job, requested>> /\ watch.at = "decide"
      BY <2>4 DEF WatchDecide, WatchLocal, ray
    <3>2. ASSUME watch'.at = "stop" => watch'.code = IF cancel THEN "cancel" ELSE "timeout",
                 watch'.at \in {"report", "publish"} => HasEnded /\ watch'.code = EndedWith
          PROVE  ReasonKnown'
      <4>1. ASSUME watch'.at \in {"report", "publish"}, job.status = "stopped", ~Closed(stream),
                   spent.crashes = 0, spent.faults = 0
            PROVE  watch'.code = IF job.stop = "timeout" THEN "EXECUTION_TIMEOUT" ELSE "CANCELLED"
        <5>1. HasEnded /\ watch'.code = EndedWith /\ watch.status = "stopped"
          BY <1>1, <3>1, <3>2, <4>1 DEF WatcherKnows
        <5>2. CASE job.stop = "timeout"
          BY <1>1, <4>1, <5>1, <5>2 DEF ReasonKnown, EndedWith, TimeoutStop
        <5>3. CASE job.stop # "timeout"
          <6>1. job.stop = "cancel"
            BY <1>1, <1>2, <4>1, <5>3 DEF DriverKnows, Jobs
          <6>2. cancel /\ ~requested.timeout
            BY <1>1, <6>1 DEF ReasonKnown
          <6>3. ~TimeoutStop
            BY <6>2 DEF TimeoutStop
          <6> QED
            BY <5>1, <5>3, <6>2, <6>3 DEF EndedWith
        <5> QED
          BY <5>2, <5>3
      <4> QED
        BY <1>1, <1>3, <2>1, <3>1, <3>2, <4>1 DEF ReasonKnown, JobEnded
    <3>3. CASE HasEnded /\ watch' = [watch EXCEPT !.at = "report", !.code = EndedWith]
      <4>1. watch'.at = "report" /\ watch'.code = EndedWith
        BY <1>2, <3>3 DEF Watchers
      <4> QED
        BY <3>2, <3>3, <4>1
    <3>4. CASE watch' = [watch EXCEPT !.at = "stop", !.code = IF cancel THEN "cancel" ELSE "timeout"]
      <4>1. watch'.at = "stop" /\ watch'.code = IF cancel THEN "cancel" ELSE "timeout"
        BY <1>2, <3>4 DEF Watchers
      <4> QED
        BY <3>2, <4>1
    <3>5. CASE watch' = NotWatching
      BY <3>2, <3>5 DEF NotWatching
    <3> QED
      BY <2>4, <3>3, <3>4, <3>5 DEF WatchDecide
  <2>5. CASE WatchStop
    <3>1. watch.at = "stop" /\ watch.code \in {"cancel", "timeout"} /\ watch'.at = "idle"
          /\ job.status # "none" /\ UNCHANGED events
      BY <1>1, <2>5 DEF WatchStop, WatcherKnows, NotWatching
    <3>2. /\ job.stop = "cancel" => watch.code = "cancel" /\ cancel
          /\ watch.code = "cancel" => cancel
      BY <1>1, <3>1 DEF ReasonKnown, WatcherKnows
    <3>3. \/ job' = job
          \/ job.status = "running" /\ job.stop = "no" /\ job'.stop = watch.code
             /\ job'.status = "running"
      BY <1>2, <2>5 DEF WatchStop, AskStop, Jobs
    <3>4. CASE AskStop /\ UNCHANGED spent
               /\ requested' = IF watch.code = "cancel"
                               THEN [requested EXCEPT !.cancel = TRUE]
                               ELSE [requested EXCEPT !.timeout = TRUE]
      <4>1. requested'.timeout <=> requested.timeout \/ watch.code = "timeout"
        BY <1>2, <3>1, <3>4
      <4>2. job'.stop = IF job.status = "running" /\ job.stop = "no" THEN watch.code ELSE job.stop
        BY <1>2, <3>4 DEF AskStop, Jobs
      <4>3. job.status # "running" => JobEnded
        BY <1>2, <3>1 DEF Jobs, Statuses, JobEnded
      <4>4. job.stop \in {"no", "cancel", "timeout"}
        BY <1>2 DEF Jobs
      <4> QED
        BY <1>1, <1>3, <2>1, <3>1, <3>2, <4>1, <4>2, <4>3, <4>4 DEF ReasonKnown, JobEnded
    <3>5. CASE Fault /\ UNCHANGED requested
      <4>1. ~(spent'.faults = 0)
        BY <1>1, <3>5, SpentFacts DEF SpentStep
      <4> QED
        BY <1>1, <1>3, <2>1, <3>1, <3>2, <3>3, <3>5, <4>1 DEF ReasonKnown, JobEnded
    <3> QED
      BY <2>5, <3>4, <3>5 DEF WatchStop
  <2>6. CASE WatchConstruct
    <3>1. UNCHANGED <<job, requested, events>> /\ watch.at = "report"
      BY <2>6 DEF WatchConstruct, WatchLocal, ray
    <3>2. watch'.at \in {"idle", "publish"} /\ (watch'.at = "publish" => watch'.code = watch.code)
      <4>1. CASE watch' = [watch EXCEPT !.at = "publish", !.memory = Fresh]
        BY <1>2, <4>1 DEF Watchers
      <4>2. CASE watch' = NotWatching
        BY <4>2 DEF NotWatching
      <4> QED
        BY <2>6, <4>1, <4>2 DEF WatchConstruct
    <3> QED
      BY <1>1, <1>3, <2>1, <3>1, <3>2 DEF ReasonKnown, JobEnded, events
  <2>7. CASE WatchPublish
    <3>1. UNCHANGED job /\ watch'.at = "idle"
          /\ (UNCHANGED requested \/ (requested' = NothingRequested /\ Closed(stream')))
      <4>1. (UNCHANGED <<active, requested>> \/ Forget) /\ UNCHANGED job /\ watch' = NotWatching
        BY <2>7 DEF WatchPublish, WatchLocal, ray
      <4>2. watch.at # "stop"
        BY <2>7 DEF WatchPublish
      <4> QED
        BY <1>9, <4>1, <4>2, WatchForgets DEF Forget, NotWatching
    <3> QED
      BY <1>1, <1>3, <2>1, <3>1 DEF ReasonKnown, NothingRequested, JobEnded
  <2> QED
    BY <1>9, <2>2, <2>3, <2>4, <2>5, <2>6, <2>7 DEF WatchStep
<1>10. CASE RayStops \/ JobDies \/ DriverStep
  <2>1. /\ UNCHANGED <<watch, requested>> /\ job.status = "running"
        /\ job' = job \/ \E status \in {"succeeded", "failed", "stopped"} : JobEnds(status)
        /\ spent'.crashes = 0 /\ spent'.faults = 0 => spent.crashes = 0 /\ spent.faults = 0
    BY <1>1, <1>10, DriverFrame, SpentFacts DEF consumer
  <2>2. job'.stop = job.stop
    BY <1>2, <2>1 DEF JobEnds, Jobs
  <2>3. watch.at \notin {"report", "publish"}
    BY <1>1, <2>1 DEF WatcherKnows, HasEnded
  <2>4. ~JobEnded
    BY <2>1 DEF JobEnded
  <2> QED
    BY <1>4, <2>1, <2>2, <2>3, <2>4
<1> QED
  BY <1>5, <1>6, <1>7, <1>8, <1>9, <1>10 DEF Next

-----------------------------------------------------------------------------
(* What is reported in the place of the driver *)

\* A phase of the protocol stays what it is.
LEMMA MapPhaseKeeps ==
  ASSUME NEW phase \in ProtocolPhases(OpType)
  PROVE  MapPhase(OpType, phase) = phase
<1>1. CASE OpType = "training"
  BY <1>1 DEF MapPhase, PhaseTable, TrainingPhases, ProtocolPhases
<1>2. CASE OpType = "batch_inference"
  BY <1>2 DEF MapPhase, PhaseTable, InferencePhases, ProtocolPhases
<1> QED
  BY <1>1, <1>2, Constants DEF OperationTypes

\* The newest progress is no less than any other of an open stream.
LEMMA NewestIsGreatest ==
  ASSUME StreamOK, ProgressKept, ~Closed(stream), NEW i \in 1..Len(stream)
  PROVE  stream[i].rows <= IF NewestRows(stream) = NoRows THEN 0 ELSE NewestRows(stream)
<1> DEFINE C == Carriers(stream)
<1>1. \A j \in 1..Len(stream) : stream[j].rows \in Int
  BY RowsType
<1>2. \A j \in 1..Len(stream) : ~IsTerminal(stream[j])
  <2>1. CASE stream = <<>>
    BY <2>1
  <2>2. CASE stream # <<>>
    BY <2>2 DEF StreamOK, SingleTerminal, Closed
  <2> QED
    BY <2>1, <2>2
<1>3. CASE C = {}
  BY <1>1, <1>3 DEF Carriers, NewestRows, NoRows
<1>4. CASE C # {}
  <2>1. Len(stream) \in Nat /\ C \in SUBSET (1..Len(stream))
    BY DEF StreamOK, Carriers
  <2>2. \E k \in C : \A j \in C : j <= k
    BY <1>4, <2>1, LastCarrier
  <2> DEFINE k == CHOOSE k \in C : \A j \in C : j <= k
  <2>3. k \in C /\ \A j \in C : j <= k
    BY <2>2
  <2>4. NewestRows(stream) = stream[k].rows
    BY <1>4 DEF NewestRows
  <2> HIDE DEF k
  <2>5. k \in 1..Len(stream) /\ stream[k].rows # NoRows /\ stream[k].rows >= NoRows
    BY <1>2, <2>3 DEF Carriers, ProgressKept
  <2>6. CASE i \in C
    BY <1>2, <2>1, <2>3, <2>4, <2>5, <2>6 DEF ProgressKept
  <2>7. CASE i \notin C
    BY <1>1, <2>4, <2>5, <2>7 DEF Carriers, NoRows
  <2> QED
    BY <2>6, <2>7
<1> QED
  BY <1>3, <1>4

\* What the watcher publishes says where the driver was.
LEMMA WatchEventTells ==
  ASSUME TypeOK
  PROVE  /\ WatchEvent.phase = watch.memory.phase
         /\ CarriesRows(OpType, WatchEvent.type) =>
              WatchEvent.rows = IF watch.memory.rows = NoRows THEN 0 ELSE watch.memory.rows
<1> DEFINE call == IF watch.code = "CANCELLED" THEN "CANCELLED" ELSE "FAILED"
<1>1. watch.memory.phase \in ProtocolPhases(OpType)
  BY Typed DEF Watchers, Reporter
<1>2. /\ WatchEvent.phase = EventPhase(OpType, call, call, watch.memory.phase)
      /\ WatchEvent.type = EventType(OpType, call)
      /\ WatchEvent.rows = EventRows(OpType, call, NoRows, watch.memory.rows)
  BY DEF WatchEvent, ControlEvent, EventFrom, EventOf
<1>3. EventPhase(OpType, call, call, watch.memory.phase) = watch.memory.phase
  <2>1. RequestedPhase(call, call, watch.memory.phase) = watch.memory.phase
    BY DEF RequestedPhase
  <2>2. MapPhase(OpType, watch.memory.phase) = watch.memory.phase
    BY <1>1, MapPhaseKeeps
  <2> QED
    BY <2>1, <2>2 DEF EventPhase
<1>4. CarriesRows(OpType, EventType(OpType, call)) =>
        EventRows(OpType, call, NoRows, watch.memory.rows)
          = IF watch.memory.rows = NoRows THEN 0 ELSE watch.memory.rows
  BY DEF EventRows
<1> QED
  BY <1>2, <1>3, <1>4

\* The watcher's event in an open stream is true of the driver.
LEMMA WatchKeepsProgress ==
  ASSUME IInv, watch.at = "publish", StreamStep("watcher", WatchEvent), ~UNCHANGED events
  PROVE  FallbackKeepsProgress' /\ Outcome' = WatchEvent
<1>1. TypeOK /\ StreamOK /\ ProgressKept /\ NewestRead
  BY StreamIsOK DEF IInv
<1>2. WatchEvent \in Event(OpType) /\ IsTerminal(WatchEvent)
  BY <1>1, WatchEventFacts
<1> DEFINE n == stream'
           k == Len(stream) + 1 - Len(n)
<1>3. /\ ~Closed(stream) /\ StreamOK'
      /\ Len(n) \in 1..MaxLen /\ n[Len(n)] = WatchEvent /\ Len(n) \in {Len(stream), Len(stream) + 1}
      /\ \A i \in 1..(Len(n) - 1) : i + k \in 1..Len(stream) /\ n[i] = stream[i + k]
  BY <1>1, <1>2, StepFacts, AddedShape DEF StreamStep
<1>4. Len(n) \in Nat /\ Len(stream) \in Nat /\ n \in Seq(Event(OpType))
  BY <1>1, <1>3, Constants DEF StreamOK
<1>5. Outcome' = WatchEvent
  <2>1. Closed(n)
    BY <1>2, <1>3, <1>4 DEF Closed
  <2> QED
    BY <1>3, <2>1 DEF Outcome
<1>6. watch.memory.phase = LastPhase /\ watch.memory.rows = NewestRows(stream)
  BY <1>1, <1>3 DEF NewestRead
<1>7. ASSUME Len(n) > 1
      PROVE  LET before == SubSeq(n, 1, Len(n) - 1)
             IN  /\ WatchEvent.phase = before[Len(before)].phase
                 /\ CarriesRows(OpType, WatchEvent.type) =>
                      \A i \in 1..Len(before) : before[i].rows <= WatchEvent.rows
  <2> DEFINE before == SubSeq(n, 1, Len(n) - 1)
  <2>1. Len(before) = Len(n) - 1 /\ \A i \in 1..(Len(n) - 1) : before[i] = n[i]
    BY <1>4, <1>7
  <2> HIDE DEF before
  <2>2. before[Len(before)] = stream[Len(stream)] /\ stream # <<>>
    <3>1. Len(n) - 1 \in 1..(Len(n) - 1) /\ Len(n) - 1 + k = Len(stream)
      BY <1>3, <1>4, <1>7
    <3>2. Len(stream) \in 1..Len(stream)
      BY <1>3, <3>1
    <3> QED
      BY <1>3, <2>1, <3>1, <3>2
  <2>3. WatchEvent.phase = before[Len(before)].phase
    BY <1>1, <1>6, <2>2, WatchEventTells DEF LastPhase
  <2>4. ASSUME CarriesRows(OpType, WatchEvent.type), NEW i \in 1..Len(before)
        PROVE  before[i].rows <= WatchEvent.rows
    <3>1. before[i] = stream[i + k] /\ i + k \in 1..Len(stream)
      BY <1>3, <1>4, <2>1, <2>4
    <3> QED
      BY <1>1, <1>3, <1>6, <2>4, <3>1, NewestIsGreatest, WatchEventTells
  <2> QED
    BY <2>3, <2>4 DEF before
<1> QED
  BY <1>5, <1>7 DEF FallbackKeepsProgress

\* The watcher reports for a driver that cannot any more.
LEMMA NextFallbackIsTrue ==
  ASSUME IInv, Next
  PROVE  FallbackIsTrue'
<1>1. /\ TypeOK /\ StreamOK /\ StreamOK' /\ FallbackIsTrue /\ WatcherKnows /\ ReasonKnown /\ DriverKnows
      /\ spent \in Bounds /\ job \in Jobs
  BY StreamIsOK, EventsFacts, Typed DEF IInv
<1>2. /\ JobEnded => job' = job
      /\ Closed(stream) => Closed(stream') /\ UNCHANGED events
  BY Lasting
<1>3. CASE closer' # "watcher"
  BY <1>3 DEF FallbackIsTrue, FallbackKeepsProgress, ReasonKeptWhileUp, StopReasonKept
<1>4. spent'.crashes = 0 /\ spent'.faults = 0 => spent.crashes = 0 /\ spent.faults = 0
  <2>1. CASE UNCHANGED spent
    BY <2>1
  <2>2. CASE Crash \/ ReadEscapes \/ AckEscapes
    <3>1. spent' \in Bounds /\ (spent'.crashes > 0 \/ spent'.faults > 0)
      BY <1>1, <2>2, DownFrame
    <3> QED
      BY <3>1 DEF Bounds
  <2>3. CASE SpentStep
    BY <1>1, <2>3, SpentFacts
  <2>4. CASE (\E d \in Deliveries : Send(d)) \/ AskCancel \/ Tick
    BY <1>1, <2>1, <2>4, ClientFrame
  <2> QED
    BY <1>1, <2>1, <2>2, <2>3, <2>4, StartFrame, MainFrame, WatchFrame, DriverFrame DEF Next
<1>5. CASE UNCHANGED events /\ closer = "watcher"
  <2>1. UNCHANGED <<stream, closer, job>>
    BY <1>1, <1>2, <1>5 DEF WatcherKnows, events
  <2> QED
    BY <1>1, <1>4, <2>1 DEF FallbackIsTrue, FallbackKeepsProgress, ReasonKeptWhileUp, StopReasonKept, Outcome
<1>6. CASE closer' = "watcher" /\ closer # "watcher"
  <2>1. WatchStep /\ watch.at = "publish" /\ StreamStep("watcher", WatchEvent)
    <3>1. CASE MainStep
      BY <1>1, <1>6, <3>1, MainEvents DEF StreamStep, events
    <3>2. CASE RayStops \/ JobDies \/ DriverStep
      BY <1>1, <1>6, <3>2, DriverEvents DEF StreamStep, events
    <3>3. CASE (\E d \in Deliveries : Send(d)) \/ AskCancel \/ Tick
      BY <1>1, <1>6, <3>3, ClientFrame DEF events
    <3>4. CASE Start
      BY <1>6, <3>4, StartFrame DEF events
    <3>5. CASE Crash \/ ReadEscapes \/ AckEscapes
      <4>1. UNCHANGED events
        BY <1>1, <3>5, DownFrame
      <4> QED
        BY <1>6, <4>1 DEF events
    <3>6. CASE WatchStep
      BY <1>6, <3>6, WatchEvents DEF events
    <3> QED
      BY <3>1, <3>2, <3>3, <3>4, <3>5, <3>6 DEF Next
  <2>2. FallbackKeepsProgress' /\ Outcome' = WatchEvent
    BY <1>6, <2>1, WatchKeepsProgress DEF events
  <2>3. ~Closed(stream)
    BY <1>2, <1>6 DEF events
  <2>4. UNCHANGED job
    BY <1>1, <1>2, <2>1 DEF WatcherKnows, HasEnded, JobEnded
  <2>5. ASSUME spent'.crashes = 0, spent'.faults = 0, job.status = "stopped"
        PROVE  IF job.stop = "timeout" THEN WatchEvent.code = TimeoutCode(OpType)
               ELSE WatchEvent.type = "CANCELLED"
    <3>1. watch.code = IF job.stop = "timeout" THEN "EXECUTION_TIMEOUT" ELSE "CANCELLED"
      BY <1>1, <1>4, <2>1, <2>3, <2>5 DEF ReasonKnown
    <3>2. CASE job.stop = "timeout"
      <4>1. \E p : WatchEvent.code = ErrorCode(OpType, "EXECUTION_TIMEOUT", p)
        BY <1>1, <3>1, <3>2, WatchEventFacts
      <4> QED
        BY <3>2, <4>1, FailureCode
    <3>3. CASE job.stop # "timeout"
      BY <1>1, <3>1, <3>3, WatchEventFacts
    <3> QED
      BY <3>2, <3>3
  <2> QED
    BY <2>2, <2>4, <2>5 DEF FallbackIsTrue, ReasonKeptWhileUp, StopReasonKept
<1> QED
  <2>1. closer = "watcher" => UNCHANGED events
    BY <1>1, <1>2 DEF WatcherKnows
  <2> QED
    BY <1>3, <1>5, <1>6, <2>1

-----------------------------------------------------------------------------
(* The ordinary course *)

\* Only an admission that saw no cancel key goes on to submit.
LEMMA NextNothingToStart ==
  ASSUME IInv, AllAlike, NothingToStart, Next
  PROVE  NothingToStart'
<1>1. /\ TypeOK /\ StreamOK /\ StreamOK' /\ MainKnows /\ WatcherKnows
      /\ valid \in SUBSET Deliveries /\ cancel \in BOOLEAN
  BY StreamIsOK, EventsFacts, Typed DEF IInv
<1>2. /\ valid' = valid /\ (cancel => cancel')
      /\ job.status # "none" => job'.status # "none"
      /\ Closed(stream) => UNCHANGED events
  BY Lasting
<1>3. ASSUME UNCHANGED events, main'.at = "submit" => main.at = "submit",
             job'.status = "none" => job.status = "none"
      PROVE  NothingToStart'
  BY <1>1, <1>2, <1>3 DEF NothingToStart, events
<1>4. CASE (\E d \in Deliveries : Send(d)) \/ AskCancel \/ Tick
  BY <1>1, <1>3, <1>4, ClientFrame DEF consumer, ray
<1>5. CASE Start
  BY <1>3, <1>5, StartFrame DEF ray
<1>6. CASE Crash \/ ReadEscapes \/ AckEscapes
  <2>1. Down /\ UNCHANGED <<events, ray>>
    BY <1>1, <1>6, DownFrame
  <2> QED
    BY <1>3, <2>1 DEF Down, MainIdle, ray
<1>7. CASE MainStep
  <2>1. UNCHANGED cancel /\ (job' = job \/ main.at = "submit")
    BY <1>1, <1>7, MainFrame
  <2>2. \A place : Goto(place) => main'.at = place
    BY <1>1, GotoFacts
  <2>3. Retry => main'.at = "idle"
    BY DEF Retry, MainIdle
  <2>4. CASE CheckCancelAgain
    <3>1. UNCHANGED <<events, job>> /\ (main'.at = "submit" => ~cancel)
      BY <2>2, <2>3, <2>4 DEF CheckCancelAgain, MainLocal, ray
    <3> QED
      BY <1>1, <1>2, <2>1, <3>1 DEF NothingToStart, events
  <2>5. CASE Submit
    <3>1. UNCHANGED events /\ main'.at \in {"put", "idle"}
      BY <2>2, <2>3, <2>5 DEF Submit
    <3>2. job'.status = "none" => job.status = "none"
      BY <1>2
    <3> QED
      BY <1>3, <3>1, <3>2
  <2>6. CASE Refuse
    <3>1. main'.at # "submit" /\ cancel /\ job' = job
      BY <1>1, <2>2, <2>3, <2>6 DEF Refuse, MainKnows, MainLocal, ray
    <3> QED
      BY <2>1, <3>1 DEF NothingToStart
  <2>7. CASE Reject
    <3>1. valid = {}
      BY <1>1, <2>7 DEF Reject, MainKnows, AllAlike
    <3> QED
      BY <1>2, <3>1 DEF NothingToStart
  <2>8. CASE Resume \/ Admit
    <3>1. main'.at # "submit" /\ job' = job
      BY <2>2, <2>3, <2>8 DEF Resume, Admit, MainLocal, ray
    <3>2. UNCHANGED events \/ StreamStep("admission", Accepted)
      BY <2>8, PublishIsStep DEF Resume, Admit
    <3>3. Closed(stream') => UNCHANGED events
      BY <1>1, <3>2, AcceptedFacts, StepFacts
    <3> QED
      BY <1>3, <3>1, <3>3 DEF NothingToStart
  <2>9. CASE (\E d \in Deliveries : Poll(d)) \/ CheckCancel \/ Put \/ Ack
    <3>1. AfterCancelCheck # "submit"
      BY DEF AfterCancelCheck
    <3>2. main'.at # "submit" /\ UNCHANGED <<events, job>>
      BY <2>2, <2>3, <2>9, <3>1 DEF Poll, CheckCancel, Put, Ack, MainIdle, MainLocal, ray
    <3> QED
      BY <1>3, <3>2
  <2> QED
    BY <1>7, <2>4, <2>5, <2>6, <2>7, <2>8, <2>9 DEF MainStep
<1>8. CASE WatchStep
  <2>1. UNCHANGED main /\ (UNCHANGED events \/ watch.at = "publish")
    BY <1>1, <1>8, WatchFrame, WatchEvents
  <2>2. watch.at = "publish" => job.status # "none"
    BY <1>1 DEF WatcherKnows
  <2> QED
    <3>1. job'.status = job.status
      <4>1. job' = job \/ AskStop
        BY <1>1, <1>8, WatchFrame
      <4> QED
        BY <1>1, <4>1, AskStopFacts
    <3> QED
      BY <1>3, <2>1, <2>2, <3>1 DEF NothingToStart
<1>9. CASE RayStops \/ JobDies \/ DriverStep
  <2>1. job'.status # "none"
    BY <1>1, <1>2, <1>9, DriverFrame
  <2> QED
    BY <2>1 DEF NothingToStart
<1> QED
  BY <1>4, <1>5, <1>6, <1>7, <1>8, <1>9 DEF Next

\* Where a driver is that has closed its stream.
LEMMA DriverCloses ==
  ASSUME TypeOK, StreamOK, RayStops \/ JobDies \/ DriverStep, job'.status = "running"
  PROVE  /\ driver.at \in {"succeeded", "failing", "failed"} =>
              driver'.at \in {"succeeded", "failing", "failed"}
         /\ ~Closed(stream) /\ Closed(stream') =>
              closer' = "driver" /\ driver'.at \in {"succeeded", "failing", "failed"}
<1>1. driver \in Drivers /\ job \in Jobs
  BY Typed
<1>2. ASSUME NEW status \in {"succeeded", "failed", "stopped"}, JobEnds(status) PROVE FALSE
  BY <1>1, <1>2 DEF JobEnds, Jobs
<1>3. \A place : Become(place) => driver'.at = place
  BY <1>1 DEF Become, Drivers
<1>4. Breaks => driver'.at = "failing"
  BY <1>1 DEF Breaks, Drivers
<1>5. ~RayStops /\ ~JobDies /\ ~DriverExit
  BY <1>2 DEF RayStops, JobDies, DriverExit, DriverAt
<1>6. CASE DriverConstruct \/ DriverBegin \/ DriverWrite
  BY <1>6 DEF DriverConstruct, DriverBegin, DriverWrite, DriverAt, events
<1>7. CASE DriverProgress
  <2>1. driver.at = "work"
    BY <1>7 DEF DriverProgress, DriverAt
  <2>2. CASE UNCHANGED events
    BY <2>1, <2>2 DEF events
  <2>3. CASE ~UNCHANGED events
    <3>1. PICK e : DriverEvent(e) /\ StreamStep("driver", e)
      BY <1>7, <2>3, DriverEvents
    <3>2. e \in Event(OpType) /\ ~IsTerminal(e)
      BY <2>1, <3>1 DEF DriverEvent
    <3> QED
      BY <2>1, <3>1, <3>2, StepFacts
  <2> QED
    BY <2>2, <2>3
<1>8. CASE DriverComplete \/ DriverReport
  <2>1. \/ driver'.at \in {"succeeded", "failing", "failed"}
        \/ UNCHANGED events /\ driver.at = "complete"
    BY <1>3, <1>4, <1>8 DEF DriverComplete, DriverReport, DriverAt
  <2>2. CASE UNCHANGED events
    BY <2>1, <2>2 DEF events
  <2>3. CASE ~UNCHANGED events
    <3>1. PICK e : DriverEvent(e) /\ StreamStep("driver", e)
      BY <1>8, <2>3, DriverEvents
    <3> QED
      BY <2>1, <2>3, <3>1, StepFacts DEF DriverEvent
  <2> QED
    BY <2>2, <2>3
<1> QED
  BY <1>5, <1>6, <1>7, <1>8 DEF DriverStep

\* A step in the ordinary course of things keeps to it.
LEMMA NextOrdinaryCourse ==
  ASSUME IInv, Ordinary, Ordinary', Next
  PROVE  OrdinaryCourse'
<1>1. /\ TypeOK /\ StreamOK /\ StreamOK' /\ MainKnows /\ WatcherKnows /\ Followed /\ DriverKnows
      /\ OrdinaryCourse /\ NothingToStart
      /\ valid \in SUBSET Deliveries /\ up \in BOOLEAN /\ active.known \in BOOLEAN
      /\ spent \in Bounds /\ job \in Jobs
  BY StreamIsOK, EventsFacts, Typed DEF IInv, Ordinary
<1>2. /\ job.status # "none" => job'.status # "none"
      /\ Closed(stream) => UNCHANGED events /\ Closed(stream')
      /\ JobEnded => job' = job
  BY Lasting
<1>3. ASSUME UNCHANGED <<events, driver>>, job'.status = job.status,
             up' /\ job.status # "none" /\ ~Closed(stream) => active'.known \/ main'.at = "put"
      PROVE  OrdinaryCourse'
  BY <1>1, <1>3 DEF OrdinaryCourse, events
<1>4. CASE (\E d \in Deliveries : Send(d)) \/ AskCancel \/ Tick
  <2>1. UNCHANGED <<events, driver, job, up, active, main>>
    BY <1>1, <1>4, ClientFrame DEF consumer, ray
  <2> QED
    BY <1>1, <1>3, <2>1 DEF OrdinaryCourse
<1>5. CASE Start
  BY <1>3, <1>5, StartFrame DEF Recovered, Entry, ray
<1>6. CASE Crash \/ ReadEscapes \/ AckEscapes
  <2>1. Down /\ UNCHANGED <<events, ray>>
    BY <1>1, <1>6, DownFrame
  <2> QED
    BY <1>3, <2>1 DEF Down, ray
<1>7. CASE MainStep
  <2>1. UNCHANGED up /\ (UNCHANGED <<job, driver>> \/ (main.at = "submit" /\ CreateJob))
    BY <1>1, <1>7, MainFrame
  <2>2. \A place : Goto(place) => main'.at = place
    BY <1>1, GotoFacts
  <2>3. Retry => main'.at = "idle"
    BY DEF Retry, MainIdle
  <2>4. ASSUME UNCHANGED <<events, job, driver, active>>, main.at # "put" PROVE OrdinaryCourse'
    BY <1>1, <1>3, <2>1, <2>4 DEF OrdinaryCourse
  <2>5. CASE Submit
    <3>1. UNCHANGED <<events, active>> /\ main.at = "submit" /\ up /\ ~active.known /\ valid # {}
      BY <1>1, <2>5 DEF Submit, MainKnows
    <3>2. IF job.status = "none" THEN ~Closed(stream) ELSE Closed(stream)
      BY <1>1, <3>1 DEF OrdinaryCourse, NothingToStart
    <3>3. CASE UNCHANGED <<job, driver>>
      BY <2>4, <3>1, <3>3
    <3>4. CASE Goto("put") /\ job.status = "none"
      BY <2>2, <3>1, <3>2, <3>4 DEF OrdinaryCourse, events
    <3>5. ~(spent' = [spent EXCEPT !.unconfirmed = @ + 1])
      BY <1>1 DEF Ordinary, Bounds
    <3> QED
      BY <2>1, <2>5, <3>3, <3>4, <3>5 DEF Submit, CreateJob
  <2>6. CASE Refuse \/ Reject
    <3>1. UNCHANGED <<job, driver, active>> /\ main.at \in {"refuse", "invalid"} /\ up
      BY <1>1, <2>6 DEF Refuse, Reject, MainLocal, ray, MainKnows
    <3>2. CASE UNCHANGED events
      BY <2>4, <3>1, <3>2
    <3>3. CASE ~UNCHANGED events
      <4>1. ~Closed(stream)
        BY <1>2, <3>3
      <4>2. job.status = "none"
        <5>1. CASE main.at = "refuse"
          BY <1>1, <3>1, <4>1, <5>1 DEF MainKnows, OrdinaryCourse
        <5>2. CASE main.at = "invalid"
          <6>1. valid = {}
            BY <1>1, <5>2 DEF MainKnows, Ordinary, AllAlike
          <6> QED
            BY <1>1, <6>1 DEF Followed
        <5> QED
          BY <3>1, <5>1, <5>2
      <4> QED
        BY <3>1, <4>2 DEF OrdinaryCourse
    <3> QED
      BY <3>2, <3>3
  <2>7. CASE Resume \/ Admit
    <3>1. UNCHANGED <<job, driver>> /\ main.at # "put" /\ (UNCHANGED active \/ Closed(stream))
      BY <2>7 DEF Resume, Admit, MainLocal, ray
    <3>2. UNCHANGED events \/ StreamStep("admission", Accepted)
      BY <2>7, PublishIsStep DEF Resume, Admit
    <3>3. Closed(stream') => UNCHANGED events
      BY <1>1, <3>2, AcceptedFacts, StepFacts
    <3> QED
      BY <1>1, <1>2, <2>1, <3>1, <3>3 DEF OrdinaryCourse, events
  <2>8. CASE Put
    BY <1>3, <2>8 DEF Put, Entry, MainLocal, ray
  <2>9. CASE (\E d \in Deliveries : Poll(d)) \/ CheckCancel \/ CheckCancelAgain \/ Ack
    BY <2>4, <2>9 DEF Poll, CheckCancel, CheckCancelAgain, Ack, MainLocal, ray
  <2> QED
    BY <1>7, <2>5, <2>6, <2>7, <2>8, <2>9 DEF MainStep
<1>8. CASE WatchStep
  <2>1. UNCHANGED <<up, main, driver>> /\ (UNCHANGED active \/ Closed(stream'))
    BY <1>1, <1>8, WatchFrame, WatchForgets
  <2>2. job'.status = job.status
    <3>1. job' = job \/ AskStop
      BY <1>1, <1>8, WatchFrame
    <3> QED
      BY <1>1, <3>1, AskStopFacts
  <2>3. CASE UNCHANGED events
    <3>1. stream' = stream
      BY <2>3 DEF events
    <3> QED
      BY <1>1, <1>3, <2>1, <2>2, <2>3, <3>1 DEF OrdinaryCourse
  <2>4. CASE ~UNCHANGED events
    <3>1. watch.at = "publish" /\ ~Closed(stream)
      BY <1>2, <1>8, <2>4, WatchEvents
    <3>2. job.status # "running"
      BY <1>1, <3>1 DEF WatcherKnows, HasEnded
    <3> QED
      BY <1>1, <2>1, <2>2, <3>1, <3>2 DEF OrdinaryCourse
  <2> QED
    BY <2>3, <2>4
<1>9. CASE RayStops \/ JobDies \/ DriverStep
  <2>1. UNCHANGED <<up, main, active>> /\ job.status = "running"
    BY <1>1, <1>9, DriverFrame DEF consumer
  <2>2. Closed(stream') /\ job'.status = "running" =>
          closer' = "driver" /\ driver'.at \in {"succeeded", "failing", "failed"}
    BY <1>1, <1>2, <1>9, <2>1, DriverCloses DEF OrdinaryCourse, events
  <2> QED
    BY <1>1, <1>2, <2>1, <2>2 DEF OrdinaryCourse
<1> QED
  BY <1>4, <1>5, <1>6, <1>7, <1>8, <1>9 DEF Next

-----------------------------------------------------------------------------
(* The inductive invariant *)

\* The deliveries stay alike, and an unconfirmed submission stays in the count.
LEMMA OrdinaryBefore ==
  ASSUME IInv, Next
  PROVE  (AllAlike' => AllAlike) /\ (Ordinary' => Ordinary)
<1>1. TypeOK /\ valid' = valid
  BY StreamIsOK, Lasting
<1>2. spent'.unconfirmed = 0 => spent.unconfirmed = 0
  <2>1. CASE (\E d \in Deliveries : Send(d)) \/ AskCancel \/ Tick
    BY <1>1, <2>1, ClientFrame
  <2>2. CASE Crash \/ ReadEscapes \/ AckEscapes
    BY <1>1, <2>2, DownFrame
  <2>3. CASE SpentStep
    BY <1>1, <2>3, SpentFacts
  <2> QED
    BY <1>1, <2>1, <2>2, <2>3, StartFrame, MainFrame, WatchFrame, DriverFrame DEF Next
<1> QED
  BY <1>1, <1>2 DEF Ordinary, AllAlike

\* The Consumer starts in the invariant.
LEMMA InitIInv == Init => IInv
<1> SUFFICES ASSUME Init PROVE IInv
  OBVIOUS
<1>1. TypeOK
  <2>1. [status |-> "none", deadline |-> 0, stop |-> "no"] \in Jobs
    BY DEF Jobs, Statuses
  <2>2. [crashes |-> 0, faults |-> 0, unconfirmed |-> 0] \in Bounds
    BY Constants DEF Bounds
  <2>3. [d \in Deliveries |-> "absent"] \in [Deliveries -> {"absent", "new", "pending", "acked"}]
    OBVIOUS
  <2>4. <<>> \in Seq(Event(OpType)) /\ Len(<<>>) <= MaxLen
    BY Constants
  <2> QED
    <3>1. valid \in Requests /\ delivery \in [Deliveries -> {"absent", "new", "pending", "acked"}]
          /\ cancel \in BOOLEAN /\ written \in BOOLEAN /\ up \in BOOLEAN
      BY <2>3 DEF Init
    <3>5. clock \in 0..MaxClock
      BY Constants DEF Init
    <3>2. stream \in Seq(Event(OpType)) /\ Len(stream) <= MaxLen
          /\ closer \in {"nobody", "admission", "watcher", "driver"}
      BY <2>4 DEF Init
    <3>3. job \in Jobs /\ spent \in Bounds
      BY <2>1, <2>2 DEF Init
    <3>4. driver \in Drivers /\ main \in MainThreads /\ watch \in Watchers
          /\ active \in [known : BOOLEAN, deadline : Nat]
          /\ requested \in [cancel : BOOLEAN, timeout : BOOLEAN]
      BY RestTypes DEF Init
    <3> QED
      BY <3>1, <3>2, <3>3, <3>4, <3>5 DEF TypeOK
<1>2. SingleTerminal /\ ~Closed(stream)
  BY DEF Init, SingleTerminal, Closed
<1>3. MainKnows
  BY DEF Init, MainKnows, MainIdle
<1>4. Followed
  <2>1. \A d \in valid : delivery[d] = "absent"
    BY <1>1, Typed DEF Init
  <2> QED
    BY <2>1 DEF Init, Followed, NoEntry
<1>5. DriverKnows
  BY DEF Init, DriverKnows, NoDriver, NoCode
<1>6. WatcherKnows
  <2>1. watch.at = "idle" /\ watch.code = NoCode /\ ~watch.memory.terminal
    BY DEF Init, NotWatching, Restored
  <2> QED
    BY <1>2, <2>1 DEF Init, WatcherKnows, NothingRequested, NoCode
<1>7. DeadlinesPassed
  BY DEF Init, DeadlinesPassed, MainIdle, NotWatching, NothingRequested, NoDriver, NoCode, TimeoutCode
<1>8. ProgressKept /\ NewestRead
  BY DEF Init, ProgressKept, NewestRead, NotWatching
<1>9. ReasonKnown
  BY DEF Init, ReasonKnown, NothingRequested, NotWatching
<1>10. FallbackIsTrue
  BY DEF Init, FallbackIsTrue, FallbackKeepsProgress, ReasonKeptWhileUp, StopReasonKept
<1>11. NothingToStart /\ OrdinaryCourse
  BY <1>2 DEF Init, NothingToStart, OrdinaryCourse
<1> QED
  BY <1>1, <1>2, <1>3, <1>4, <1>5, <1>6, <1>7, <1>8, <1>9, <1>10, <1>11 DEF IInv

\* Every step keeps the invariant.
LEMMA NextIInv == IInv /\ [Next]_vars => IInv'
<1> SUFFICES ASSUME IInv, [Next]_vars PROVE IInv'
  OBVIOUS
<1>1. CASE Next
  <2>1. TypeOK' /\ SingleTerminal'
    <3>1. TypeOK /\ StreamOK /\ WatcherKnows
      BY StreamIsOK DEF IInv
    <3> QED
      BY <1>1, <3>1, EventsFacts, NextTypeOK DEF StreamOK
  <2>2. (AllAlike => NothingToStart)'
    BY <1>1, OrdinaryBefore, NextNothingToStart DEF IInv
  <2>3. (Ordinary => OrdinaryCourse)'
    BY <1>1, OrdinaryBefore, NextOrdinaryCourse
  <2> QED
    BY <1>1, <2>1, <2>2, <2>3, NextMainKnows, NextFollowed, NextDriverKnows, NextWatcherKnows,
       NextDeadlinesPassed, NextProgressKept, NextNewestRead, NextReasonKnown,
       NextFallbackIsTrue DEF IInv
<1>2. CASE UNCHANGED vars
  <2>1. UNCHANGED <<valid, delivery, cancel, clock, stream, closer, job, driver, written, up,
                    main, active, watch, requested, spent>>
    BY <1>2 DEF vars, channel, events, ray, consumer
  <2>2. TypeOK' /\ SingleTerminal'
    BY <2>1 DEF IInv, TypeOK, SingleTerminal
  <2>3. MainKnows' /\ Followed' /\ DriverKnows'
    BY <2>1 DEF IInv, MainKnows, Followed, DriverKnows
  <2>4. WatcherKnows' /\ DeadlinesPassed'
    BY <2>1 DEF IInv, WatcherKnows, DeadlinesPassed, HasEnded, JobEnded
  <2>5. ProgressKept' /\ NewestRead' /\ ReasonKnown'
    BY <2>1 DEF IInv, ProgressKept, NewestRead, ReasonKnown, JobEnded, LastPhase
  <2>6. FallbackIsTrue'
    BY <2>1 DEF IInv, FallbackIsTrue, FallbackKeepsProgress, ReasonKeptWhileUp, StopReasonKept, Outcome
  <2>7. (AllAlike => NothingToStart)' /\ (Ordinary => OrdinaryCourse)'
    BY <2>1 DEF IInv, AllAlike, NothingToStart, Ordinary, OrdinaryCourse
  <2> QED
    BY <2>2, <2>3, <2>4, <2>5, <2>6, <2>7 DEF IInv
<1> QED
  BY <1>1, <1>2

-----------------------------------------------------------------------------
(* What the four actors guarantee together *)

\* The inductive invariant: what each of the four actors has found out stays
\* true until it acts on it, although the three others go on.
THEOREM Inductive == Spec => []IInv
  BY InitIInv, NextIInv, PTL DEF Spec

\* Every state is well-typed: only phases, codes and statuses the actors know.
THEOREM TypeCorrect == Spec => []TypeOK
<1>1. IInv => TypeOK
  BY DEF IInv
<1> QED
  BY <1>1, Inductive, PTL

\* Whatever crashes, fails or is left unconfirmed, and whichever deliveries of
\* the operation are malformed: the follow-up of an ACKed request is not lost.
THEOREM NeverDropped == Spec => []AckedIsFollowed
<1>1. IInv => AckedIsFollowed
  BY DEF IInv, Followed, AckedIsFollowed
<1> QED
  BY <1>1, Inductive, PTL

\* A job in Ray always has a follower, or a delivery that leads to one.
THEOREM NeverOrphaned == Spec => []NoOrphan
<1>1. IInv => NoOrphan
  <2> SUFFICES ASSUME IInv PROVE NoOrphan
    OBVIOUS
  <2>1. valid \in SUBSET Deliveries
    BY StreamIsOK, Typed
  <2> QED
    BY <2>1 DEF IInv, Followed, NoOrphan
<1> QED
  BY <1>1, Inductive, PTL

\* What the watcher reports in the place of a driver that could not report has
\* the driver's last phase and progress, and the reason the job was stopped for.
THEOREM FallbackTrue == Spec => []FallbackIsTrue
<1>1. IInv => FallbackIsTrue
  BY DEF IInv
<1> QED
  BY <1>1, Inductive, PTL

\* Admission and watcher close a stream only when no job of the operation runs,
\* in every behaviour in which no submission was left unconfirmed and no
\* malformed delivery shares the identifier of a well-formed one.
THEOREM ReportedAfterTheStop == Spec => [](Ordinary => StoppedBeforeReported)
<1>1. IInv => (Ordinary => StoppedBeforeReported)
  BY DEF IInv, OrdinaryCourse, StoppedBeforeReported
<1> QED
  BY <1>1, Inductive, PTL

\* No job is started for an operation whose outcome is known, however many
\* submissions are left unconfirmed, if the operation's deliveries are alike.
THEOREM NeverStartedLate == Spec /\ []AllAlike => NoLateStart
<1>1. IInv /\ AllAlike /\ [Next]_vars =>
        [job.status = "none" /\ job'.status = "running" => ~Closed(stream)]_vars
  <2> SUFFICES ASSUME IInv, AllAlike, Next, job.status = "none", job'.status = "running"
               PROVE  ~Closed(stream)
    BY DEF vars
  <2>1. TypeOK
    BY StreamIsOK
  <2>2. CASE MainStep
    <3>1. main.at = "submit"
      BY <2>1, <2>2, MainFrame
    <3>2. valid # {}
      BY <3>1 DEF IInv, MainKnows
    <3> QED
      BY <3>1, <3>2 DEF IInv, NothingToStart
  <2>3. CASE WatchStep
    <3>1. job' = job \/ AskStop
      BY <2>1, <2>3, WatchFrame
    <3> QED
      BY <2>1, <3>1, AskStopFacts
  <2>4. CASE RayStops \/ JobDies \/ DriverStep
    BY <2>1, <2>4, DriverFrame
  <2>5. CASE (\E d \in Deliveries : Send(d)) \/ AskCancel \/ Tick
    BY <2>1, <2>5, ClientFrame DEF ray
  <2>6. CASE Start
    BY <2>6, StartFrame DEF ray
  <2>7. CASE Crash \/ ReadEscapes \/ AckEscapes
    <3>1. UNCHANGED ray
      BY <2>1, <2>7, DownFrame
    <3> QED
      BY <3>1 DEF ray
  <2> QED
    BY <2>2, <2>3, <2>4, <2>5, <2>6, <2>7 DEF Next
<1> QED
  BY <1>1, Inductive, PTL DEF Spec, NoLateStart

-----------------------------------------------------------------------------
(* The promise *)

\* The abstract state, as Promise reads it here.
Late == job.status # "none" /\ clock >= job.deadline
Result == IF Outcome.type = "FAILED" THEN Outcome.code ELSE Outcome.type

PromiseStep ==
  [ \/ Promise!Ask \/ Promise!Expire \/ Promise!Write
    \/ \E o \in {"COMPLETED", "CANCELLED", TimeoutCode(OpType)}
                  \cup (ProtocolCodes(OpType) \ {TimeoutCode(OpType)}) : Promise!Close(o)
  ]_<<cancel, Late, written, Result>>

\* An open stream stands for an open outcome, a closed one for what it says.
LEMMA ResultOf ==
  ASSUME StreamOK
  PROVE  IF Closed(stream) THEN Outcome = stream[Len(stream)] ELSE Result = "open"
BY DEF Outcome, Result

\* No outcome of the protocol is the word for an open one.
LEMMA OutcomesDiffer ==
  /\ TimeoutCode(OpType) \in ProtocolCodes(OpType)
  /\ {"open", "COMPLETED", "CANCELLED", "FAILED"} \cap ProtocolCodes(OpType) = {}
  BY Constants DEF TimeoutCode, ProtocolCodes, TrainingCodes, InferenceCodes

\* A deadline that has passed stays so.
LEMMA StaysLate ==
  ASSUME IInv, Next
  PROVE  /\ Late => Late'
         /\ UNCHANGED clock /\ (job.status = "none" => job'.status = "none") => (Late' <=> Late)
<1>1. /\ clock \in Nat /\ clock' \in Nat /\ clock <= clock'
      /\ job.status # "none" => job'.status # "none" /\ job'.deadline = job.deadline
  BY Lasting
<1>2. job.deadline \in Nat
  BY StreamIsOK, Typed DEF Jobs
<1> QED
  BY <1>1, <1>2 DEF Late

\* A step that changes neither the stream nor the results nor the cancel key.
LEMMA QuietStep ==
  ASSUME IInv, Next, UNCHANGED <<events, cancel, written>>
  PROVE  PromiseStep
<1>1. UNCHANGED Result
  BY DEF events, Result, Outcome
<1>2. Late => Late'
  BY StaysLate
<1>3. CASE Late' /\ ~Late
  <2>1. Promise!Expire
    BY <1>1, <1>3 DEF Promise!Expire, Late, Result
  <2> QED
    BY <2>1 DEF PromiseStep
<1>4. CASE Late' <=> Late
  <2>1. UNCHANGED Late
    BY <1>4 DEF Late
  <2> QED
    BY <1>1, <2>1 DEF PromiseStep
<1> QED
  BY <1>2, <1>3, <1>4 DEF Late

\* A publication that closes the stream closes the operation, if it is true.
LEMMA ClosingStep ==
  ASSUME IInv, Next, NEW by \in {"admission", "watcher", "driver"}, NEW e \in Event(OpType),
         StreamStep(by, e), ~UNCHANGED events,
         UNCHANGED <<cancel, written, clock>>, job.status = "none" => job'.status = "none",
         e.type = "COMPLETED" => written,
         e.type = "CANCELLED" => cancel,
         e.type = "FAILED" => e.code \in ProtocolCodes(OpType),
         e.type = "FAILED" /\ e.code = TimeoutCode(OpType) => Late
  PROVE  PromiseStep
<1>1. TypeOK /\ StreamOK /\ StreamOK' /\ ~Closed(stream)
  BY StreamIsOK, EventsFacts DEF StreamStep
<1>2. UNCHANGED Late
  BY StaysLate DEF Late
<1>3. Result = "open"
  BY <1>1, ResultOf
<1>4. CASE ~IsTerminal(e)
  <2>1. ~Closed(stream')
    BY <1>1, <1>4, StepFacts
  <2>2. UNCHANGED Result
    BY <1>1, <2>1 DEF Result, Outcome
  <2> QED
    BY <1>2, <2>2 DEF PromiseStep
<1>5. CASE IsTerminal(e)
  <2>1. stream'[Len(stream')] = e /\ Len(stream') \in 1..MaxLen
    BY <1>1, AddedShape
  <2>2. Outcome' = e
    <3>1. Closed(stream')
      BY <1>1, <1>5, <2>1 DEF Closed, StreamOK
    <3> QED
      BY <2>1, <3>1 DEF Outcome
  <2> DEFINE o == IF e.type = "FAILED" THEN e.code ELSE e.type
  <2>3. Result' = o
    BY <2>2 DEF Result
  <2>4. o \in {"COMPLETED", "CANCELLED", TimeoutCode(OpType)}
                \cup (ProtocolCodes(OpType) \ {TimeoutCode(OpType)})
    BY <1>5 DEF IsTerminal, TerminalTypes
  <2>5. /\ o = "COMPLETED" => written
        /\ o = "CANCELLED" => cancel
        /\ o = TimeoutCode(OpType) => Late
    BY <1>5, OutcomesDiffer DEF IsTerminal, TerminalTypes
  <2> HIDE DEF o
  <2>6. Promise!Close(o)
    BY <1>2, <1>3, <2>3, <2>5 DEF Promise!Close, Late, Result
  <2> QED
    BY <2>4, <2>6 DEF PromiseStep
<1> QED
  BY <1>4, <1>5

\* Every step of the four actors is one of the promise, or none.
LEMMA NextPromise ==
  ASSUME IInv, Ordinary, Next
  PROVE  PromiseStep
<1>1. /\ TypeOK /\ StreamOK /\ MainKnows /\ WatcherKnows /\ DriverKnows /\ OrdinaryCourse
      /\ DeadlinesPassed /\ watch \in Watchers /\ driver \in Drivers
  BY StreamIsOK, Typed DEF IInv
<1>2. CASE (\E d \in Deliveries : Send(d)) \/ AskCancel \/ Tick
  <2>1. CASE AskCancel
    <3>1. /\ ~cancel /\ cancel' = TRUE
          /\ UNCHANGED <<clock, stream, closer, job, written>>
      BY <2>1 DEF AskCancel, events, ray
    <3>2. Promise!Ask
      BY <3>1 DEF Promise!Ask, Outcome
    <3> QED
      BY <3>2 DEF PromiseStep
  <2>2. CASE (\E d \in Deliveries : Send(d)) \/ Tick
    <3>1. UNCHANGED <<events, cancel, written>>
      BY <2>2 DEF Send, Tick, ray
    <3> QED
      BY <3>1, QuietStep
  <2> QED
    BY <1>2, <2>1, <2>2
<1>3. CASE Start
  BY <1>3, StartFrame, QuietStep DEF channel, ray
<1>4. CASE Crash \/ ReadEscapes \/ AckEscapes
  <2>1. UNCHANGED <<channel, events, ray>>
    BY <1>1, <1>4, DownFrame
  <2> QED
    BY <2>1, QuietStep DEF channel, ray
<1>5. CASE MainStep
  <2>1. UNCHANGED <<cancel, written, clock>>
    BY <1>1, <1>5, MainFrame
  <2>2. CASE UNCHANGED events
    BY <2>1, <2>2, QuietStep
  <2>3. CASE ~UNCHANGED events
    <3>1. PICK e : MainEvent(e) /\ StreamStep("admission", e)
      BY <1>1, <1>5, MainEvents
    <3>2. e \in Event(OpType) /\ (e.type = "FAILED" => e.code \in ProtocolCodes(OpType))
      BY <3>1 DEF MainEvent
    <3>3. UNCHANGED job
      BY <1>5, <2>3 DEF MainStep, Poll, CheckCancel, Refuse, Reject, Resume, CheckCancelAgain,
         Submit, Put, Admit, Ack, MainLocal, ray
    <3>4. /\ e.type # "COMPLETED"
          /\ e.type = "CANCELLED" => cancel
          /\ ~(e.type = "FAILED" /\ e.code = TimeoutCode(OpType))
      BY <1>1, <3>1, AcceptedFacts DEF MainEvent, MainKnows, IsTerminal, TerminalTypes
    <3> QED
      BY <2>1, <2>3, <3>1, <3>2, <3>3, <3>4, ClosingStep
  <2> QED
    BY <2>2, <2>3
<1>6. CASE WatchStep
  <2>1. UNCHANGED <<cancel, written, clock>> /\ job'.status = job.status
    <3>1. job' = job \/ AskStop
      BY <1>1, <1>6, WatchFrame
    <3> QED
      BY <1>1, <1>6, <3>1, WatchFrame, AskStopFacts DEF channel
  <2>2. CASE UNCHANGED events
    BY <2>1, <2>2, QuietStep
  <2>3. CASE ~UNCHANGED events
    <3>1. watch.at = "publish" /\ StreamStep("watcher", WatchEvent)
      BY <1>6, <2>3, WatchEvents
    <3>2. watch.code \in {"CANCELLED", "EXECUTION_TIMEOUT"} \cup OpaqueCodes /\ job.status # "none"
      BY <1>1, <3>1 DEF Watchers, WatcherKnows, OpaqueCodes
    <3>3. WatchEvent \in Event(OpType) /\ WatchEvent.type # "COMPLETED"
          /\ (WatchEvent.type = "FAILED" => WatchEvent.code \in ProtocolCodes(OpType))
      BY <1>1, WatchEventFacts, FailureCode
    <3>4. WatchEvent.type = "CANCELLED" => cancel
      BY <1>1, WatchEventFacts DEF WatcherKnows
    <3>5. WatchEvent.type = "FAILED" /\ WatchEvent.code = TimeoutCode(OpType) => Late
      <4>1. ASSUME WatchEvent.type = "FAILED", WatchEvent.code = TimeoutCode(OpType)
            PROVE  watch.code = "EXECUTION_TIMEOUT"
        BY <1>1, <3>2, <4>1, WatchEventFacts, FailureCode
      <4> QED
        BY <1>1, <3>2, <4>1 DEF DeadlinesPassed, Late
    <3> QED
      BY <2>1, <2>3, <3>1, <3>3, <3>4, <3>5, ClosingStep
  <2> QED
    BY <2>2, <2>3
<1>7. CASE RayStops \/ JobDies \/ DriverStep
  <2>1. UNCHANGED <<cancel, clock>> /\ job.status = "running"
    BY <1>1, <1>7, DriverFrame DEF channel
  <2>2. CASE UNCHANGED events /\ UNCHANGED written
    BY <2>1, <2>2, QuietStep
  <2>3. CASE ~UNCHANGED written
    <3>1. DriverWrite /\ written' = TRUE
      BY <1>7, <2>3 DEF RayStops, JobDies, DriverStep, DriverConstruct, DriverBegin, DriverProgress,
         DriverWrite, DriverComplete, DriverReport, DriverExit
    <3>2. UNCHANGED <<events, job>> /\ driver.at = "work"
      BY <3>1 DEF DriverWrite, DriverLocal, DriverAt
    <3>3. ~Closed(stream) /\ ~written
      BY <1>1, <2>1, <3>2 DEF OrdinaryCourse, DriverKnows
    <3>4. Result = "open" /\ UNCHANGED Result
      BY <1>1, <3>2, <3>3, ResultOf DEF Result, Outcome, events
    <3>5. Promise!Write
      BY <2>1, <3>1, <3>2, <3>3, <3>4 DEF Promise!Write, Result
    <3> QED
      BY <3>5 DEF PromiseStep
  <2>4. CASE ~UNCHANGED events
    <3>1. PICK e : DriverEvent(e) /\ StreamStep("driver", e)
      BY <1>1, <1>7, <2>4, DriverEvents
    <3>2. e \in Event(OpType) /\ (e.type = "FAILED" => e.code \in ProtocolCodes(OpType))
      BY <3>1 DEF DriverEvent
    <3>3. UNCHANGED written
      BY <1>7, <2>4 DEF RayStops, JobDies, DriverStep, DriverConstruct, DriverBegin, DriverProgress,
         DriverWrite, DriverComplete, DriverReport, DriverExit
    <3>4. e.type = "COMPLETED" => written
      BY <1>1, <3>1 DEF DriverEvent, DriverKnows, IsTerminal, TerminalTypes
    <3>5. e.type = "CANCELLED" => cancel
      BY <1>1, <3>1 DEF DriverEvent, DriverKnows, IsTerminal, TerminalTypes
    <3>6. e.type = "FAILED" /\ e.code = TimeoutCode(OpType) => Late
      <4>1. ASSUME e.type = "FAILED", e.code = TimeoutCode(OpType)
            PROVE  driver.at = "raised" /\ driver.code # "CANCELLED"
        BY <3>1, <4>1 DEF DriverEvent, IsTerminal, TerminalTypes
      <4>2. driver.at = "raised" /\ driver.code # "CANCELLED" => driver.code = TimeoutCode(OpType)
        BY <1>1 DEF DriverKnows, Drivers
      <4> QED
        BY <1>1, <2>1, <4>1, <4>2 DEF DeadlinesPassed, Late
    <3> QED
      BY <2>1, <2>4, <3>1, <3>2, <3>3, <3>4, <3>5, <3>6, ClosingStep
  <2> QED
    BY <2>2, <2>3, <2>4
<1> QED
  BY <1>2, <1>3, <1>4, <1>5, <1>6, <1>7 DEF Next

\* Consumer, watcher, Ray and driver implement Operation: results are written
\* at most once and before the outcome, there is one outcome, COMPLETED means
\* that the results are written, CANCELLED that somebody asked, and a timeout
\* that the job's deadline has passed.
THEOREM PromiseKept == Spec /\ []Ordinary => KeepsPromise
<1>1. Init => Promise!Init
  BY DEF Init, Promise!Init, Outcome, Closed
<1>2. IInv /\ Ordinary /\ [Next]_vars => [Promise!Next]_Promise!vars
  <2> SUFFICES ASSUME IInv, Ordinary, [Next]_vars PROVE [Promise!Next]_Promise!vars
    OBVIOUS
  <2>1. CASE Next
    BY <2>1, NextPromise DEF PromiseStep, Promise!Next, Promise!vars, Late, Result
  <2>2. CASE UNCHANGED vars
    <3>1. UNCHANGED <<cancel, clock, stream, job, written>>
      BY <2>2 DEF vars, channel, events, ray
    <3> QED
      BY <3>1 DEF Promise!vars, Outcome
  <2> QED
    BY <2>1, <2>2
<1> QED
  BY <1>1, <1>2, Inductive, PTL DEF Spec, KeepsPromise, Promise!Spec
=============================================================================
