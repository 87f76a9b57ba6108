------------------------ MODULE InferenceRun_proofs ------------------------
(***************************************************************************)
(* Proofs about InferenceRun, for every number of rows and of rows the     *)
(* filter keeps, every batch size and interval, and every bound on retries *)
(* and lost publications: IInv is inductive, and it implies the safety     *)
(* properties of the run.                                                  *)
(***************************************************************************)
EXTENDS InferenceRun, TLAPS

-----------------------------------------------------------------------------
(* What is published *)

\* The phases are ranked from the first to the last.
LEMMA Ranks ==
  /\ \A phase \in ProtocolPhases(op) : PhaseRank(phase) \in 0..5
  /\ PhaseRank("LOAD_MODEL") = 1 /\ PhaseRank("READ_INPUT") = 2
  /\ PhaseRank("PREDICT") = 3 /\ PhaseRank("WRITE_RESULT") = 4
BY DEF PhaseRank, ProtocolPhases, op

\* The phases the code names are KnoVa's.
LEMMA KnownPhases ==
  /\ op \in OperationTypes
  /\ {"LOAD_MODEL", "READ_INPUT", "PREDICT", "WRITE_RESULT"} \subseteq ProtocolPhases(op)
  /\ InitialPhase(op) \in ProtocolPhases(op)
BY DEF op, OperationTypes, ProtocolPhases, InitialPhase

\* The phase of an outcome is in the protocol of an inference, whatever phase
\* the caller names.
LEMMA OutcomePhase ==
  ASSUME NEW call \in TerminalTypes, NEW phase \in PhaseArgs(op) \cup {NoPhase},
         NEW current \in ProtocolPhases(op)
  PROVE  EventPhase(op, call, phase, current) \in ProtocolPhases(op)
<1> DEFINE asked == RequestedPhase(call, phase, current)
<1>1. asked \in PhaseArgs(op) \cup {NoPhase}
  BY DEF RequestedPhase, PhaseArgs
<1>2. asked # NoPhase => MapPhase(op, asked) \in ProtocolPhases(op)
  BY <1>1 DEF MapPhase, PhaseTable, InferencePhases, PhaseArgs, BrokerPhases,
              ProtocolPhases, op
<1>3. "CLEANUP" \in ProtocolPhases(op)
  BY DEF ProtocolPhases, op
<1> HIDE DEF asked
<1>4. EventPhase(op, call, phase, current)
        = IF call = "COMPLETED" THEN "CLEANUP"
          ELSE IF asked = NoPhase THEN current ELSE MapPhase(op, asked)
  BY DEF EventPhase, asked, op, TerminalTypes
<1> QED
  BY <1>2, <1>3, <1>4

\* Whatever code is passed, the code of a failure is one KnoVa's inference
\* protocol lists.
LEMMA ErrorCodeListed ==
  ASSUME NEW code, NEW phase
  PROVE  ErrorCode(op, code, phase) \in ProtocolCodes(op)
BY DEF ErrorCode, CodeOfPhase, ProtocolCodes, InferenceCodes, op

\* An event that is no outcome carries the phase and the counts it was given.
LEMMA Reporting ==
  ASSUME NEW call \in {"PHASE", "STARTED", "PROGRESS", "LOG"},
         NEW phase \in ProtocolPhases(op), NEW processed \in Int, NEW result \in Nat
  PROVE  LET m == Message(call, phase, NoCode, processed, result)
         IN  /\ m \in WireEvents
             /\ m.type = IF call = "PHASE" THEN "PROGRESS" ELSE call
             /\ m.phase = phase /\ m.processed = processed /\ m.result = result
             /\ ~IsTerminal(m)
<1> DEFINE m == Message(call, phase, NoCode, processed, result)
<1>1. EventType(op, call) = IF call = "PHASE" THEN "PROGRESS" ELSE call
  BY DEF EventType, op
<1>2. EventPhase(op, call, phase, memory.phase) = phase
  <2>1. RequestedPhase(call, phase, memory.phase) = phase
    BY DEF RequestedPhase
  <2>2. MapPhase(op, phase) = phase
    BY DEF MapPhase, PhaseTable, InferencePhases, ProtocolPhases, op
  <2>3. phase # NoPhase
    BY DEF ProtocolPhases, NoPhase, op
  <2> QED
    BY <2>1, <2>2, <2>3 DEF EventPhase, op
<1>3. m = [type |-> IF call = "PHASE" THEN "PROGRESS" ELSE call, phase |-> phase,
           code |-> NoCode, processed |-> processed, result |-> result]
  BY <1>1, <1>2 DEF Message
<1>4. (IF call = "PHASE" THEN "PROGRESS" ELSE call) \in WireTypes(op) \ TerminalTypes
  BY DEF WireTypes, TerminalTypes, op
<1> HIDE DEF m
<1> QED
  BY <1>3, <1>4 DEF WireEvents, IsTerminal, m

\* An outcome has the type it was given, and the counts.
LEMMA Outcomes ==
  ASSUME memory.phase \in ProtocolPhases(op),
         NEW call \in TerminalTypes, NEW phase \in PhaseArgs(op) \cup {NoPhase},
         NEW code \in ProtocolCodes(op) \cup {NoCode},
         NEW processed \in Int, NEW result \in Nat
  PROVE  LET m == Message(call, phase, code, processed, result)
         IN  /\ m \in WireEvents /\ IsTerminal(m)
             /\ m.type = call /\ m.processed = processed /\ m.result = result
<1> DEFINE m == Message(call, phase, code, processed, result)
           shown == EventPhase(op, call, phase, memory.phase)
<1>1. EventType(op, call) = call
  BY DEF EventType, TerminalTypes, op
<1>2. shown \in ProtocolPhases(op)
  BY OutcomePhase
<1>3. m = [type |-> call, phase |-> shown, code |-> code, processed |-> processed,
           result |-> result]
  BY <1>1 DEF Message
<1>4. call \in WireTypes(op)
  BY DEF WireTypes, op
<1> HIDE DEF m, shown
<1> QED
  BY <1>2, <1>3, <1>4 DEF WireEvents, IsTerminal, m

\* Emitting appends the event unless the stream is closed, and the reporter
\* remembers its counts or keeps its own.
LEMMA EmitFacts ==
  ASSUME events \in Seq(WireEvents), memory \in Memories,
         NEW e \in WireEvents, Emit(e)
  PROVE  /\ events' \in Seq(WireEvents) /\ memory' \in Memories
         /\ memory'.result \in {memory.result, e.result}
         /\ Closed => UNCHANGED <<events, memory>>
         /\ ~Closed => events' = Append(events, e)
<1>1. CASE Closed
  BY <1>1 DEF Emit
<1>2. CASE ~Closed
  <2>1. events' = Append(events, e)
    BY <1>2 DEF Emit
  <2>2. \/ memory' = memory
        \/ memory' = [phase |-> e.phase, processed |-> e.processed, result |-> e.result]
        \/ memory' = [memory EXCEPT !.phase = e.phase]
    BY <1>2 DEF Emit
  <2>3. e.phase \in ProtocolPhases(op) /\ e.processed \in Int /\ e.result \in Nat
    BY DEF WireEvents
  <2> QED
    BY <1>2, <2>1, <2>2, <2>3 DEF Memories
<1> QED
  BY <1>1, <1>2

-----------------------------------------------------------------------------
(* What the events say, before and after a step *)

\* While the stream is open no event of it is an outcome.
LEMMA OpenStream ==
  ASSUME OutputOK, OutcomeIsLast, ~Closed
  PROVE  \A i \in 1..Len(events) : ~IsTerminal(events[i])
<1> SUFFICES ASSUME NEW i \in 1..Len(events), IsTerminal(events[i])
             PROVE  FALSE
  OBVIOUS
<1>1. i = Len(events)
  BY DEF OutcomeIsLast
<1>2. events # <<>>
  BY DEF OutputOK
<1> QED
  BY <1>1, <1>2 DEF Closed

\* Until the main thread has tried to publish the outcome the stream is open.
LEMMA OpenBeforeTheEnd ==
  ASSUME OutputOK, OutcomeIsLast, main.at \notin {"failing", "end"}
  PROVE  ~Closed
<1> SUFFICES ASSUME Closed
             PROVE  FALSE
  OBVIOUS
<1>1. Len(events) \in 1..Len(events)
  BY DEF Closed, OutputOK
<1> QED
  BY <1>1 DEF Closed, OutcomeIsLast, Over

\* What the type says of each event.
LEMMA EventFacts ==
  ASSUME OutputOK
  PROVE  /\ events \in Seq(WireEvents) /\ written \in Nat /\ Len(events) \in Nat
         /\ \A i \in 1..Len(events) :
              /\ events[i] \in WireEvents
              /\ events[i].processed \in Int /\ events[i].result \in Nat
              /\ events[i].phase \in ProtocolPhases(op)
              /\ PhaseRank(events[i].phase) \in Int
<1>1. events \in Seq(WireEvents) /\ written \in Nat /\ Len(events) \in Nat
  BY DEF OutputOK
<1>2. ASSUME NEW i \in 1..Len(events)
      PROVE  /\ events[i] \in WireEvents
             /\ events[i].processed \in Int /\ events[i].result \in Nat
             /\ events[i].phase \in ProtocolPhases(op)
             /\ PhaseRank(events[i].phase) \in Int
  <2>1. events[i] \in WireEvents
    BY <1>1
  <2>2. events[i].phase \in ProtocolPhases(op)
    BY <2>1 DEF WireEvents
  <2> QED
    BY <2>1, <2>2, Ranks DEF WireEvents
<1> QED
  BY <1>1, <1>2

\* The bounds on what has been announced are numbers.
LEMMA Bounds ==
  ASSUME MainOK, PumpOK
  PROVE  Reached \in 0..4 /\ Announced \in 0..Total
<1>1. Reached \in 0..4
  BY DEF Reached
<1>2. Total \in Nat /\ 0 \in 0..Total
  BY RunAssumption
<1>3. pump.processed \in 0..Total
  BY DEF PumpOK
<1> QED
  BY <1>1, <1>2, <1>3 DEF Announced

\* A step that publishes nothing, and takes back nothing.
LEMMA EventsStill ==
  ASSUME OutputOK, EventsOK, UNCHANGED events,
         Reached \in 0..4, Reached' \in 0..4, Reached <= Reached',
         Announced \in 0..Total, Announced' \in 0..Total, Announced <= Announced',
         written' \in Nat, written <= written',
         main.at \in {"failing", "end"} =>
           main'.at \in {"failing", "end"} /\ written' = written
  PROVE  EventsOK'
<1> USE DEF EventsOK
<1>0. /\ events \in Seq(WireEvents) /\ written \in Nat
      /\ \A i \in 1..Len(events) :
           events[i].processed \in Int /\ events[i].result \in Nat
  BY EventFacts
<1>1. OutcomeIsLast'
  BY DEF OutcomeIsLast, Over
<1>2. PhasesReached'
  <2> SUFFICES ASSUME NEW i \in 1..Len(events), ~IsTerminal(events[i])
               PROVE  PhaseRank(events[i].phase) <= Reached'
    BY DEF PhasesReached
  <2>1. PhaseRank(events[i].phase) <= Reached
    BY DEF PhasesReached
  <2>2. PhaseRank(events[i].phase) \in Int
    BY EventFacts
  <2> QED
    BY <2>1, <2>2
<1>3. RowsAnnounced'
  <2> SUFFICES ASSUME NEW i \in 1..Len(events), events[i].type = "PROGRESS",
                      \A k \in i..Len(events) : events[k].type # "LOG"
               PROVE  events[i].processed <= Announced'
    BY DEF RowsAnnounced
  <2>1. events[i].processed <= Announced
    BY DEF RowsAnnounced
  <2> QED
    BY <1>0, <2>1, RunAssumption
<1>4. CompletedSays'
  BY DEF CompletedSays, OutcomeIsLast, IsTerminal, TerminalTypes, Over
<1>5. ResultRowsNotOverstated'
  <2> SUFFICES ASSUME NEW i \in 1..Len(events)
               PROVE  events[i].result <= written'
    BY DEF ResultRowsNotOverstated
  <2>1. events[i].result <= written
    BY DEF ResultRowsNotOverstated
  <2> QED
    BY <1>0, <2>1
<1>6. PhasesMoveForward' /\ ProgressGoesForward'
  BY DEF PhasesMoveForward, ProgressGoesForward
<1> QED
  BY <1>1, <1>2, <1>3, <1>4, <1>5, <1>6

\* A step that publishes one event, which fits what has been announced.
LEMMA EventsGrow ==
  ASSUME OutputOK, EventsOK, ~Closed,
         NEW e \in WireEvents, events' = Append(events, e),
         Reached \in 0..4, Reached' \in 0..4, Reached <= Reached',
         Announced \in 0..Total, Announced' \in 0..Total,
         e.type = "LOG" \/ Announced <= Announced',
         written' \in Nat, written <= written', e.result <= written',
         IsTerminal(e) => main'.at \in {"failing", "end"},
         ~IsTerminal(e) => PhaseRank(e.phase) \in Reached..Reached',
         e.type = "PROGRESS" => Announced <= e.processed /\ e.processed <= Announced',
         e.type = "COMPLETED" =>
           e.processed = Total /\ e.result = Kept /\ written' = Kept
  PROVE  EventsOK'
<1> USE DEF EventsOK
<1> DEFINE n == Len(events)
<1>0. /\ events \in Seq(WireEvents) /\ written \in Nat /\ n \in Nat
      /\ \A i \in 1..n : events[i] \in WireEvents
  BY EventFacts
<1>a. /\ Len(events') = n + 1 /\ events'[n + 1] = e
      /\ \A i \in 1..n : events'[i] = events[i]
  BY <1>0
<1>b. /\ \A i \in 1..n : /\ events[i].processed \in Int /\ events[i].result \in Nat
                         /\ events[i].phase \in ProtocolPhases(op)
                         /\ PhaseRank(events[i].phase) \in Int
      /\ e.processed \in Int /\ e.result \in Nat
      /\ PhaseRank(e.phase) \in Int
  <2>1. /\ e.processed \in Int /\ e.result \in Nat
        /\ e.phase \in ProtocolPhases(op)
    BY DEF WireEvents
  <2> QED
    BY <2>1, EventFacts, Ranks
<1>c. \A i \in 1..n : ~IsTerminal(events[i])
  BY OpenStream
<1> HIDE DEF n
<1>d. \A i \in 1..Len(events') : i \in 1..n \/ i = n + 1
  BY <1>0, <1>a
<1>1. OutcomeIsLast'
  <2> SUFFICES ASSUME NEW i \in 1..Len(events'), IsTerminal(events'[i])
               PROVE  i = Len(events') /\ main'.at \in {"failing", "end"}
    BY DEF OutcomeIsLast, IsTerminal, Over
  <2> QED
    BY <1>a, <1>c, <1>d
<1>2. PhasesReached'
  <2> SUFFICES ASSUME NEW i \in 1..Len(events'), ~IsTerminal(events'[i])
               PROVE  PhaseRank(events'[i].phase) <= Reached'
    BY DEF PhasesReached, IsTerminal
  <2>1. CASE i \in 1..n
    <3>1. PhaseRank(events[i].phase) <= Reached
      BY <2>1, <1>c DEF PhasesReached, n
    <3> QED
      BY <2>1, <3>1, <1>a, <1>b
  <2>2. CASE i = n + 1
    BY <2>2, <1>a, <1>b
  <2> QED
    BY <1>d, <2>1, <2>2
<1>3. RowsAnnounced'
  <2> SUFFICES ASSUME NEW i \in 1..Len(events'), events'[i].type = "PROGRESS",
                      \A k \in i..Len(events') : events'[k].type # "LOG"
               PROVE  events'[i].processed <= Announced'
    BY DEF RowsAnnounced
  <2>0. n + 1 \in i..Len(events')
    BY <1>0, <1>a
  <2>1. e.type # "LOG"
    BY <2>0, <1>a
  <2>2. CASE i \in 1..n
    <3>1. \A k \in i..n : k \in i..Len(events') /\ events'[k] = events[k]
      BY <1>0, <1>a, <2>2
    <3>2. events[i].processed <= Announced
      BY <2>2, <3>1, <1>a DEF RowsAnnounced, n
    <3> QED
      BY <2>1, <2>2, <3>2, <1>a, <1>b, RunAssumption
  <2>3. CASE i = n + 1
    BY <2>3, <1>a
  <2> QED
    BY <1>d, <2>2, <2>3
<1>4. CompletedSays'
  <2> SUFFICES ASSUME NEW i \in 1..Len(events'), events'[i].type = "COMPLETED"
               PROVE  /\ events'[i].processed = Total /\ events'[i].result = Kept
                      /\ written' = Kept
    BY DEF CompletedSays
  <2>1. i = n + 1
    BY <1>a, <1>c, <1>d DEF IsTerminal, TerminalTypes
  <2> QED
    BY <2>1, <1>a
<1>5. ResultRowsNotOverstated'
  <2> SUFFICES ASSUME NEW i \in 1..Len(events')
               PROVE  events'[i].result <= written'
    BY DEF ResultRowsNotOverstated
  <2>1. CASE i \in 1..n
    <3>1. events[i].result <= written
      BY <2>1 DEF ResultRowsNotOverstated, n
    <3> QED
      BY <2>1, <3>1, <1>0, <1>a, <1>b
  <2>2. CASE i = n + 1
    BY <2>2, <1>a
  <2> QED
    BY <1>d, <2>1, <2>2
<1>6. PhasesMoveForward'
  <2> SUFFICES ASSUME NEW i \in 1..Len(events'), NEW j \in 1..Len(events'),
                      i < j, ~IsTerminal(events'[j])
               PROVE  PhaseRank(events'[i].phase) <= PhaseRank(events'[j].phase)
    BY DEF PhasesMoveForward, IsTerminal
  <2>0. i \in 1..n
    BY <1>0, <1>a
  <2>1. CASE j \in 1..n
    <3>1. PhaseRank(events[i].phase) <= PhaseRank(events[j].phase)
      BY <2>0, <2>1, <1>c DEF PhasesMoveForward, n
    <3> QED
      BY <2>0, <2>1, <3>1, <1>a
  <2>2. CASE j = n + 1
    <3>1. PhaseRank(events[i].phase) <= Reached
      BY <2>0, <1>c DEF PhasesReached, n
    <3>2. Reached <= PhaseRank(e.phase)
      BY <2>2, <1>a
    <3>3. /\ Reached \in Int /\ PhaseRank(events[i].phase) \in Int
          /\ PhaseRank(e.phase) \in Int
      BY <2>0, <1>b
    <3>4. PhaseRank(events[i].phase) <= PhaseRank(e.phase)
      BY <3>1, <3>2, <3>3
    <3>5. events'[i] = events[i] /\ events'[j] = e
      BY <2>0, <2>2, <1>a, Zenon
    <3> QED
      BY <3>4, <3>5, Zenon
  <2> QED
    BY <1>d, <2>1, <2>2
<1>7. ProgressGoesForward'
  <2> SUFFICES ASSUME NEW i \in 1..Len(events'), NEW j \in 1..Len(events'), i < j,
                      events'[i].type = "PROGRESS", events'[j].type = "PROGRESS",
                      \A k \in i..j : events'[k].type # "LOG"
               PROVE  events'[i].processed <= events'[j].processed
    BY DEF ProgressGoesForward
  <2>0. i \in 1..n
    BY <1>0, <1>a
  <2>1. CASE j \in 1..n
    <3>1. \A k \in i..j : k \in 1..n
      BY <2>0, <2>1, <1>0
    <3>2. events[i].processed <= events[j].processed
      BY <2>0, <2>1, <3>1, <1>a DEF ProgressGoesForward, n
    <3> QED
      BY <2>0, <2>1, <3>2, <1>a
  <2>2. CASE j = n + 1
    <3>1. \A k \in i..n : k \in i..j /\ events'[k] = events[k]
      BY <2>0, <2>2, <1>0, <1>a
    <3>2. events[i].processed <= Announced
      BY <2>0, <3>1, <1>a DEF RowsAnnounced, n
    <3>3. Announced <= e.processed
      BY <2>2, <1>a
    <3>4. Announced \in Int /\ events[i].processed \in Int /\ e.processed \in Int
      <4>1. 0..Total \subseteq Int
        BY RunAssumption
      <4> QED
        BY <4>1, <2>0, <1>b, Zenon
    <3>5. events[i].processed <= e.processed
      BY <3>2, <3>3, <3>4
    <3>6. events'[i] = events[i] /\ events'[j] = e
      BY <2>0, <2>2, <1>a, Zenon
    <3> QED
      BY <3>5, <3>6, Zenon
  <2> QED
    BY <1>d, <2>1, <2>2
<1> QED
  BY <1>1, <1>2, <1>3, <1>4, <1>5, <1>6, <1>7

-----------------------------------------------------------------------------
(* The parts of a step *)

Mains == [at : Places, code : Codes, phase : Phases]

\* The codes and phases the main thread raises.
LEMMA KnownCodes ==
  /\ StopCodes \subseteq Codes
  /\ {"EXECUTION_FAILED", "INVALID_PAYLOAD", "MODEL_FORMAT_UNSUPPORTED",
      "MODEL_ARTIFACT_NOT_FOUND", "MODEL_ARTIFACT_CORRUPTED", "MODEL_LOAD_FAILED",
      "MODEL_SCHEMA_MISMATCH", "EMPTY_INPUT", "INPUT_QUERY_FAILED",
      "INPUT_COLUMN_MISSING", "DATA_SOURCE_UNREACHABLE", "RESULT_WRITE_FAILED",
      "PREDICTION_FAILED"} \subseteq Codes
  /\ ProtocolPhases(op) \subseteq Phases
BY DEF Codes, ProtocolCodes, InferenceCodes, OpaqueCodes, Phases, op

\* The main thread goes on.
LEMMA GotoFacts ==
  ASSUME main \in Mains, NEW place \in Places, Goto(place)
  PROVE  main' \in Mains /\ main'.at = place
BY DEF Goto, Mains

\* The main thread raises an error, with its code and its phase.
LEMMA RaiseFacts ==
  ASSUME NEW place \in Places, NEW code \in Codes, NEW phase \in Phases,
         Raise(place, code, phase)
  PROVE  main' \in Mains /\ main'.at = place
BY DEF Raise, Mains

\* What check_control() raises is a stop.
LEMMA ControlFacts ==
  ASSUME stop \in StopCodes \cup {NoCode}, NEW phase \in Phases, RaiseControl(phase)
  PROVE  main' \in Mains /\ main'.at = "raised"
<1>1. stop \in Codes
  BY KnownCodes DEF RaiseControl, MayGoOn
<1>2. "raised" \in Places
  BY DEF Places
<1> QED
  BY <1>1, <1>2, RaiseFacts DEF RaiseControl

\* A failure that is to be reported is raised.
LEMMA FailureFacts ==
  ASSUME NEW code \in Codes, NEW phase \in Phases, RaiseFailure(code, phase)
  PROVE  main' \in Mains /\ main'.at = "failing"
<1>1. "failing" \in Places
  BY DEF Places
<1> QED
  BY <1>1, RaiseFacts DEF RaiseFailure

\* A publication that fails is raised.
LEMMA RedisFacts ==
  ASSUME memory \in Memories, RaiseRedis
  PROVE  main' \in Mains /\ main'.at = "failing"
<1>1. memory.phase \in Phases
  BY KnownCodes DEF Memories
<1> QED
  BY <1>1, FailureFacts, KnownCodes DEF RaiseRedis

\* A checkpoint changes the phase that is remembered, no count.
LEMMA CheckpointFacts ==
  ASSUME memory \in Memories, NEW phase \in ProtocolPhases(op), Checkpoint(phase)
  PROVE  /\ memory' \in Memories /\ memory'.result = memory.result
         /\ memory'.processed = memory.processed
BY DEF Checkpoint, Memories

\* A call that raises is a fault, and the event may be on the stream all the same.
LEMMA LostFacts ==
  ASSUME faults \in Nat, events \in Seq(WireEvents), NEW e \in WireEvents, Unpublished(e)
  PROVE  /\ faults' \in Nat /\ events' \in Seq(WireEvents)
         /\ UNCHANGED events \/ (~Closed /\ events' = Append(events, e))
BY DEF Unpublished

\* The bounds after a step.
LEMMA NextBounds ==
  ASSUME PumpOK'
  PROVE  Reached' \in 0..4 /\ Announced' \in 0..Total
<1>1. Reached' \in 0..4
  BY DEF Reached
<1>2. Total \in Nat /\ 0 \in 0..Total
  BY RunAssumption
<1>3. pump'.processed \in 0..Total
  BY DEF PumpOK
<1> QED
  BY <1>1, <1>2, <1>3 DEF Announced

-----------------------------------------------------------------------------
(* Up to the first attempt *)

Early == {"load", "build", "prepare", "measure", "started", "first", "attempt"}

\* Before an attempt no pump runs, nothing is announced and nothing written.
LEMMA EarlyFacts ==
  ASSUME IInv, main.at \in Early
  PROVE  /\ ~Alive /\ open = FALSE /\ Announced = 0 /\ appends = 0 /\ written = 0
         /\ memory.result = 0 /\ ~Closed
         /\ main \in Mains /\ memory \in Memories /\ events \in Seq(WireEvents)
<1> USE DEF IInv, TypeOK, ThreadsOK, EventsOK
<1>1. open = FALSE
  BY DEF PumpPlace, Early, PumpOK
<1>2. ~Alive
  BY <1>1 DEF PumpPlace, Early
<1>3. appends = 0 /\ written = 0 /\ memory.result <= written
  BY DEF NotWrittenBefore, BeforeWrite, Early
<1>4. ~Closed
  BY OpenBeforeTheEnd DEF Early
<1>5. main \in Mains /\ memory \in Memories /\ events \in Seq(WireEvents)
  BY DEF MainOK, OutputOK, Mains
<1>6. memory.result = 0
  BY <1>3, <1>5 DEF Memories
<1>7. Announced = 0
  BY DEF Announced, Early
<1> QED
  BY <1>1, <1>2, <1>3, <1>4, <1>5, <1>6, <1>7

\* What an early step leaves alone stays as it should be.
LEMMA EarlyFrame ==
  ASSUME IInv, main.at \in Early, Before,
         main' \in Mains, main'.at \in (Early \ {"load"}) \cup {"raised", "failing"},
         events' \in Seq(WireEvents), memory' \in Memories, memory'.result = 0,
         faults' \in Nat
  PROVE  TypeOK' /\ ThreadsOK'
<1> USE DEF IInv, TypeOK, Before, progress, output
<1>1. MainOK'
  BY DEF MainOK, Mains
<1>2. PumpOK'
  BY DEF PumpOK
<1>3. OutputOK'
  BY DEF OutputOK
<1>4. ~Alive' /\ open' = FALSE /\ written' = 0 /\ appends' = 0 /\ receipt' = 0
  BY EarlyFacts DEF Alive, ThreadsOK, NotWrittenBefore
<1>5. PumpPlace'
  BY <1>4 DEF PumpPlace, Early
<1>6. NoCountLost'
  BY <1>4 DEF NoCountLost
<1>7. SinkKnows'
  BY <1>4 DEF SinkKnows, Succeeded, Early
<1>8. NotWrittenBefore'
  BY <1>4 DEF NotWrittenBefore, Early
<1> QED
  BY <1>1, <1>2, <1>3, <1>5, <1>6, <1>7, <1>8 DEF ThreadsOK

\* How far the phases may have come.
Place(at) ==
  CASE at = "load" -> 0
    [] at \in {"build", "prepare", "measure", "started"} -> 1
    [] at = "first" -> 2
    [] at = "attempt" -> 3
    [] OTHER -> 4

\* Before the sink only the main thread says how far the run has come.
LEMMA EarlyReach ==
  ASSUME IInv, main.at \in Early, Before,
         main'.at \in (Early \ {"load"}) \cup {"raised", "failing"}
  PROVE  Reached = Place(main.at) /\ Reached' = Place(main'.at)
<1>1. ~Alive /\ ~Alive'
  BY EarlyFacts DEF Before, progress, Alive
<1>2. Reached = Place(main.at)
  BY <1>1 DEF Reached, Early, BeforeWrite, Place
<1>3. Reached' = Place(main'.at)
  <2>1. CASE main'.at \in Early
    BY <1>1, <2>1 DEF Reached, Early, BeforeWrite, Place
  <2>2. CASE main'.at \in {"raised", "failing"}
    BY <1>1, <2>2 DEF Reached, BeforeWrite, MayComeBack, Place
  <2> QED
    BY <2>1, <2>2
<1> QED
  BY <1>2, <1>3

\* An early step that publishes nothing.
LEMMA EarlyStill ==
  ASSUME IInv, main.at \in Early, Before,
         main' \in Mains, main'.at \in (Early \ {"load"}) \cup {"raised", "failing"},
         Place(main.at) <= Place(main'.at),
         UNCHANGED events, memory' \in Memories, memory'.result = 0, faults' \in Nat
  PROVE  IInv'
<1>1. TypeOK' /\ ThreadsOK'
  <2>1. events' \in Seq(WireEvents)
    BY EarlyFacts
  <2> QED
    BY <2>1, EarlyFrame
<1>2. Reached <= Reached' /\ Reached \in 0..4 /\ Reached' \in 0..4
  BY <1>1, EarlyReach, Bounds, NextBounds DEF IInv, TypeOK
<1>3. Announced = 0 /\ Announced \in 0..Total /\ Announced' \in 0..Total
  BY <1>1, EarlyFacts, Bounds, NextBounds DEF IInv, TypeOK
<1>4. main.at \notin {"failing", "end"} /\ written = 0 /\ written' = 0
  BY EarlyFacts DEF Before, output, Early
<1>5. Announced <= Announced'
  BY <1>3, RunAssumption
<1> QED
  BY <1>1, <1>2, <1>3, <1>4, <1>5, EventsStill DEF IInv, TypeOK

\* An early step that publishes an event without rows.
LEMMA EarlyGrow ==
  ASSUME IInv, main.at \in Early, Before,
         main' \in Mains, main'.at \in (Early \ {"load"}) \cup {"failing"},
         NEW e \in WireEvents, events' = Append(events, e), ~IsTerminal(e),
         PhaseRank(e.phase) \in Place(main.at)..Place(main'.at),
         e.processed = 0, e.result = 0,
         memory' \in Memories, memory'.result = 0, faults' \in Nat
  PROVE  IInv'
<1>1. events' \in Seq(WireEvents) /\ ~Closed
  <2>1. events \in Seq(WireEvents) /\ ~Closed
    BY EarlyFacts
  <2> QED
    BY <2>1
<1>3. TypeOK' /\ ThreadsOK'
  BY <1>1, EarlyFrame
<1>4. Reached \in 0..4 /\ Reached' \in 0..4 /\ PhaseRank(e.phase) \in Reached..Reached'
  BY <1>3, EarlyReach, Bounds, NextBounds DEF IInv, TypeOK
<1>5. Announced = 0 /\ Announced \in 0..Total /\ Announced' \in 0..Total
  BY <1>3, EarlyFacts, Bounds, NextBounds DEF IInv, TypeOK
<1>6. written = 0 /\ written' = 0
  BY EarlyFacts DEF Before, output
<1>7. Announced <= Announced' /\ Reached <= Reached'
  BY <1>4, <1>5, RunAssumption
<1>8. e.processed <= Announced'
  BY <1>5, RunAssumption
<1>9. e.type # "COMPLETED"
  BY DEF IsTerminal, TerminalTypes
<1> QED
  BY <1>1, <1>3, <1>4, <1>5, <1>6, <1>7, <1>8, <1>9, EventsGrow DEF IInv, TypeOK

\* An early publication that raises ends the run.
LEMMA EarlyLost ==
  ASSUME IInv, main.at \in Early, Before, main' \in Mains, main'.at = "failing",
         NEW e \in WireEvents, Unpublished(e), ~IsTerminal(e),
         PhaseRank(e.phase) \in Place(main.at)..4, e.processed = 0, e.result = 0,
         memory' \in Memories, memory'.result = 0
  PROVE  IInv'
<1>1. /\ faults' \in Nat
      /\ UNCHANGED events \/ (~Closed /\ events' = Append(events, e))
  <2>1. faults \in Nat /\ events \in Seq(WireEvents)
    BY EarlyFacts DEF IInv, TypeOK, OutputOK
  <2> QED
    BY <2>1, LostFacts
<1>2. Place(main'.at) = 4 /\ Place(main.at) \in 0..4
  BY DEF Place
<1>3. CASE UNCHANGED events
  BY <1>1, <1>2, <1>3, EarlyStill
<1>4. CASE events' = Append(events, e)
  BY <1>1, <1>2, <1>4, EarlyGrow
<1> QED
  BY <1>1, <1>3, <1>4

\* An early publication goes on to the next place, or raises.
LEMMA EarlyPublish ==
  ASSUME IInv, main.at \in Early, Before, NEW place \in Early \ {"load"},
         NEW e \in WireEvents, Publish(e, place), ~IsTerminal(e),
         PhaseRank(e.phase) \in Place(main.at)..Place(place),
         e.processed = 0, e.result = 0
  PROVE  IInv'
<1>0. faults \in Nat /\ place \in Places /\ Place(place) \in 0..4
  BY DEF IInv, TypeOK, OutputOK, Early, Places, Place
<1>1. CASE Emit(e) /\ Goto(place) /\ UNCHANGED faults
  <2>1. main' \in Mains /\ main'.at = place
    BY <1>0, <1>1, EarlyFacts, GotoFacts
  <2>2. events' = Append(events, e) /\ memory' \in Memories /\ memory'.result = 0
    BY <1>1, EarlyFacts, EmitFacts
  <2> QED
    BY <1>0, <1>1, <2>1, <2>2, EarlyGrow
<1>2. CASE Unpublished(e) /\ UNCHANGED memory /\ RaiseRedis
  <2>1. main' \in Mains /\ main'.at = "failing"
    BY <1>2, EarlyFacts, RedisFacts
  <2>2. memory' \in Memories /\ memory'.result = 0
    BY <1>2, EarlyFacts
  <2>3. PhaseRank(e.phase) \in Place(main.at)..4
    <3>1. Place(main.at) \in 0..4
      BY DEF Place
    <3> QED
      BY <1>0, <3>1
  <2> QED
    BY <1>2, <2>1, <2>2, <2>3, EarlyLost
<1> QED
  BY <1>1, <1>2 DEF Publish

\* LOAD_MODEL is announced.
LEMMA LoadKeeps ==
  ASSUME IInv, Load
  PROVE  IInv'
<1> USE EarlyFacts, KnownPhases, KnownCodes DEF Early
<1>0. /\ main.at = "load" /\ Before /\ faults \in Nat
      /\ stop \in StopCodes \cup {NoCode}
  BY DEF Load, IInv, TypeOK, MainOK, OutputOK
<1> DEFINE e == Message("PHASE", "LOAD_MODEL", NoCode, memory.processed, memory.result)
<1>e. /\ e \in WireEvents /\ ~IsTerminal(e) /\ PhaseRank(e.phase) = 1
      /\ e.processed = 0 /\ e.result = 0
  <2>1. memory.processed = 0 /\ memory.result = 0
    BY <1>0 DEF IInv, ThreadsOK, NotWrittenBefore
  <2>2. e = Message("PHASE", "LOAD_MODEL", NoCode, 0, 0)
    BY <2>1
  <2> HIDE DEF e
  <2> QED
    BY <2>2, Reporting, Ranks
<1>1. CASE Goto("build") /\ UNCHANGED faults /\ Emit(e)
  <2>1. main' \in Mains /\ main'.at = "build"
    BY <1>0, <1>1, GotoFacts DEF Places
  <2> HIDE DEF e
  <2>2. events' = Append(events, e) /\ memory' \in Memories /\ memory'.result = 0
    BY <1>0, <1>1, <1>e, EmitFacts
  <2>3. PhaseRank(e.phase) \in Place(main.at)..Place(main'.at)
    BY <1>0, <1>e, <2>1 DEF Place
  <2> QED
    BY <1>0, <1>1, <1>e, <2>1, <2>2, <2>3, EarlyGrow
<1>2. CASE RaiseControl("LOAD_MODEL") /\ Checkpoint("LOAD_MODEL") /\ Quiet
  <2>1. main' \in Mains /\ main'.at = "raised"
    BY <1>0, <1>2, ControlFacts
  <2>2. memory' \in Memories /\ memory'.result = 0
    BY <1>0, <1>2, CheckpointFacts
  <2> QED
    BY <1>0, <1>2, <2>1, <2>2, EarlyStill DEF Place, Quiet
<1>3. CASE /\ RaiseFailure("EXECUTION_FAILED", "LOAD_MODEL")
           /\ Checkpoint("LOAD_MODEL") /\ Unpublished(e)
  <2>1. main' \in Mains /\ main'.at = "failing"
    BY <1>3, FailureFacts
  <2>2. memory' \in Memories /\ memory'.result = 0
    BY <1>0, <1>3, CheckpointFacts
  <2> HIDE DEF e
  <2>3. PhaseRank(e.phase) \in Place(main.at)..4
    BY <1>0, <1>e DEF Place
  <2> QED
    BY <1>0, <1>3, <1>e, <2>1, <2>2, <2>3, EarlyLost
<1> QED
  BY <1>1, <1>2, <1>3 DEF Load

\* The plan is built, or the request is found to be invalid.
LEMMA BuildKeeps ==
  ASSUME IInv, Build
  PROVE  IInv'
<1> USE EarlyFacts, KnownPhases, KnownCodes DEF Early
<1>0. /\ main.at = "build" /\ Before /\ faults \in Nat /\ UNCHANGED <<events, faults>>
      /\ stop \in StopCodes \cup {NoCode}
  BY DEF Build, Quiet, IInv, TypeOK, MainOK, OutputOK
<1>1. memory' \in Memories /\ memory'.result = 0
  BY <1>0, CheckpointFacts DEF Build
<1>2. main' \in Mains /\ main'.at \in {"prepare", "raised", "failing"}
  <2>1. CASE Goto("prepare")
    BY <1>0, <2>1, GotoFacts DEF Places
  <2>2. CASE \E code \in {"INVALID_PAYLOAD", "MODEL_FORMAT_UNSUPPORTED"} :
               RaiseFailure(code, "LOAD_MODEL")
    BY <2>2, FailureFacts
  <2>3. CASE RaiseControl("LOAD_MODEL")
    BY <1>0, <2>3, ControlFacts
  <2> QED
    BY <2>1, <2>2, <2>3 DEF Build
<1>3. Place(main.at) <= Place(main'.at)
  BY <1>0, <1>2 DEF Place
<1> QED
  BY <1>0, <1>1, <1>2, <1>3, EarlyStill

\* The model is read and verified.
LEMMA PrepareKeeps ==
  ASSUME IInv, Prepare
  PROVE  IInv'
<1> USE EarlyFacts, KnownPhases, KnownCodes DEF Early
<1>0. /\ main.at = "prepare" /\ Before /\ faults \in Nat
      /\ UNCHANGED <<events, faults, memory>>
  BY DEF Prepare, Quiet, IInv, TypeOK, OutputOK
<1>1. memory' \in Memories /\ memory'.result = 0
  BY <1>0
<1>2. main' \in Mains /\ main'.at \in {"measure", "failing"}
  <2>1. CASE Goto("measure")
    BY <1>0, <2>1, GotoFacts DEF Places
  <2>2. CASE \E code \in {"MODEL_ARTIFACT_NOT_FOUND", "MODEL_ARTIFACT_CORRUPTED",
                          "MODEL_LOAD_FAILED", "MODEL_FORMAT_UNSUPPORTED",
                          "MODEL_SCHEMA_MISMATCH"} : RaiseFailure(code, "LOAD_MODEL")
    BY <2>2, FailureFacts
  <2> QED
    BY <2>1, <2>2 DEF Prepare
<1>3. Place(main.at) <= Place(main'.at)
  BY <1>0, <1>2 DEF Place
<1> QED
  BY <1>0, <1>1, <1>2, <1>3, EarlyStill

\* The rows are counted.
LEMMA MeasureKeeps ==
  ASSUME IInv, Measure
  PROVE  IInv'
<1> USE EarlyFacts, KnownPhases, KnownCodes DEF Early
<1>0. /\ main.at = "measure" /\ Before /\ faults \in Nat /\ UNCHANGED <<events, faults>>
      /\ stop \in StopCodes \cup {NoCode}
  BY DEF Measure, Quiet, IInv, TypeOK, MainOK, OutputOK
<1>1. memory' \in Memories /\ memory'.result = 0
  BY <1>0, CheckpointFacts DEF Measure
<1>2. main' \in Mains /\ main'.at \in {"started", "raised", "failing"}
  <2>1. CASE Goto("started")
    BY <1>0, <2>1, GotoFacts DEF Places
  <2>2. CASE \E code \in {"EMPTY_INPUT", "INPUT_QUERY_FAILED", "INPUT_COLUMN_MISSING",
                          "DATA_SOURCE_UNREACHABLE", "INVALID_PAYLOAD"} :
               RaiseFailure(code, "READ_INPUT")
    BY <2>2, FailureFacts
  <2>3. CASE RaiseControl("READ_INPUT")
    BY <1>0, <2>3, ControlFacts
  <2> QED
    BY <2>1, <2>2, <2>3 DEF Measure
<1>3. Place(main.at) <= Place(main'.at)
  BY <1>0, <1>2 DEF Place
<1> QED
  BY <1>0, <1>1, <1>2, <1>3, EarlyStill

\* The run says that it has started.
LEMMA StartedKeeps ==
  ASSUME IInv, Started
  PROVE  IInv'
<1> USE EarlyFacts, KnownPhases DEF Early
<1>0. main.at = "started" /\ Before
  BY DEF Started
<1> DEFINE e == Message("STARTED", "READ_INPUT", NoCode, 0, 0)
<1>1. Publish(e, "first")
  BY DEF Started
<1>2. /\ e \in WireEvents /\ ~IsTerminal(e) /\ PhaseRank(e.phase) = 2
      /\ e.processed = 0 /\ e.result = 0
  BY Reporting, Ranks
<1> HIDE DEF e
<1>3. Place(main.at) = 1 /\ Place("first") = 2
  BY <1>0 DEF Place
<1>4. PhaseRank(e.phase) \in Place(main.at)..Place("first")
  BY <1>2, <1>3
<1> QED
  BY <1>0, <1>1, <1>2, <1>4, EarlyPublish

\* The first PROGRESS says how many rows there are.
LEMMA FirstProgressKeeps ==
  ASSUME IInv, FirstProgress
  PROVE  IInv'
<1> USE EarlyFacts, KnownPhases DEF Early
<1>0. main.at = "first" /\ Before
  BY DEF FirstProgress
<1> DEFINE e == Message("PROGRESS", "PREDICT", NoCode, 0, 0)
<1>1. Publish(e, "attempt")
  BY DEF FirstProgress
<1>2. /\ e \in WireEvents /\ ~IsTerminal(e) /\ PhaseRank(e.phase) = 3
      /\ e.processed = 0 /\ e.result = 0
  BY Reporting, Ranks
<1> HIDE DEF e
<1>3. Place(main.at) = 2 /\ Place("attempt") = 3
  BY <1>0 DEF Place
<1>4. PhaseRank(e.phase) \in Place(main.at)..Place("attempt")
  BY <1>2, <1>3
<1> QED
  BY <1>0, <1>1, <1>2, <1>4, EarlyPublish

-----------------------------------------------------------------------------
(* One attempt *)

Sinks ==
  [failure : {"", "acquisition", "memory", "materialization", "sink"},
   processed : 0..Total \cup {NoRows},
   control : [code : StopCodes \cup {NoCode}, phase : Phases]]

Pumps ==
  [at : {"off", "get", "publish", "dead"}, processed : 0..Total,
   reported : 0..Total, error : {"", "redis", "queue"} \cup StopCodes]

\* The parts of the type, as sets.
LEMMA Typed ==
  ASSUME TypeOK
  PROVE  /\ main \in Mains /\ sink \in Sinks /\ pump \in Pumps
         /\ memory \in Memories /\ events \in Seq(WireEvents)
         /\ queue \in Seq(Nat) /\ open \in BOOLEAN /\ counted \in 0..Total
         /\ stop \in StopCodes \cup {NoCode}
         /\ retries \in 0..MaxRetries /\ batch \in 1..BatchSize
         /\ appends \in Nat /\ written \in Nat /\ receipt \in Nat /\ faults \in Nat
BY DEF TypeOK, MainOK, PumpOK, OutputOK, Mains, Sinks, Pumps

\* A step that publishes nothing keeps the invariant when it keeps the types
\* and the threads, and takes back no bound.
LEMMA StillStep ==
  ASSUME IInv, TypeOK', ThreadsOK', UNCHANGED events,
         Reached <= Reached', Announced <= Announced', written <= written',
         main.at \in {"failing", "end"} =>
           main'.at \in {"failing", "end"} /\ written' = written
  PROVE  IInv'
<1>1. Reached \in 0..4 /\ Announced \in 0..Total
  BY Bounds DEF IInv, TypeOK
<1>2. Reached' \in 0..4 /\ Announced' \in 0..Total
  BY NextBounds DEF TypeOK
<1>3. written' \in Nat
  BY DEF TypeOK, OutputOK
<1> QED
  BY <1>1, <1>2, <1>3, EventsStill DEF IInv, TypeOK

\* The same for a step that publishes an event.
LEMMA GrowStep ==
  ASSUME IInv, TypeOK', ThreadsOK', NEW e \in WireEvents,
         ~Closed, events' = Append(events, e),
         Reached <= Reached', e.type = "LOG" \/ Announced <= Announced',
         written <= written', e.result <= written',
         IsTerminal(e) => main'.at \in {"failing", "end"},
         ~IsTerminal(e) => PhaseRank(e.phase) \in Reached..Reached',
         e.type = "PROGRESS" => Announced <= e.processed /\ e.processed <= Announced',
         e.type = "COMPLETED" =>
           e.processed = Total /\ e.result = Kept /\ written' = Kept
  PROVE  IInv'
<1>1. Reached \in 0..4 /\ Announced \in 0..Total
  BY Bounds DEF IInv, TypeOK
<1>2. Reached' \in 0..4 /\ Announced' \in 0..Total
  BY NextBounds DEF TypeOK
<1>3. written' \in Nat
  BY DEF TypeOK, OutputOK
<1> QED
  BY <1>1, <1>2, <1>3, EventsGrow DEF IInv, TypeOK

\* The same for a publication that raises.
LEMMA LostStep ==
  ASSUME IInv, TypeOK', ThreadsOK', NEW e \in WireEvents, Unpublished(e),
         Reached <= Reached', Announced <= Announced', written <= written',
         main.at \in {"failing", "end"} =>
           main'.at \in {"failing", "end"} /\ written' = written,
         e.result <= written',
         IsTerminal(e) => main'.at \in {"failing", "end"},
         ~IsTerminal(e) => PhaseRank(e.phase) \in Reached..Reached',
         e.type = "PROGRESS" => Announced <= e.processed /\ e.processed <= Announced',
         e.type = "COMPLETED" =>
           e.processed = Total /\ e.result = Kept /\ written' = Kept
  PROVE  IInv'
<1>1. UNCHANGED events \/ (~Closed /\ events' = Append(events, e))
  BY Typed, LostFacts DEF IInv
<1>2. CASE UNCHANGED events
  BY <1>2, StillStep
<1>3. CASE ~Closed /\ events' = Append(events, e)
  BY <1>3, GrowStep
<1> QED
  BY <1>1, <1>2, <1>3

\* The sink fails, and remembers why.
LEMMA SinkFailsFacts ==
  ASSUME main \in Mains, sink \in Sinks,
         NEW failure \in {"", "acquisition", "memory", "materialization", "sink"},
         NEW control \in [code : StopCodes \cup {NoCode}, phase : Phases],
         SinkFails(failure, control)
  PROVE  /\ main' \in Mains /\ main'.at = "verdict"
         /\ sink' \in Sinks /\ sink'.failure = failure
<1>1. main' \in Mains /\ main'.at = "verdict"
  BY GotoFacts DEF SinkFails, Places
<1>2. sink' \in Sinks /\ sink'.failure = failure
  BY DEF SinkFails, Sinks
<1> QED
  BY <1>1, <1>2

\* A sink that is new has not failed, and keeps no control error.
LEMMA FreshFacts ==
  /\ FreshSink \in Sinks /\ FreshSink.failure = ""
  /\ NoControl \in [code : StopCodes \cup {NoCode}, phase : Phases]
BY DEF FreshSink, Sinks, NoControl, NoRows, Phases, NoPhase

\* A new pump has counted nothing.
LEMMA StartedIsPump == StartedPump \in Pumps
<1> DEFINE rows == 0..Total
           errors == {"", "redis", "queue"} \cup StopCodes
<1>1. 0 \in rows /\ "" \in errors
  BY RunAssumption
<1> HIDE DEF rows, errors
<1>2. NoPump \in [at : {"off", "get", "publish", "dead"}, processed : rows,
                  reported : rows, error : errors]
  BY <1>1 DEF NoPump
<1>3. NoPump \in Pumps
  BY <1>2 DEF Pumps, rows, errors
<1> QED
  BY <1>3 DEF StartedPump, Pumps

\* The sink is tried, for the first time or once more.
LEMMA AttemptKeeps ==
  ASSUME IInv, Attempt
  PROVE  IInv'
<1> USE EarlyFacts, KnownPhases, KnownCodes DEF Early
<1>0. /\ main.at = "attempt" /\ UNCHANGED <<events, faults>> /\ sink' = FreshSink
      /\ UNCHANGED <<retries, batch, queue, open, counted, pump, stop, appends, written, receipt>>
      /\ Checkpoint("PREDICT")
  BY DEF Attempt, Quiet, progress, output
<1>1. memory' \in Memories /\ memory'.result = 0
  BY <1>0, CheckpointFacts
<1>2. main' \in Mains /\ main'.at \in {"sink", "raised"}
  <2>1. CASE Goto("sink")
    BY <1>0, <2>1, GotoFacts DEF Places
  <2>2. CASE RaiseControl("PREDICT")
    BY <1>0, <2>2, ControlFacts, Typed DEF IInv
  <2> QED
    BY <2>1, <2>2 DEF Attempt
<1>3. TypeOK'
  <2>1. MainOK'
    BY <1>0, <1>2, Typed, FreshFacts DEF IInv, MainOK, Mains, Sinks
  <2>2. PumpOK' /\ OutputOK'
    BY <1>0, <1>1 DEF IInv, TypeOK, PumpOK, OutputOK
  <2> QED
    BY <2>1, <2>2 DEF TypeOK
<1>4. ~Alive' /\ open' = FALSE /\ written' = 0 /\ appends' = 0 /\ receipt' = 0
  BY <1>0 DEF Alive, IInv, ThreadsOK, NotWrittenBefore
<1>5. ThreadsOK'
  <2>1. PumpPlace' /\ NoCountLost'
    BY <1>2, <1>4 DEF PumpPlace, NoCountLost
  <2>2. SinkKnows'
    BY <1>0, <1>2, <1>4 DEF SinkKnows, Succeeded
  <2>3. NotWrittenBefore'
    BY <1>1, <1>2, <1>4 DEF NotWrittenBefore
  <2> QED
    BY <2>1, <2>2, <2>3 DEF ThreadsOK
<1>6. Reached = 3 /\ Reached' \in {3, 4}
  <2>1. Reached = 3
    BY <1>0 DEF Reached, BeforeWrite
  <2>2. Reached' \in {3, 4}
    BY <1>2 DEF Reached, BeforeWrite
  <2> QED
    BY <2>1, <2>2
<1>7. Announced = 0 /\ Announced' \in 0..Total
  BY <1>0, <1>3, NextBounds DEF TypeOK
<1>8. Announced <= Announced'
  BY <1>7, RunAssumption
<1>9. written <= written'
  BY <1>0, <1>4
<1>10. main.at \notin {"failing", "end"}
  BY <1>0
<1> QED
  BY <1>0, <1>3, <1>5, <1>6, <1>8, <1>9, <1>10, StillStep

\* When the sink is opened nothing has been counted yet.
LEMMA OpenSinkKeeps ==
  ASSUME IInv, OpenSink
  PROVE  IInv'
<1> USE KnownPhases, KnownCodes
<1>0. /\ main.at = "sink" /\ UNCHANGED <<events, faults>>
      /\ UNCHANGED <<retries, batch, stop, appends, written, receipt>>
  BY DEF OpenSink, Quiet, output
<1>1. TypeOK
  BY DEF IInv
<1>2. /\ open = FALSE /\ ~Alive /\ appends = 0 /\ written = 0 /\ receipt = 0
      /\ memory.result <= written /\ sink = FreshSink /\ Announced = 0
      /\ Reached = 3
  <2>1. open = FALSE
    BY <1>0, <1>1, Typed DEF IInv, ThreadsOK, PumpPlace
  <2>2. ~Alive
    BY <1>0, <2>1 DEF IInv, ThreadsOK, PumpPlace
  <2>3. appends = 0 /\ written = 0 /\ receipt = 0 /\ memory.result <= written
    BY <1>0 DEF IInv, ThreadsOK, NotWrittenBefore, BeforeWrite
  <2>4. sink = FreshSink /\ Announced = 0 /\ Reached = 3
    BY <1>0 DEF IInv, ThreadsOK, SinkKnows, Announced, Reached, BeforeWrite
  <2> QED
    BY <2>1, <2>2, <2>3, <2>4
<1>3. memory' \in Memories /\ memory'.result = memory.result
  BY <1>1, Typed, CheckpointFacts DEF OpenSink
<1>4. OutputOK'
  BY <1>0, <1>1, <1>3 DEF TypeOK, OutputOK
<1>5. \/ /\ main' \in Mains /\ main'.at \in {"failing", "verdict"}
         /\ sink' \in Sinks /\ UNCHANGED progress
         /\ main'.at = "verdict" => sink'.failure \in {"acquisition", "sink"}
      \/ /\ main' \in Mains /\ main'.at = "map" /\ sink' = sink
         /\ queue' = <<>> /\ open' = TRUE /\ counted' = 0 /\ pump' = StartedPump
  <2>1. CASE RaiseFailure("MODEL_LOAD_FAILED", "LOAD_MODEL") /\ UNCHANGED <<sink, progress>>
    BY <1>1, <2>1, Typed, FailureFacts
  <2>2. CASE SinkFails("acquisition", NoControl) /\ UNCHANGED progress
    BY <1>1, <2>2, Typed, SinkFailsFacts, FreshFacts
  <2>3. CASE SinkFails("sink", NoControl) /\ UNCHANGED progress
    BY <1>1, <2>3, Typed, SinkFailsFacts, FreshFacts
  <2>4. CASE /\ Goto("map") /\ UNCHANGED sink
             /\ queue' = <<>> /\ open' = TRUE /\ counted' = 0 /\ pump' = StartedPump
    BY <1>1, <2>4, Typed, GotoFacts DEF Places
  <2> QED
    BY <2>1, <2>2, <2>3, <2>4 DEF OpenSink
<1>6. CASE /\ main' \in Mains /\ main'.at \in {"failing", "verdict"}
           /\ sink' \in Sinks /\ UNCHANGED progress
           /\ main'.at = "verdict" => sink'.failure \in {"acquisition", "sink"}
  <2>1. MainOK'
    BY <1>0, <1>1, <1>6, Typed DEF MainOK, Mains, Sinks
  <2>2. PumpOK'
    BY <1>1, <1>6 DEF TypeOK, PumpOK, progress
  <2>3. ~Alive' /\ open' = FALSE
    BY <1>2, <1>6 DEF Alive, progress
  <2>4. PumpPlace' /\ NoCountLost'
    BY <1>6, <2>3 DEF PumpPlace, NoCountLost
  <2>5. SinkKnows'
    BY <1>6, <2>3 DEF SinkKnows, Succeeded
  <2>6. NotWrittenBefore'
    BY <1>0, <1>2, <1>3, <1>6 DEF NotWrittenBefore
  <2>7. Reached' = 4
    BY <1>6, <2>3 DEF Reached, BeforeWrite, MayComeBack
  <2>8. Announced' \in 0..Total
    BY <2>2, NextBounds
  <2>9. Announced <= Announced'
    BY <1>2, <2>8, RunAssumption
  <2>10. Reached <= Reached' /\ written <= written' /\ main.at \notin {"failing", "end"}
    BY <1>0, <1>2, <2>7
  <2> QED
    BY <1>0, <1>4, <2>1, <2>2, <2>4, <2>5, <2>6, <2>9, <2>10, StillStep DEF TypeOK, ThreadsOK
<1>7. CASE /\ main' \in Mains /\ main'.at = "map" /\ sink' = sink
           /\ queue' = <<>> /\ open' = TRUE /\ counted' = 0 /\ pump' = StartedPump
  <2>0. pump'.at = "get" /\ pump'.processed = 0 /\ pump'.reported = 0 /\ pump'.error = ""
    BY <1>7 DEF StartedPump, NoPump
  <2>1. MainOK'
    BY <1>0, <1>1, <1>7, Typed DEF MainOK, Mains, Sinks
  <2>2. PumpOK'
    <3>1. 0 \in 0..Total
      BY RunAssumption
    <3>3. pump' \in Pumps
      BY <1>7, StartedIsPump
    <3>4. pump'.reported <= pump'.processed
      <4>a. pump'.processed = 0
        BY <2>0
      <4>b. pump'.reported = 0
        BY <2>0
      <4>1. pump'.reported = pump'.processed /\ pump'.processed \in Int
        BY <4>a, <4>b
      <4> QED
        BY <4>1
    <3>5. queue' \in Seq(Nat) /\ open' \in BOOLEAN /\ counted' \in 0..Total
      BY <1>7, <3>1
    <3> QED
      BY <3>3, <3>4, <3>5 DEF PumpOK, Pumps
  <2>4. PumpPlace'
    BY <1>7, <2>0 DEF PumpPlace, Alive
  <2>5. NoCountLost'
    <3>1. Len(queue') = 0 /\ Waiting' = 0
      BY <1>7 DEF Waiting
    <3>2. counted' = pump'.processed
      BY <1>7, <2>0
    <3>3. Accounted(queue', Waiting', Share', pump'.processed, counted')
      BY <3>1, <3>2 DEF Accounted
    <3>4. main'.at # "join"
      BY <1>7
    <3> QED
      BY <3>1, <3>2, <3>3, <3>4 DEF NoCountLost
  <2>6. SinkKnows'
    BY <1>2, <1>7 DEF SinkKnows, Succeeded
  <2>7. NotWrittenBefore'
    BY <1>0, <1>2, <1>3, <1>7 DEF NotWrittenBefore
  <2>8. Reached' = 3 /\ Announced' = 0
    BY <1>7, <2>0 DEF Reached, BeforeWrite, Announced
  <2>10. Reached <= Reached' /\ Announced <= Announced' /\ written <= written' /\ main.at \notin {"failing", "end"}
    BY <1>0, <1>2, <2>8
  <2> QED
    BY <1>0, <1>4, <2>1, <2>2, <2>4, <2>5, <2>6, <2>7, <2>10, StillStep DEF TypeOK, ThreadsOK
<1> QED
  BY <1>5, <1>6, <1>7

-----------------------------------------------------------------------------
(* The counts *)

\* A worker's count is a full share, or the rest of the rows.
LEMMA CountIn ==
  ASSUME NEW q \in Seq(Nat), NEW share \in Nat \ {0}, NEW sum \in Nat, NEW count \in Nat,
         count < Total, Accounted(q, Len(q), share, sum, count)
  PROVE  LET n == LesserOf(Total - count, share)
         IN  /\ n \in 1..share /\ n \in Nat /\ n # Done /\ count + n \in 0..Total
             /\ Accounted(Append(q, n), Len(q) + 1, share, sum, count + n)
<1> DEFINE n == LesserOf(Total - count, share)
           m == Len(q)
           r == Append(q, n)
<1>0. Total \in Nat
  BY RunAssumption
<1>1. /\ n \in 1..share /\ n \in Nat /\ n # Done /\ count + n \in 0..Total
      /\ n < share => count + n = Total
  BY <1>0 DEF LesserOf, Done
<1> HIDE DEF n
<1>2. m \in Nat /\ r[m + 1] = n /\ \A i \in 1..m : r[i] = q[i]
  BY <1>1
<1>3. \A i \in 1..m : q[i] = share
  <2>1. \A i \in 1..m : q[i] \in 1..share /\ (i < m => q[i] = share)
    BY DEF Accounted
  <2>2. m > 0 => q[m] = share
    <3>1. m > 0 => ~(q[m] < share)
      BY <1>0 DEF Accounted
    <3> QED
      BY <2>1, <3>1, <1>2
  <2> QED
    BY <2>1, <2>2, <1>2
<1> HIDE DEF m, r
<1>4. count = sum + m * share
  <2>1. CASE m = 0
    <3>1. count = sum /\ m * share = 0
      BY <2>1 DEF Accounted, m
    <3> QED
      BY <3>1
  <2>2. CASE m # 0
    <3>1. count = sum + (m - 1) * share + share
      BY <2>2, <1>2, <1>3 DEF Accounted, m
    <3>2. m - 1 \in Nat
      BY <2>2, <1>2
    <3>3. \A k \in Nat : k * share \in Nat /\ (k + 1) * share = k * share + share
      OBVIOUS
    <3>4. (m - 1) * share + share = m * share /\ (m - 1) * share \in Nat
      <4>1. (m - 1) + 1 = m
        BY <1>2
      <4> QED
        BY <3>2, <3>3, <4>1
    <3> QED
      BY <3>1, <3>4
  <2> QED
    BY <2>1, <2>2
<1>5. \A i \in 1..(m + 1) : r[i] \in 1..share /\ (i < m + 1 => r[i] = share)
  <2> SUFFICES ASSUME NEW i \in 1..(m + 1)
               PROVE  r[i] \in 1..share /\ (i < m + 1 => r[i] = share)
    OBVIOUS
  <2>1. CASE i \in 1..m
    BY <2>1, <1>2, <1>3
  <2>2. CASE i = m + 1
    BY <2>2, <1>1, <1>2
  <2> QED
    BY <1>2, <2>1, <2>2
<1>6. count + n = sum + ((m + 1) - 1) * share + r[m + 1]
  <2>1. (m + 1) - 1 = m /\ m * share \in Nat
    BY <1>2
  <2> QED
    BY <1>1, <1>2, <1>4, <2>1
<1>7. r[m + 1] < share => count + n = Total
  BY <1>1, <1>2
<1>8. Accounted(r, m + 1, share, sum, count + n)
  <2>1. m + 1 # 0
    BY <1>2
  <2> QED
    BY <1>5, <1>6, <1>7, <2>1 DEF Accounted
<1> QED
  BY <1>1, <1>8 DEF n, m, r

\* The pump takes a count out of the queue and adds it to its sum.
LEMMA CountOut ==
  ASSUME NEW q \in Seq(Nat), NEW n \in 1..Len(q), NEW share \in Nat \ {0},
         NEW sum \in Nat, NEW count \in Nat, Accounted(q, n, share, sum, count)
  PROVE  /\ Head(q) \in 1..share /\ sum + Head(q) <= count
         /\ Accounted(Tail(q), n - 1, share, sum + Head(q), count)
<1> DEFINE r == Tail(q)
<1>0. Total \in Nat /\ n \in Nat
  BY RunAssumption
<1>1. /\ q # <<>> /\ Head(q) = q[1] /\ \A i \in 1..(n - 1) : r[i] = q[i + 1]
  BY <1>0
<1>2. /\ \A i \in 1..n : q[i] \in 1..share /\ (i < n => q[i] = share)
      /\ count = sum + (n - 1) * share + q[n]
      /\ q[n] < share => count = Total
  BY <1>0 DEF Accounted
<1>3. q[1] \in 1..share /\ q[n] \in 1..share
  BY <1>0, <1>2
<1> HIDE DEF r
<1>4. CASE n = 1
  <2>1. count = sum + q[1]
    <3>1. (n - 1) * share = 0
      BY <1>4
    <3> QED
      BY <1>2, <1>3, <1>4, <3>1
  <2>2. n - 1 = 0
    BY <1>4
  <2>3. Accounted(r, 0, share, sum + q[1], count)
    BY <2>1 DEF Accounted
  <2> QED
    BY <1>1, <1>3, <2>1, <2>2, <2>3 DEF r
<1>5. CASE n > 1
  <2>1. q[1] = share
    BY <1>2, <1>5, <1>0
  <2>2. n - 2 \in Nat
    BY <1>0, <1>5
  <2>3. \A k \in Nat : k * share \in Nat /\ (k + 1) * share = k * share + share
    OBVIOUS
  <2>4. (n - 1) * share = (n - 2) * share + share /\ (n - 2) * share \in Nat
    <3>1. (n - 2) + 1 = n - 1
      BY <1>0
    <3> QED
      BY <2>2, <2>3, <3>1
  <2>5. r[n - 1] = q[n]
    <3>1. n - 1 \in 1..(n - 1) /\ (n - 1) + 1 = n
      BY <1>0, <1>5
    <3> QED
      BY <1>1, <3>1
  <2>6. \A i \in 1..(n - 1) : r[i] \in 1..share /\ (i < n - 1 => r[i] = share)
    <3> SUFFICES ASSUME NEW i \in 1..(n - 1)
                 PROVE  r[i] \in 1..share /\ (i < n - 1 => r[i] = share)
      OBVIOUS
    <3>1. i + 1 \in 1..n /\ (i < n - 1 => i + 1 < n)
      BY <1>0
    <3> QED
      BY <1>1, <1>2, <3>1
  <2>7. count = (sum + q[1]) + ((n - 1) - 1) * share + r[n - 1]
    <3>1. (n - 1) - 1 = n - 2
      BY <1>0
    <3>2. count = sum + (n - 1) * share + q[n]
      BY <1>2
    <3> QED
      BY <1>3, <2>1, <2>4, <2>5, <3>1, <3>2
  <2>8. sum + q[1] <= count
    <3> DEFINE k == (n - 2) * share
    <3>1. count = sum + (k + share) + q[n] /\ k \in Nat
      BY <1>2, <2>4
    <3> HIDE DEF k
    <3>2. q[n] \in Nat
      BY <1>3
    <3> QED
      BY <2>1, <3>1, <3>2
  <2>9. r[n - 1] < share => count = Total
    BY <1>2, <2>5
  <2>10. Accounted(r, n - 1, share, sum + q[1], count)
    <3>1. n - 1 # 0
      BY <1>0, <1>5
    <3> QED
      BY <2>6, <2>7, <2>9, <3>1 DEF Accounted
  <2> QED
    BY <1>1, <1>3, <2>8, <2>10 DEF r
<1> QED
  BY <1>0, <1>4, <1>5

\* How many counts wait, before and after something is put in or taken out.
LEMMA WaitingFacts ==
  ASSUME queue \in Seq(Nat)
  PROVE  /\ Waiting \in Nat /\ Waiting \in {Len(queue), Len(queue) - 1}
         /\ queue # <<>> => (Waiting < Len(queue) <=> queue[Len(queue)] = Done)
         /\ queue = <<>> => Waiting = 0
<1>1. Len(queue) \in Nat /\ (queue # <<>> => Len(queue) > 0) /\ (queue = <<>> => Len(queue) = 0)
  OBVIOUS
<1> QED
  BY <1>1 DEF Waiting

\* What is put into the queue waits, unless it is the sentinel.
LEMMA WaitingIn ==
  ASSUME queue \in Seq(Nat), NEW n \in Nat, queue' = Append(queue, n)
  PROVE  /\ queue' \in Seq(Nat) /\ Len(queue') = Len(queue) + 1
         /\ Waiting' = IF n = Done THEN Len(queue) ELSE Len(queue) + 1
<1>1. /\ queue' \in Seq(Nat) /\ queue' # <<>> /\ Len(queue') = Len(queue) + 1
      /\ queue'[Len(queue) + 1] = n /\ Len(queue) \in Nat
  OBVIOUS
<1> QED
  BY <1>1 DEF Waiting

\* What is taken from the queue is a batch, or the sentinel behind them all.
LEMMA WaitingOut ==
  ASSUME queue \in Seq(Nat), queue # <<>>, queue' = Tail(queue)
  PROVE  /\ queue' \in Seq(Nat) /\ Len(queue') = Len(queue) - 1
         /\ Head(queue) \in Nat
         /\ Waiting > 0 => Waiting' = Waiting - 1
         /\ Waiting = 0 => Head(queue) = Done /\ queue' = <<>> /\ Waiting' = 0
<1> DEFINE n == Len(queue)
<1>1. /\ queue' \in Seq(Nat) /\ Len(queue') = n - 1 /\ n \in Nat /\ n > 0
      /\ Head(queue) = queue[1] /\ Head(queue) \in Nat
  OBVIOUS
<1>2. n > 1 => queue' # <<>> /\ queue'[n - 1] = queue[n]
  <2>1. \A i \in 1..(n - 1) : queue'[i] = queue[i + 1]
    OBVIOUS
  <2>2. n > 1 => n - 1 \in 1..(n - 1) /\ (n - 1) + 1 = n
    BY <1>1
  <2>3. n > 1 => queue' # <<>>
    BY <1>1
  <2> HIDE DEF n
  <2> QED
    BY <2>1, <2>2, <2>3
<1>3. n = 1 => queue' = <<>>
  BY <1>1
<1> HIDE DEF n
<1>4. Waiting = IF queue[n] = Done THEN n - 1 ELSE n
  BY DEF Waiting, n
<1>5. n > 1 => Waiting' = IF queue[n] = Done THEN n - 2 ELSE n - 1
  BY <1>1, <1>2 DEF Waiting
<1>6. n = 1 => Waiting' = 0
  BY <1>3 DEF Waiting
<1> QED
  BY <1>1, <1>3, <1>4, <1>5, <1>6

-----------------------------------------------------------------------------
(* Rows are predicted, and the pump is joined *)

\* A worker's share is a positive number of rows.
LEMMA ShareFacts ==
  ASSUME TypeOK
  PROVE  Share \in Nat \ {0}
<1>1. batch \in Nat \ {0} /\ Interval \in Nat \ {0}
  <2>1. batch \in 1..BatchSize /\ BatchSize \in Nat
    BY RunAssumption DEF TypeOK, MainOK
  <2>2. Interval \in Nat \ {0}
    BY RunAssumption
  <2> QED
    BY <2>1, <2>2
<1> QED
  BY <1>1 DEF Share, LesserOf

\* While the queue is open its counts are accounted for.
LEMMA OpenFacts ==
  ASSUME IInv, main.at \in {"map", "join"}
  PROVE  /\ open = TRUE /\ pump.at # "off" /\ appends = 0 /\ written = 0 /\ receipt = 0
         /\ memory.result = 0 /\ Reached = 3 /\ Announced = pump.processed
         /\ Accounted(queue, Waiting, Share, pump.processed, counted)
         /\ pump.processed \in Nat /\ counted \in Nat /\ Total \in Nat
<1>1. TypeOK
  BY DEF IInv
<1>2. open = TRUE /\ pump.at # "off"
  BY <1>1, Typed DEF IInv, ThreadsOK, PumpPlace
<1>3. appends = 0 /\ written = 0 /\ receipt = 0 /\ memory.result <= written
  BY DEF IInv, ThreadsOK, NotWrittenBefore, BeforeWrite
<1>4. memory.result \in Nat
  BY <1>1, Typed DEF Memories
<1>5. Reached = 3 /\ Announced = pump.processed
  BY DEF Reached, BeforeWrite, Announced
<1>6. Accounted(queue, Waiting, Share, pump.processed, counted)
  BY <1>2 DEF IInv, ThreadsOK, NoCountLost
<1>7. pump.processed \in 0..Total /\ counted \in 0..Total
  BY <1>1, Typed DEF Pumps
<1>8. Total \in Nat
  BY RunAssumption
<1>9. memory.result = 0
  BY <1>3, <1>4
<1>10. pump.processed \in Nat /\ counted \in Nat
  BY <1>7, <1>8
<1> QED
  BY <1>2, <1>3, <1>5, <1>6, <1>8, <1>9, <1>10

\* A batch is predicted, and its rows are counted.
LEMMA PredictBatchKeeps ==
  ASSUME IInv, PredictBatch
  PROVE  IInv'
<1>1. TypeOK
  BY DEF IInv
<1> DEFINE n == LesserOf(Total - counted, Share)
<1>2. /\ main.at = "map" /\ counted < Total
      /\ queue' = Append(queue, n) /\ counted' = counted + n
      /\ UNCHANGED <<main, open, pump, sink, memory, events, faults, retries, batch, stop,
                     appends, written, receipt>>
  BY DEF PredictBatch, Quiet, InSink, Share, output
<1>3. Waiting = Len(queue)
  BY <1>2, OpenFacts DEF IInv, ThreadsOK, NoCountLost
<1>4. /\ n \in Nat /\ n # Done /\ counted' \in 0..Total
      /\ Accounted(Append(queue, n), Len(queue) + 1, Share, pump.processed, counted + n)
  BY <1>1, <1>2, <1>3, OpenFacts, Typed, ShareFacts, CountIn
<1> HIDE DEF n
<1>5. queue' \in Seq(Nat) /\ Len(queue') = Len(queue) + 1 /\ Waiting' = Len(queue) + 1
  BY <1>1, <1>2, <1>4, Typed, WaitingIn
<1>6. TypeOK'
  <2>1. MainOK'
    BY <1>1, <1>2 DEF TypeOK, MainOK
  <2>2. PumpOK'
    BY <1>1, <1>2, <1>4, <1>5 DEF TypeOK, PumpOK
  <2>3. OutputOK'
    BY <1>1, <1>2 DEF TypeOK, OutputOK
  <2> QED
    BY <2>1, <2>2, <2>3 DEF TypeOK
<1>7. ThreadsOK'
  <2>1. PumpPlace'
    BY <1>2 DEF IInv, ThreadsOK, PumpPlace, Alive
  <2>2. NoCountLost'
    <3>1. Accounted(queue', Waiting', Share', pump'.processed, counted')
      BY <1>2, <1>4, <1>5 DEF Share
    <3> QED
      BY <1>2, <1>5, <3>1 DEF NoCountLost
  <2>3. SinkKnows'
    BY <1>2 DEF IInv, ThreadsOK, SinkKnows, Succeeded, Alive
  <2>4. NotWrittenBefore'
    BY <1>2 DEF IInv, ThreadsOK, NotWrittenBefore, BeforeWrite, MayComeBack
  <2> QED
    BY <2>1, <2>2, <2>3, <2>4 DEF ThreadsOK
<1>8. Reached' = 3 /\ Announced' = pump.processed
  BY <1>2 DEF Reached, BeforeWrite, Announced
<1> QED
  BY <1>2, <1>6, <1>7, <1>8, OpenFacts, StillStep

\* close() puts the sentinel behind every count.
LEMMA CloseProgressKeeps ==
  ASSUME IInv, CloseProgress
  PROVE  IInv'
<1>1. TypeOK
  BY DEF IInv
<1>2. /\ main.at = "map" /\ queue' = Append(queue, Done) /\ Goto("join")
      /\ UNCHANGED <<open, counted, pump, memory, events, faults, retries, batch, stop,
                     appends, written, receipt>>
  BY DEF CloseProgress, Quiet, InSink, output
<1>3. Waiting = Len(queue)
  BY <1>2, OpenFacts DEF IInv, ThreadsOK, NoCountLost
<1>4. main' \in Mains /\ main'.at = "join"
  BY <1>1, <1>2, Typed, GotoFacts DEF Places
<1>5. /\ queue' \in Seq(Nat) /\ Len(queue') = Len(queue) + 1 /\ Waiting' = Len(queue)
      /\ \A i \in 1..Len(queue) : queue'[i] = queue[i]
      /\ Len(queue) \in Nat
  <2>1. Done \in Nat /\ queue \in Seq(Nat)
    BY <1>1, Typed DEF Done
  <2>2. \A i \in 1..Len(queue) : queue'[i] = queue[i]
    BY <1>2, <2>1
  <2> QED
    BY <1>2, <2>1, <2>2, WaitingIn
<1>6. sink' \in Sinks /\ (sink'.failure = "" => counted = Total)
  <2>1. CASE counted = Total /\ UNCHANGED sink
    BY <1>1, <2>1, Typed
  <2>2. CASE \E failure \in {"memory", "materialization"} :
               sink' = [sink EXCEPT !.failure = failure]
    <3>1. PICK failure \in {"memory", "materialization"} :
            sink' = [sink EXCEPT !.failure = failure]
      BY <2>2
    <3> QED
      BY <1>1, <3>1, Typed DEF Sinks
  <2> QED
    BY <2>1, <2>2 DEF CloseProgress
<1>7. TypeOK'
  <2>1. MainOK'
    BY <1>1, <1>2, <1>4, <1>6, Typed DEF MainOK, Mains, Sinks
  <2>2. PumpOK'
    BY <1>1, <1>2, <1>5 DEF TypeOK, PumpOK
  <2>3. OutputOK'
    BY <1>1, <1>2 DEF TypeOK, OutputOK
  <2> QED
    BY <2>1, <2>2, <2>3 DEF TypeOK
<1>8. ThreadsOK'
  <2>1. PumpPlace'
    BY <1>2, <1>4, OpenFacts DEF PumpPlace, Alive
  <2>2. NoCountLost'
    <3>1. Accounted(queue', Waiting', Share', pump'.processed, counted')
      <4>1. Accounted(queue, Len(queue), Share, pump.processed, counted)
        BY <1>2, <1>3, OpenFacts
      <4>2. Len(queue) # 0 => Len(queue) \in 1..Len(queue)
        BY <1>5
      <4>3. Accounted(queue', Len(queue), Share, pump.processed, counted)
        BY <1>5, <4>1, <4>2 DEF Accounted
      <4> QED
        BY <1>2, <1>5, <4>3 DEF Share
    <3>2. Waiting' < Len(queue')
      BY <1>5
    <3>3. pump.at = "dead" => pump.error # ""
      BY <1>2 DEF IInv, ThreadsOK, PumpPlace
    <3> QED
      BY <1>2, <1>4, <1>6, <3>1, <3>2, <3>3 DEF NoCountLost
  <2>3. SinkKnows'
    BY <1>4 DEF SinkKnows, Succeeded
  <2>4. NotWrittenBefore'
    BY <1>2, <1>4, OpenFacts DEF NotWrittenBefore
  <2> QED
    BY <2>1, <2>2, <2>3, <2>4 DEF ThreadsOK
<1>9. Reached' = 3 /\ Announced' = pump.processed
  BY <1>2, <1>4 DEF Reached, BeforeWrite, Announced
<1> QED
  BY <1>2, <1>7, <1>8, <1>9, OpenFacts, StillStep

\* The pump is over: when it has had the sentinel, its sum is every row.
LEMMA JoinKeeps ==
  ASSUME IInv, Join
  PROVE  IInv'
<1>1. TypeOK
  BY DEF IInv
<1>2. /\ main.at = "join" /\ pump.at = "dead" /\ open' = FALSE
      /\ UNCHANGED <<queue, counted, pump, memory, events, faults, retries, batch, stop,
                     appends, written, receipt>>
  BY DEF Join, Quiet, InSink, output
<1>3. /\ main' \in Mains /\ main'.at \in {"gate", "verdict"} /\ sink' \in Sinks
      /\ main'.at = "verdict" => sink'.failure # ""
      /\ main'.at = "gate" =>
           sink'.failure = "" /\ sink'.processed = Total /\ pump.processed = Total
  <2>1. CASE SinkFails("sink", [code |-> pump.error, phase |-> "PREDICT"]) /\ pump.error \in StopCodes
    <3>1. [code |-> pump.error, phase |-> "PREDICT"]
            \in [code : StopCodes \cup {NoCode}, phase : Phases]
      BY <2>1, KnownPhases, KnownCodes
    <3> QED
      BY <1>1, <2>1, <3>1, Typed, SinkFailsFacts
  <2>2. CASE SinkFails("sink", NoControl)
    BY <1>1, <2>2, Typed, SinkFailsFacts, FreshFacts
  <2>3. CASE /\ pump.error = "" /\ sink' = [sink EXCEPT !.processed = pump.processed]
             /\ Goto(IF sink.failure = "" THEN "gate" ELSE "verdict")
    <3>1. /\ main' \in Mains
          /\ main'.at = IF sink.failure = "" THEN "gate" ELSE "verdict"
      <4>1. (IF sink.failure = "" THEN "gate" ELSE "verdict") \in Places
        BY DEF Places
      <4> QED
        BY <1>1, <2>3, <4>1, Typed, GotoFacts
    <3>2. pump.processed \in 0..Total
      BY <1>1, Typed DEF Pumps
    <3>3. /\ sink' \in Sinks /\ sink'.failure = sink.failure
          /\ sink'.processed = pump.processed
      BY <1>1, <2>3, <3>2, Typed DEF Sinks
    <3>4. queue = <<>> /\ (sink.failure = "" => counted = Total)
      BY <1>2, <2>3, OpenFacts DEF IInv, ThreadsOK, NoCountLost, Alive
    <3>5. Waiting = 0
      BY <1>1, <3>4, Typed, WaitingFacts
    <3>6. counted = pump.processed
      BY <1>2, <3>5, OpenFacts DEF Accounted
    <3> QED
      BY <3>1, <3>3, <3>4, <3>6
  <2> QED
    BY <2>1, <2>2, <2>3 DEF Join
<1>4. TypeOK'
  <2>1. MainOK'
    BY <1>1, <1>2, <1>3, Typed DEF MainOK, Mains, Sinks
  <2>2. PumpOK'
    BY <1>1, <1>2 DEF TypeOK, PumpOK
  <2>3. OutputOK'
    BY <1>1, <1>2 DEF TypeOK, OutputOK
  <2> QED
    BY <2>1, <2>2, <2>3 DEF TypeOK
<1>5. ThreadsOK'
  <2>1. PumpPlace' /\ NoCountLost'
    BY <1>2, <1>3 DEF PumpPlace, NoCountLost, Alive
  <2>2. SinkKnows'
    BY <1>2, <1>3 DEF SinkKnows, Succeeded, Alive
  <2>3. NotWrittenBefore'
    <3>1. appends' = 0 /\ written' = 0 /\ receipt' = 0 /\ memory'.result = 0
      BY <1>2, OpenFacts
    <3>2. main'.at # "load"
      BY <1>3
    <3> QED
      BY <3>1, <3>2 DEF NotWrittenBefore
  <2> QED
    BY <2>1, <2>2, <2>3 DEF ThreadsOK
<1>6. Reached' \in {3, 4} /\ Announced' = pump.processed
  <2>1. main'.at \notin {"load", "build", "prepare", "measure", "started", "first"}
    BY <1>3
  <2>2. Reached' \in {3, 4}
    BY <2>1 DEF Reached
  <2> QED
    BY <1>2, <1>3, <2>2 DEF Announced
<1>7. Reached <= Reached' /\ Announced <= Announced' /\ written <= written'
  BY <1>2, <1>6, OpenFacts
<1> QED
  BY <1>2, <1>4, <1>5, <1>7, StillStep

\* A pump that still runs makes the sink fail.
LEMMA JoinTimeoutKeeps ==
  ASSUME IInv, JoinTimeout
  PROVE  IInv'
<1>1. TypeOK
  BY DEF IInv
<1>2. /\ main.at = "join" /\ pump.at \in {"get", "publish"} /\ open' = FALSE
      /\ UNCHANGED <<queue, counted, pump, memory, events, faults, retries, batch, stop,
                     appends, written, receipt>>
  BY DEF JoinTimeout, Quiet, InSink, output
<1>3. /\ main' \in Mains /\ main'.at = "verdict" /\ sink' \in Sinks
      /\ sink'.failure = "sink"
  BY <1>1, Typed, SinkFailsFacts, FreshFacts DEF JoinTimeout
<1>4. TypeOK'
  <2>1. MainOK'
    BY <1>1, <1>2, <1>3, Typed DEF MainOK, Mains, Sinks
  <2>2. PumpOK'
    BY <1>1, <1>2 DEF TypeOK, PumpOK
  <2>3. OutputOK'
    BY <1>1, <1>2 DEF TypeOK, OutputOK
  <2> QED
    BY <2>1, <2>2, <2>3 DEF TypeOK
<1>5. ThreadsOK'
  <2>1. PumpPlace' /\ NoCountLost'
    BY <1>2, <1>3 DEF PumpPlace, NoCountLost, Alive
  <2>2. SinkKnows'
    BY <1>3 DEF SinkKnows, Succeeded
  <2>3. NotWrittenBefore'
    BY <1>2, <1>3, OpenFacts DEF NotWrittenBefore
  <2> QED
    BY <2>1, <2>2, <2>3 DEF ThreadsOK
<1>6. Reached' = 3 /\ Announced' = pump.processed
  BY <1>2, <1>3 DEF Reached, Alive, Announced
<1>7. Reached <= Reached' /\ Announced <= Announced' /\ written <= written'
  BY <1>2, <1>6, OpenFacts
<1> QED
  BY <1>2, <1>4, <1>5, <1>7, StillStep

-----------------------------------------------------------------------------
(* The results are written *)

Writing == {"gate", "almost", "write"}

\* When the results are written the pump is over, and every row is counted.
LEMMA WritingFacts ==
  ASSUME IInv, main.at \in Writing
  PROVE  /\ open = FALSE /\ ~Alive /\ appends = 0 /\ written = 0 /\ receipt = 0
         /\ memory.result = 0 /\ sink.failure = "" /\ sink.processed = Total
         /\ pump.processed = Total /\ Announced = Total
         /\ Total \in Nat /\ ~Closed
<1>1. TypeOK
  BY DEF IInv
<1>2. open = FALSE
  BY <1>1, Typed DEF IInv, ThreadsOK, PumpPlace, Writing
<1>3. appends = 0 /\ written = 0 /\ receipt = 0 /\ memory.result <= written
  BY DEF IInv, ThreadsOK, NotWrittenBefore, BeforeWrite, Writing
<1>4. memory.result \in Nat
  BY <1>1, Typed DEF Memories
<1>5. sink.failure = "" /\ ~Alive
  BY DEF IInv, ThreadsOK, SinkKnows, Writing
<1>6. sink.processed = Total /\ pump.processed = Total
  BY DEF IInv, ThreadsOK, SinkKnows, Writing
<1>7. Announced = Total
  BY <1>6 DEF Announced, Writing
<1>8. Total \in Nat
  BY RunAssumption
<1>9. ~Closed
  BY <1>1, OpenBeforeTheEnd DEF IInv, EventsOK, TypeOK, Writing
<1>10. memory.result = 0
  BY <1>3, <1>4
<1> QED
  BY <1>2, <1>3, <1>5, <1>6, <1>7, <1>8, <1>9, <1>10

\* Up to the write nothing has been written.
LEMMA WritingNumbers ==
  ASSUME IInv, main.at \in Writing
  PROVE  /\ appends = 0 /\ written = 0 /\ receipt = 0 /\ memory.result = 0
         /\ Announced = Total /\ Total \in Nat
BY WritingFacts

\* All rows have been counted when the write begins.
LEMMA AllCounted ==
  ASSUME IInv, main.at \in Writing
  PROVE  sink.processed = Total
BY WritingFacts

\* A step of these that goes on, or ends as a failure of the sink.
LEMMA WritingFrame ==
  ASSUME IInv, main.at \in {"gate", "almost"},
         UNCHANGED <<retries, batch, stop, progress, appends, written, receipt>>,
         main' \in Mains, sink' \in Sinks,
         events' \in Seq(WireEvents), memory' \in Memories, memory'.result = 0,
         faults' \in Nat,
         \/ main'.at \in {"almost", "write"} /\ sink' = sink
         \/ main'.at = "verdict" /\ sink'.failure = "sink"
  PROVE  TypeOK' /\ ThreadsOK' /\ Announced' = Total /\ Reached' \in {3, 4}
<1>1. TypeOK
  BY DEF IInv
<1>2. main.at \in Writing
  BY DEF Writing
<1>3. UNCHANGED <<queue, open, counted, pump>>
  BY DEF progress
<1>4. main'.at \in {"almost", "write", "verdict"}
  OBVIOUS
<1>5. MainOK'
  BY <1>1, Typed DEF MainOK, Mains, Sinks
<1>6. PumpOK'
  BY <1>1, <1>3 DEF TypeOK, PumpOK
<1>7. OutputOK'
  BY <1>1 DEF TypeOK, OutputOK
<1>8. open' = FALSE /\ ~Alive' /\ pump'.processed = Total
  BY <1>2, <1>3, WritingFacts DEF Alive
<1>9. appends' = 0 /\ written' = 0 /\ receipt' = 0
  BY <1>2, WritingFacts
<1>10. PumpPlace' /\ NoCountLost'
  BY <1>4, <1>8 DEF PumpPlace, NoCountLost
<1>11. SinkKnows'
  <2>1. sink' = sink => sink'.failure = "" /\ sink'.processed = Total
    BY <1>2, WritingFacts
  <2> QED
    BY <1>4, <1>8, <2>1 DEF SinkKnows, Succeeded
<1>12. NotWrittenBefore'
  BY <1>4, <1>9 DEF NotWrittenBefore
<1>13. Announced' = Total
  BY <1>4, <1>8 DEF Announced
<1>14. Reached' \in {3, 4}
  <2>1. main'.at \notin {"load", "build", "prepare", "measure", "started", "first"}
    BY <1>4
  <2> QED
    BY <2>1 DEF Reached
<1> QED
  BY <1>5, <1>6, <1>7, <1>10, <1>11, <1>12, <1>13, <1>14 DEF TypeOK, ThreadsOK

\* The last checkpoint before the write.
LEMMA WriteGateKeeps ==
  ASSUME IInv, WriteGate
  PROVE  IInv'
<1>1. TypeOK
  BY DEF IInv
<1>2. /\ main.at = "gate" /\ Checkpoint("WRITE_RESULT")
      /\ UNCHANGED <<retries, batch, stop, progress, appends, written, receipt, events, faults>>
  BY DEF WriteGate, Quiet, InSink, output
<1>3. main.at \in Writing
  BY <1>2 DEF Writing
<1>4. memory' \in Memories /\ memory'.result = 0
  BY <1>1, <1>2, <1>3, Typed, CheckpointFacts, KnownPhases, WritingFacts
<1>5. /\ main' \in Mains /\ sink' \in Sinks
      /\ \/ main'.at \in {"almost", "write"} /\ sink' = sink
         \/ main'.at = "verdict" /\ sink'.failure = "sink"
  <2>1. CASE Goto("almost") /\ UNCHANGED sink
    <3>1. main' \in Mains /\ main'.at = "almost"
      BY <1>1, <2>1, Typed, GotoFacts DEF Places
    <3> QED
      BY <1>1, <2>1, <3>1, Typed
  <2>2. CASE SinkFails("sink", [code |-> stop, phase |-> "WRITE_RESULT"])
    <3>1. [code |-> stop, phase |-> "WRITE_RESULT"]
            \in [code : StopCodes \cup {NoCode}, phase : Phases]
      BY <1>1, Typed, KnownPhases, KnownCodes
    <3> QED
      BY <1>1, <2>2, <3>1, Typed, SinkFailsFacts
  <2> QED
    BY <2>1, <2>2 DEF WriteGate
<1>6. TypeOK' /\ ThreadsOK' /\ Announced' = Total /\ Reached' \in {3, 4}
  BY <1>1, <1>2, <1>4, <1>5, Typed, WritingFrame
<1>7. Reached = 3
  BY <1>2 DEF Reached, BeforeWrite
<1>8. Reached <= Reached' /\ Announced <= Announced' /\ written <= written'
  <2>1. written' = written
    BY <1>2
  <2>2. main.at \in Writing /\ Announced' = Total /\ Reached' \in {3, 4}
    BY <1>3, <1>6
  <2> QED
    BY <1>7, <2>1, <2>2, WritingNumbers
<1> QED
  BY <1>2, <1>6, <1>8, StillStep

\* The PROGRESS that comes before the write.
LEMMA AlmostKeeps ==
  ASSUME IInv, Almost
  PROVE  IInv'
<1>1. TypeOK
  BY DEF IInv
<1>2. /\ main.at = "almost"
      /\ UNCHANGED <<retries, batch, stop, progress, appends, written, receipt>>
  BY DEF Almost, InSink, output
<1>3. main.at \in Writing
  BY <1>2 DEF Writing
<1>4. Reached = 3
  BY <1>2 DEF Reached, BeforeWrite
<1> DEFINE e == Message("PROGRESS", "WRITE_RESULT", NoCode, sink.processed, 0)
<1>e. /\ e \in WireEvents /\ e.type = "PROGRESS" /\ PhaseRank(e.phase) = 4
      /\ e.processed = Total /\ e.result = 0 /\ ~IsTerminal(e)
  <2>1. sink.processed = Total
    BY <1>3, AllCounted
  <2>2. Total \in Int
    BY RunAssumption
  <2> QED
    BY <2>1, <2>2, KnownPhases, Reporting, Ranks
<1>a. \/ Emit(e) /\ Goto("write") /\ UNCHANGED <<sink, faults>>
      \/ Unpublished(e) /\ UNCHANGED memory /\ SinkFails("sink", NoControl)
  BY DEF Almost, AnnounceWrite
<1> HIDE DEF e
<1>5. CASE Emit(e) /\ Goto("write") /\ UNCHANGED <<sink, faults>>
  <2>1. main' \in Mains /\ main'.at = "write"
    BY <1>1, <1>5, Typed, GotoFacts DEF Places
  <2>3. /\ events' = Append(events, e) /\ events' \in Seq(WireEvents)
        /\ memory' \in Memories /\ memory'.result = 0
    BY <1>1, <1>3, <1>5, <1>e, Typed, WritingFacts, EmitFacts
  <2>4. TypeOK' /\ ThreadsOK' /\ Announced' = Total
    BY <1>1, <1>2, <1>5, <2>1, <2>3, Typed, WritingFrame
  <2>5. Reached' = 4
    <3>1. ~Alive'
      BY <1>2, <1>3, WritingFacts DEF Alive, progress
    <3> QED
      BY <2>1, <3>1 DEF Reached, BeforeWrite
  <2>6. PhaseRank(e.phase) \in Reached..Reached'
    BY <1>4, <1>e, <2>5
  <2>7. /\ Reached <= Reached' /\ Announced <= Announced' /\ written <= written'
        /\ e.result <= written'
        /\ Announced <= e.processed /\ e.processed <= Announced'
    <3>1. written' = written
      BY <1>2
    <3>2. e.processed = Total
      BY <1>e
    <3>3. e.result = 0
      BY <1>e
    <3>4. Announced' = Total
      BY <2>4
    <3> QED
      BY <1>3, <1>4, <2>5, <3>1, <3>2, <3>3, <3>4, WritingNumbers
  <2>8. e.type # "COMPLETED" /\ ~Closed
    BY <1>3, <1>e, WritingFacts
  <2> QED
    BY <1>e, <2>3, <2>4, <2>6, <2>7, <2>8, GrowStep
<1>6. CASE Unpublished(e) /\ UNCHANGED memory /\ SinkFails("sink", NoControl)
  <2>1. /\ main' \in Mains /\ main'.at = "verdict" /\ sink' \in Sinks
        /\ sink'.failure = "sink"
    BY <1>1, <1>6, Typed, SinkFailsFacts, FreshFacts
  <2>2. faults' \in Nat /\ events' \in Seq(WireEvents)
    BY <1>1, <1>6, <1>e, Typed, LostFacts
  <2>3. TypeOK' /\ ThreadsOK' /\ Announced' = Total
    BY <1>1, <1>2, <1>3, <1>6, <2>1, <2>2, Typed, WritingFacts, WritingFrame
  <2>4. Reached' = 4
    <3>1. ~Alive'
      BY <1>2, <1>3, WritingFacts DEF Alive, progress
    <3> QED
      BY <2>1, <3>1 DEF Reached, BeforeWrite, MayComeBack
  <2>5. PhaseRank(e.phase) \in Reached..Reached'
    BY <1>4, <1>e, <2>4
  <2>6. /\ Reached <= Reached' /\ Announced <= Announced' /\ written <= written'
        /\ e.result <= written'
        /\ Announced <= e.processed /\ e.processed <= Announced'
    <3>1. written' = written
      BY <1>2
    <3>2. e.processed = Total /\ e.result = 0
      BY <1>e
    <3>3. Announced' = Total
      BY <2>3
    <3> QED
      BY <1>3, <1>4, <2>4, <3>1, <3>2, <3>3, WritingNumbers
  <2>7. e.type # "COMPLETED"
    BY <1>e
  <2> QED
    BY <1>2, <1>6, <1>e, <2>3, <2>5, <2>6, <2>7, LostStep
<1> QED
  BY <1>5, <1>6, <1>a

\* The write is the first, and what it leaves is a result or a failed sink.
LEMMA WriteKeeps ==
  ASSUME IInv, Write
  PROVE  IInv'
<1>1. TypeOK
  BY DEF IInv
<1>2. /\ main.at = "write"
      /\ UNCHANGED <<retries, batch, stop, progress, memory, events, faults>>
  BY DEF Write, InSink, Quiet
<1>3. main.at \in Writing
  BY <1>2 DEF Writing
<1>4. appends' = 1
  BY <1>3, WritingNumbers DEF Write
<1>5. /\ main' \in Mains /\ main'.at = "verdict" /\ sink' \in Sinks
      /\ written' \in Nat /\ receipt' \in Nat /\ receipt' <= written'
      /\ \/ /\ sink'.failure = "" /\ sink'.processed = Total
            /\ written' = Kept /\ receipt' = Kept
         \/ sink'.failure = "sink"
  <2>0. Kept \in Nat /\ written = 0 /\ receipt = 0
    <3>1. Kept \in Nat
      BY RunAssumption
    <3>2. written = 0 /\ receipt = 0
      BY <1>3, WritingNumbers
    <3> QED
      BY <3>1, <3>2
  <2>1. CASE written' = written + Kept /\ receipt' = Kept /\ Goto("verdict") /\ UNCHANGED sink
    <3>1. main' \in Mains /\ main'.at = "verdict"
      BY <1>1, <2>1, Typed, GotoFacts DEF Places
    <3>2. written' = Kept /\ receipt' = Kept
      BY <2>0, <2>1
    <3>3. sink' \in Sinks /\ sink'.failure = "" /\ sink'.processed = Total
      BY <1>1, <1>3, <2>1, Typed, WritingFacts
    <3>4. written' \in Nat /\ receipt' \in Nat /\ receipt' <= written'
      BY <2>0, <3>2
    <3> QED
      BY <3>1, <3>2, <3>3, <3>4
  <2>2. CASE /\ \E n \in 0..Kept : written' = written + n
             /\ SinkFails("sink", NoControl) /\ UNCHANGED receipt
    <3>1. /\ main' \in Mains /\ main'.at = "verdict" /\ sink' \in Sinks
          /\ sink'.failure = "sink"
      BY <1>1, <2>2, Typed, SinkFailsFacts, FreshFacts
    <3>2. written' \in Nat /\ receipt' = 0
      BY <2>0, <2>2
    <3> QED
      BY <3>1, <3>2
  <2> QED
    BY <2>1, <2>2 DEF Write
<1>6. UNCHANGED <<queue, open, counted, pump>>
  BY <1>2 DEF progress
<1>7. TypeOK'
  <2>1. MainOK'
    BY <1>1, <1>2, <1>5, Typed DEF MainOK, Mains, Sinks
  <2>2. PumpOK'
    BY <1>1, <1>6 DEF TypeOK, PumpOK
  <2>3. OutputOK'
    BY <1>1, <1>2, <1>4, <1>5 DEF TypeOK, OutputOK
  <2> QED
    BY <2>1, <2>2, <2>3 DEF TypeOK
<1>8. open' = FALSE /\ ~Alive' /\ pump'.processed = Total
  BY <1>3, <1>6, WritingFacts DEF Alive
<1>9. ThreadsOK'
  <2>1. PumpPlace' /\ NoCountLost'
    BY <1>5, <1>8 DEF PumpPlace, NoCountLost
  <2>2. SinkKnows'
    BY <1>5, <1>8 DEF SinkKnows, Succeeded
  <2>3. NotWrittenBefore'
    <3>1. ~BeforeWrite'
      BY <1>5 DEF BeforeWrite, MayComeBack
    <3>2. memory'.result = 0 /\ written' \in Nat
      <4>1. memory' = memory
        BY <1>2
      <4>2. written' \in Nat
        BY <1>5
      <4> QED
        BY <1>3, <4>1, <4>2, WritingNumbers
    <3>3. main'.at # "load"
      BY <1>5
    <3>4. appends' # 0
      BY <1>4
    <3>5. receipt' <= written'
      BY <1>5
    <3>6. memory'.result <= written'
      BY <3>2
    <3> QED
      BY <3>1, <3>3, <3>4, <3>5, <3>6 DEF NotWrittenBefore
  <2> QED
    BY <2>1, <2>2, <2>3 DEF ThreadsOK
<1>10. Reached' = 4 /\ Reached = 4
  <2>1. ~Alive
    BY <1>3, WritingFacts
  <2>2. Reached = 4
    BY <1>2, <2>1 DEF Reached, BeforeWrite
  <2>3. Reached' = 4
    BY <1>5, <1>8 DEF Reached, BeforeWrite, MayComeBack
  <2> QED
    BY <2>2, <2>3
<1>11. Announced = Total /\ Announced' = Total
  BY <1>3, <1>5, <1>8, WritingFacts DEF Announced
<1>12. Reached <= Reached' /\ Announced <= Announced' /\ written <= written'
  <2>1. written' \in Nat
    BY <1>5
  <2> QED
    BY <1>3, <1>10, <1>11, <2>1, WritingNumbers
<1> QED
  BY <1>2, <1>7, <1>9, <1>12, StillStep

-----------------------------------------------------------------------------
(* The pump *)

\* Where the main thread may be while the pump runs.
LEMMA AliveFacts ==
  ASSUME IInv, Alive
  PROVE  /\ main.at \in {"map", "join", "verdict", "judge", "raised", "failing", "end"}
         /\ main.at \in {"verdict", "judge"} => sink.failure = "sink"
         /\ main.at \in {"map", "join"} => open
         /\ Reached = 3
<1>1. /\ main.at \in {"map", "join", "verdict", "judge", "raised", "failing", "end"}
      /\ main.at \in {"verdict", "judge"} => sink.failure = "sink"
      /\ main.at \in {"map", "join"} => open
  <2>1. CASE open
    BY <2>1 DEF IInv, ThreadsOK, PumpPlace
  <2>2. CASE ~open
    BY <2>2 DEF IInv, ThreadsOK, PumpPlace
  <2> QED
    BY <2>1, <2>2
<1>2. Reached = 3
  BY <1>1 DEF Reached
<1> QED
  BY <1>1, <1>2

\* While the pump runs it is the pump that has announced the most.
LEMMA AliveAnnounced ==
  ASSUME IInv, Alive
  PROVE  /\ Announced = pump.processed /\ pump.processed \in Nat
         /\ pump.processed \in 0..Total
<1>1. Announced = pump.processed
  BY AliveFacts DEF Announced
<1>2. pump.processed \in 0..Total
  BY Typed DEF IInv, Pumps
<1> QED
  BY <1>1, <1>2, RunAssumption

\* A step of the pump keeps what does not concern the counts.
LEMMA PumpFrame ==
  ASSUME IInv, Alive, PumpLocal, PumpOK', OutputOK',
         pump'.at \in {"get", "publish", "dead"},
         main.at = "map" /\ pump'.at = "dead" => pump'.error # "",
         memory'.result <= written,
         NoCountLost', pump.processed <= pump'.processed
  PROVE  /\ TypeOK' /\ ThreadsOK'
         /\ Reached' \in {3, 4} /\ (Alive' => Reached' = 3)
         /\ Announced' = pump'.processed /\ Announced <= Announced'
         /\ UNCHANGED <<main, written>>
<1>1. UNCHANGED <<main, retries, batch, open, counted, sink, stop, appends, written, receipt>>
  BY DEF PumpLocal, output
<1>2. MainOK'
  BY <1>1 DEF IInv, TypeOK, MainOK
<1>3. main'.at = main.at
  BY <1>1
<1>4. PumpPlace'
  BY <1>1, AliveFacts DEF PumpPlace, Alive, IInv, ThreadsOK
<1>5. SinkKnows'
  <2>1. ~Succeeded /\ main.at \notin {"sink", "gate", "almost", "write"}
    BY AliveFacts DEF Succeeded
  <2>2. ~Succeeded'
    BY <1>1, <2>1 DEF Succeeded
  <2>3. main.at = "map" => sink' = FreshSink
    BY <1>1 DEF IInv, ThreadsOK, SinkKnows
  <2> QED
    BY <1>3, <2>1, <2>2, <2>3 DEF SinkKnows
<1>6. NotWrittenBefore'
  <2>1. BeforeWrite' <=> BeforeWrite
    BY <1>1 DEF BeforeWrite, MayComeBack
  <2>2. main'.at # "load"
    BY <1>3, AliveFacts
  <2> QED
    BY <1>1, <2>1, <2>2 DEF NotWrittenBefore, IInv, ThreadsOK
<1>7. Reached' \in {3, 4} /\ (Alive' => Reached' = 3)
  BY <1>3, AliveFacts DEF Reached
<1>8. Announced' = pump'.processed
  BY <1>3, AliveFacts DEF Announced
<1>9. Announced <= Announced'
  BY <1>8, AliveAnnounced
<1> QED
  BY <1>1, <1>2, <1>4, <1>5, <1>6, <1>7, <1>8, <1>9 DEF TypeOK, ThreadsOK

\* The numbers of the last two places, compared.
LEMMA LeqFacts ==
  /\ \A n \in Nat : n <= n
  /\ \A n \in {3, 4} : 3 <= n
OBVIOUS

\* A step of the pump that publishes nothing.
LEMMA PumpStill ==
  ASSUME IInv, Alive, PumpLocal, PumpOK', OutputOK', UNCHANGED events,
         pump'.at \in {"get", "publish", "dead"},
         main.at = "map" /\ pump'.at = "dead" => pump'.error # "",
         memory'.result = memory.result,
         NoCountLost', pump.processed <= pump'.processed
  PROVE  IInv'
<1>1. memory'.result <= written
  BY DEF IInv, ThreadsOK, NotWrittenBefore
<1>2. /\ TypeOK' /\ ThreadsOK'
      /\ Reached' \in {3, 4} /\ Announced <= Announced' /\ UNCHANGED <<main, written>>
  BY <1>1, PumpFrame
<1>3. written \in Nat
  BY Typed DEF IInv
<1>4. Reached <= Reached' /\ written <= written'
  <2>1. Reached = 3
    BY AliveFacts
  <2>2. Reached' \in {3, 4}
    BY <1>2
  <2>3. Reached <= Reached'
    BY <2>1, <2>2, LeqFacts, Zenon
  <2>4. written' = written
    BY <1>2
  <2>5. written <= written'
    BY <1>3, <2>4, LeqFacts, Zenon
  <2> QED
    BY <2>3, <2>5
<1> QED
  BY <1>2, <1>4, StillStep

\* The pump takes what is at the head of the queue.
LEMMA PumpGetKeeps ==
  ASSUME IInv, PumpGet
  PROVE  IInv'
<1>1. TypeOK
  BY DEF IInv
<1> DEFINE n == Head(queue)
<1>2. /\ pump.at = "get" /\ open = TRUE /\ queue # <<>> /\ queue' = Tail(queue)
      /\ PumpLocal /\ UNCHANGED <<memory, events, faults>>
  BY <1>1, Typed DEF PumpGet, Quiet
<1>3. /\ Alive /\ main.at \in {"map", "join"}
      /\ UNCHANGED <<main, batch, open, counted, sink>>
  BY <1>2 DEF Alive, PumpLocal, IInv, ThreadsOK, PumpPlace
<1>4. pump \in Pumps /\ pump.reported <= pump.processed
  BY <1>1, Typed DEF TypeOK, PumpOK
<1>5. /\ queue' \in Seq(Nat) /\ Len(queue') = Len(queue) - 1 /\ n \in Nat
      /\ Waiting > 0 => Waiting' = Waiting - 1
      /\ Waiting = 0 => n = Done /\ queue' = <<>> /\ Waiting' = 0
      /\ Len(queue) \in Nat
  BY <1>1, <1>2, Typed, WaitingOut
<1>6. Waiting \in Nat /\ Waiting \in {Len(queue), Len(queue) - 1}
  BY <1>1, Typed, WaitingFacts
<1>7. OutputOK'
  BY <1>1, <1>2 DEF TypeOK, OutputOK, PumpLocal, output
<1>8. Share' = Share
  BY <1>3 DEF Share
<1>9. counted \in 0..Total /\ Total \in Nat
  BY <1>1, Typed, RunAssumption
<1>10. CASE Waiting = 0
  <2>1. /\ pump' = [pump EXCEPT !.at = "dead"] /\ queue' = <<>> /\ Waiting' = 0
    BY <1>5, <1>10 DEF PumpGet
  <2>2. /\ pump' \in Pumps /\ pump'.at = "dead" /\ pump'.error = pump.error
    BY <1>4, <2>1 DEF Pumps
  <2>3. pump'.processed = pump.processed /\ pump'.reported = pump.reported
    BY <1>4, <2>1 DEF Pumps
  <2>4. PumpOK'
    BY <1>1, <1>3, <1>4, <1>5, <2>2, <2>3, Typed DEF PumpOK, Pumps
  <2>5. main.at # "map"
    <3>1. main.at = "map" => Waiting = Len(queue)
      BY <1>2 DEF IInv, ThreadsOK, NoCountLost
    <3>2. Len(queue) # 0
      BY <1>1, <1>2, Typed
    <3> QED
      BY <1>10, <3>1, <3>2
  <2>6. NoCountLost'
    <3>1. counted = pump.processed
      BY <1>3, <1>10, OpenFacts DEF Accounted
    <3>2. Accounted(queue', Waiting', Share', pump'.processed, counted')
      <4>1. Waiting' = 0 /\ counted' = pump'.processed
        BY <1>3, <2>1, <2>3, <3>1
      <4> QED
        BY <4>1 DEF Accounted
    <3>3. main.at = "join" /\ sink.failure = "" => counted = Total
      BY <1>2 DEF IInv, ThreadsOK, NoCountLost
    <3>4. main'.at # "map" /\ ~Alive' /\ queue' = <<>>
      BY <1>3, <2>1, <2>2, <2>5 DEF Alive
    <3> QED
      BY <1>3, <3>2, <3>3, <3>4 DEF NoCountLost
  <2>7. pump.processed <= pump'.processed
    <3>1. pump'.processed = pump.processed
      BY <2>3
    <3> QED
      BY <1>3, <3>1, AliveAnnounced
  <2> QED
    BY <1>2, <1>3, <1>7, <2>2, <2>4, <2>5, <2>6, <2>7, PumpStill
<1>11. CASE Waiting > 0
  <2>1. Waiting \in 1..Len(queue)
    BY <1>5, <1>6, <1>11
  <2> DEFINE p == pump.processed + n
  <2>2. /\ n \in 1..Share /\ p <= counted
        /\ Accounted(Tail(queue), Waiting - 1, Share, p, counted)
    BY <1>1, <1>3, <2>1, Typed, OpenFacts, ShareFacts, CountOut
  <2>3. n # Done
    BY <1>1, <2>2, ShareFacts DEF Done
  <2>4. p \in 0..Total /\ pump.processed <= p
    <3>1. pump.processed \in Nat
      BY <1>3, AliveAnnounced
    <3>2. n \in Nat /\ p <= counted
      BY <1>5, <2>2
    <3> HIDE DEF n
    <3> QED
      BY <1>9, <3>1, <3>2
  <2>5. pump' = [pump EXCEPT !.processed = p,
                   !.at = IF p - pump.reported >= Interval THEN "publish" ELSE "get"]
    BY <2>3 DEF PumpGet
  <2> HIDE DEF p
  <2>6. /\ pump' \in Pumps /\ pump'.at \in {"get", "publish"}
    BY <1>4, <2>4, <2>5 DEF Pumps
  <2>7. pump'.processed = p /\ pump'.reported = pump.reported
    BY <1>4, <2>5 DEF Pumps
  <2>8. pump'.reported <= pump'.processed
    <3>1. pump.reported \in 0..Total /\ pump.processed \in 0..Total
      BY <1>4 DEF Pumps
    <3>2. pump.reported <= pump.processed
      BY <1>4
    <3>3. p \in 0..Total /\ pump.processed <= p
      BY <2>4
    <3>4. pump.reported <= p
      BY <1>9, <3>1, <3>2, <3>3
    <3> QED
      BY <2>7, <3>4
  <2>9. PumpOK'
    BY <1>1, <1>3, <1>5, <2>6, <2>8, Typed DEF PumpOK, Pumps
  <2>10. NoCountLost'
    <3>1. Accounted(queue', Waiting', Share', pump'.processed, counted')
      BY <1>2, <1>3, <1>5, <1>8, <1>11, <2>2, <2>7
    <3>2. main.at = "map" => Waiting' = Len(queue')
      <4>1. main.at = "map" => Waiting = Len(queue)
        BY <1>2 DEF IInv, ThreadsOK, NoCountLost
      <4> QED
        BY <1>5, <1>11, <4>1
    <3>3. main.at = "join" => Waiting' < Len(queue')
      <4>1. main.at = "join" => Waiting < Len(queue)
        BY <1>2, <1>3 DEF IInv, ThreadsOK, NoCountLost
      <4> QED
        BY <1>5, <1>6, <1>11, <4>1
    <3>4. main.at = "join" /\ sink.failure = "" => counted = Total
      BY <1>2 DEF IInv, ThreadsOK, NoCountLost
    <3>5. pump'.at # "dead"
      BY <2>6
    <3> QED
      BY <1>3, <3>1, <3>2, <3>3, <3>4, <3>5 DEF NoCountLost
  <2>11. pump'.at \in {"get", "publish", "dead"} /\ pump'.at # "dead"
    BY <2>6
  <2>12. pump.processed <= pump'.processed
    BY <2>4, <2>7
  <2> QED
    BY <1>2, <1>3, <1>7, <2>9, <2>10, <2>11, <2>12, PumpStill
<1> QED
  BY <1>6, <1>10, <1>11

\* An idle pump checks the control.
LEMMA PumpIdleKeeps ==
  ASSUME IInv, PumpIdle
  PROVE  IInv'
<1>1. TypeOK
  BY DEF IInv
<1>2. /\ pump.at = "get" /\ open = TRUE /\ queue = <<>>
      /\ PumpLocal /\ UNCHANGED <<queue, events, faults>> /\ Checkpoint("PREDICT")
      /\ UNCHANGED <<main, batch, open, counted, sink>>
      /\ UNCHANGED <<appends, written, receipt>>
  BY <1>1, Typed DEF PumpIdle, Quiet, PumpLocal, output
<1>3. Alive
  BY <1>2 DEF Alive
<1>4. pump \in Pumps /\ pump.reported <= pump.processed
  BY <1>1, Typed DEF TypeOK, PumpOK
<1>5. memory' \in Memories /\ memory'.result = memory.result
  BY <1>1, <1>2, Typed, KnownPhases, CheckpointFacts
<1>6. OutputOK'
  BY <1>1, <1>2, <1>5 DEF TypeOK, OutputOK
<1>7. /\ pump' \in Pumps /\ pump'.at \in {"get", "dead"}
      /\ pump'.at = "dead" => pump'.error # ""
  <2>1. CASE pump' = pump
    BY <1>2, <1>4, <2>1
  <2>2. CASE pump' = [pump EXCEPT !.at = "dead", !.error = stop] /\ ~MayGoOn
    <3>1. stop \in StopCodes /\ stop # ""
      BY <1>1, <2>2, Typed DEF MayGoOn, NoCode
    <3> QED
      BY <1>4, <2>2, <3>1 DEF Pumps
  <2> QED
    BY <2>1, <2>2 DEF PumpIdle
<1>8. pump'.processed = pump.processed /\ pump'.reported = pump.reported
  BY <1>4 DEF PumpIdle, Pumps
<1>9. PumpOK'
  BY <1>1, <1>2, <1>4, <1>7, <1>8, Typed DEF PumpOK, Pumps
<1>10. main.at = "map"
  <2>1. main.at # "join"
    <3>1. Waiting = 0 /\ Len(queue) = 0
      BY <1>1, <1>2, Typed, WaitingFacts
    <3>2. main.at = "join" => Waiting < Len(queue)
      BY <1>2, <1>3 DEF IInv, ThreadsOK, NoCountLost
    <3> QED
      BY <3>1, <3>2
  <2> QED
    BY <1>2, <2>1 DEF IInv, ThreadsOK, PumpPlace
<1>11. NoCountLost'
  <2>1. Waiting' = Waiting /\ Share' = Share
    BY <1>2 DEF Waiting, Share
  <2>2. Accounted(queue', Waiting', Share', pump'.processed, counted')
    BY <1>2, <1>8, <1>10, <2>1, OpenFacts
  <2>3. Waiting' = Len(queue')
    BY <1>2, <1>10, <2>1 DEF IInv, ThreadsOK, NoCountLost
  <2> QED
    BY <1>2, <1>10, <2>2, <2>3 DEF NoCountLost
<1>12. pump.processed <= pump'.processed
  BY <1>3, <1>8, AliveAnnounced
<1> QED
  BY <1>2, <1>3, <1>5, <1>6, <1>7, <1>9, <1>11, <1>12, PumpStill

\* A pump whose queue is gone ends.
LEMMA PumpOrphanedKeeps ==
  ASSUME IInv, PumpOrphaned
  PROVE  IInv'
<1>1. TypeOK
  BY DEF IInv
<1>2. /\ pump.at = "get" /\ open = FALSE
      /\ PumpLocal /\ UNCHANGED <<queue, memory, events, faults>>
      /\ UNCHANGED <<main, batch, open, counted, sink>>
      /\ UNCHANGED <<appends, written, receipt>>
      /\ pump' = [pump EXCEPT !.at = "dead", !.error = "queue"]
  BY <1>1, Typed DEF PumpOrphaned, Quiet, PumpLocal, output
<1>3. Alive
  BY <1>2 DEF Alive
<1>4. pump \in Pumps /\ pump.reported <= pump.processed
  BY <1>1, Typed DEF TypeOK, PumpOK
<1>5. OutputOK'
  BY <1>1, <1>2 DEF TypeOK, OutputOK
<1>6. pump' \in Pumps /\ pump'.at = "dead" /\ pump'.error = "queue"
  BY <1>2, <1>4 DEF Pumps
<1>7. pump'.processed = pump.processed /\ pump'.reported = pump.reported
  BY <1>2, <1>4 DEF Pumps
<1>8. PumpOK'
  BY <1>1, <1>2, <1>4, <1>6, <1>7, Typed DEF PumpOK, Pumps
<1>9. NoCountLost'
  BY <1>2 DEF NoCountLost
<1>10. pump.processed <= pump'.processed
  BY <1>3, <1>7, AliveAnnounced
<1>11. memory'.result = memory.result
  BY <1>2
<1> QED
  BY <1>2, <1>3, <1>5, <1>6, <1>8, <1>9, <1>10, <1>11, PumpStill

\* The pump publishes its sum, or dies of the publication.
LEMMA PumpPublishKeeps ==
  ASSUME IInv, PumpPublish
  PROVE  IInv'
<1>1. TypeOK
  BY DEF IInv
<1>2. /\ pump.at = "publish" /\ PumpLocal
      /\ UNCHANGED <<queue, main, batch, open, counted, sink>>
      /\ UNCHANGED <<appends, written, receipt>>
  BY DEF PumpPublish, PumpLocal, output
<1>3. Alive
  BY <1>2 DEF Alive
<1>4. pump \in Pumps /\ pump.processed \in 0..Total
  BY <1>1, <1>3, Typed, AliveAnnounced
<1>5. ASSUME pump' \in Pumps, pump'.processed = pump.processed,
             main.at = "map" /\ pump'.at = "dead" => pump'.error # "",
             main.at = "join" /\ pump'.at = "dead" => pump'.error # ""
      PROVE  NoCountLost'
  <2>1. Waiting' = Waiting /\ Share' = Share
    BY <1>2 DEF Waiting, Share
  <2>2. CASE open = TRUE
    <3>1. main.at \in {"map", "join"}
      BY <2>2 DEF IInv, ThreadsOK, PumpPlace
    <3>2. Accounted(queue', Waiting', Share', pump'.processed, counted')
      BY <1>2, <1>5, <2>1, <3>1, OpenFacts
    <3>3. main.at = "map" => Waiting' = Len(queue')
      BY <1>2, <2>1, <2>2 DEF IInv, ThreadsOK, NoCountLost
    <3>4. main.at = "join" => Waiting' < Len(queue')
      BY <1>2, <1>3, <2>1, <2>2 DEF IInv, ThreadsOK, NoCountLost
    <3>5. main.at = "join" /\ sink.failure = "" => counted = Total
      BY <2>2 DEF IInv, ThreadsOK, NoCountLost
    <3> QED
      BY <1>2, <1>5, <3>2, <3>3, <3>4, <3>5 DEF NoCountLost
  <2>3. CASE open = FALSE
    BY <1>2, <2>3 DEF NoCountLost
  <2> QED
    BY <1>1, <2>2, <2>3, Typed
<1>6. pump.processed <= pump'.processed \/ pump'.processed # pump.processed
  BY <1>3, AliveAnnounced
<1> DEFINE e == Message("PROGRESS", "PREDICT", NoCode, pump.processed, 0)
<1>e. /\ e \in WireEvents /\ e.type = "PROGRESS" /\ PhaseRank(e.phase) = 3
      /\ e.processed = pump.processed /\ e.result = 0 /\ ~IsTerminal(e)
  <2>1. pump.processed \in Int
    BY <1>3, AliveAnnounced
  <2> QED
    BY <2>1, KnownPhases, Reporting, Ranks
<1>a. \/ /\ Emit(e) /\ UNCHANGED faults
         /\ pump' = [pump EXCEPT !.at = "get", !.reported = pump.processed]
      \/ /\ Unpublished(e) /\ UNCHANGED memory
         /\ pump' = [pump EXCEPT !.at = "dead", !.error = "redis"]
  BY DEF PumpPublish
<1> HIDE DEF e
<1>7. CASE /\ Emit(e) /\ UNCHANGED faults
           /\ pump' = [pump EXCEPT !.at = "get", !.reported = pump.processed]
  <2>1. pump' \in Pumps /\ pump'.at = "get"
    BY <1>4, <1>7 DEF Pumps
  <2>2. pump'.processed = pump.processed /\ pump'.reported = pump.processed
    BY <1>4, <1>7 DEF Pumps
  <2>3. pump'.reported <= pump'.processed
    BY <1>3, <2>2, AliveAnnounced
  <2>4. PumpOK'
    BY <1>1, <1>2, <2>1, <2>3, Typed DEF PumpOK, Pumps
  <2>5. NoCountLost'
    BY <1>5, <2>1, <2>2
  <2>7. /\ events' \in Seq(WireEvents) /\ memory' \in Memories
        /\ memory'.result \in {memory.result, e.result}
        /\ Closed => UNCHANGED <<events, memory>>
        /\ ~Closed => events' = Append(events, e)
    BY <1>1, <1>7, <1>e, Typed, EmitFacts
  <2>8. OutputOK'
    BY <1>1, <1>2, <1>7, <2>7 DEF TypeOK, OutputOK
  <2>9. memory'.result <= written
    <3>1. memory.result <= written /\ written \in Nat
      BY <1>1, Typed DEF IInv, ThreadsOK, NotWrittenBefore
    <3>2. e.result = 0
      BY <1>e
    <3>3. memory'.result \in {memory.result, e.result}
      BY <2>7
    <3> QED
      BY <3>1, <3>2, <3>3
  <2>10. pump'.at \in {"get", "publish", "dead"} /\ pump'.at # "dead" /\ Alive'
    BY <2>1 DEF Alive
  <2>11. pump.processed <= pump'.processed
    BY <1>6, <2>2
  <2>12. /\ TypeOK' /\ ThreadsOK' /\ Reached' = 3
         /\ Announced' = pump'.processed /\ Announced <= Announced'
         /\ UNCHANGED <<main, written>>
    BY <1>2, <1>3, <2>4, <2>5, <2>8, <2>9, <2>10, <2>11, PumpFrame
  <2>13. Reached = 3
    BY <1>3, AliveFacts
  <2>14. Reached <= Reached'
    BY <2>12, <2>13
  <2>15. written <= written' /\ 0 <= written'
    <3>1. written' = written /\ written \in Nat
      BY <1>1, <1>2, Typed
    <3> QED
      BY <3>1
  <2>16. CASE Closed
    <3>1. UNCHANGED events
      BY <2>7, <2>16
    <3> QED
      BY <2>12, <2>14, <2>15, <3>1, StillStep
  <2>17. CASE ~Closed
    <3>1. events' = Append(events, e)
      BY <2>7, <2>17
    <3>2. PhaseRank(e.phase) \in Reached..Reached'
      BY <1>e, <2>12, <2>13
    <3>3. Announced <= e.processed /\ e.processed <= Announced'
      <4>1. e.processed = pump.processed
        BY <1>e
      <4>2. Announced' = pump.processed
        BY <2>2, <2>12
      <4> QED
        BY <1>3, <4>1, <4>2, AliveAnnounced
    <3>4. e.result <= written'
      BY <1>e, <2>15
    <3>5. e.type # "COMPLETED"
      BY <1>e
    <3> QED
      BY <1>e, <2>12, <2>14, <2>15, <2>17, <3>1, <3>2, <3>3, <3>4, <3>5, GrowStep
  <2> QED
    BY <2>16, <2>17
<1>8. CASE /\ Unpublished(e) /\ UNCHANGED memory
           /\ pump' = [pump EXCEPT !.at = "dead", !.error = "redis"]
  <2>1. pump' \in Pumps /\ pump'.at = "dead" /\ pump'.error = "redis"
    BY <1>4, <1>8 DEF Pumps
  <2>2. pump'.processed = pump.processed /\ pump'.reported = pump.reported
    BY <1>4, <1>8 DEF Pumps
  <2>3. pump'.reported <= pump'.processed
    BY <1>1, <2>2 DEF TypeOK, PumpOK
  <2>4. PumpOK'
    BY <1>1, <1>2, <2>1, <2>3, Typed DEF PumpOK, Pumps
  <2>5. NoCountLost'
    BY <1>5, <2>1, <2>2
  <2>6. faults' \in Nat /\ events' \in Seq(WireEvents)
    BY <1>1, <1>8, <1>e, Typed, LostFacts
  <2>7. OutputOK'
    BY <1>1, <1>2, <1>8, <2>6 DEF TypeOK, OutputOK
  <2>8. pump.processed <= pump'.processed
    BY <1>6, <2>2
  <2>9. memory'.result <= written
    BY <1>8 DEF IInv, ThreadsOK, NotWrittenBefore
  <2>10. /\ TypeOK' /\ ThreadsOK' /\ Reached' \in {3, 4}
         /\ Announced' = pump'.processed /\ Announced <= Announced'
         /\ UNCHANGED <<main, written>>
    BY <1>2, <1>3, <2>1, <2>4, <2>5, <2>7, <2>8, <2>9, PumpFrame
  <2>11. Reached <= Reached' /\ PhaseRank(e.phase) \in Reached..Reached'
    <3>1. Reached = 3 /\ Reached' \in {3, 4} /\ PhaseRank(e.phase) = 3
      BY <1>3, <1>e, <2>10, AliveFacts
    <3> QED
      BY <3>1
  <2>12. written <= written' /\ e.result <= written'
    <3>1. written' = written /\ written \in Nat /\ e.result = 0
      BY <1>1, <1>2, <1>e, Typed
    <3> QED
      BY <3>1
  <2>13. Announced <= e.processed /\ e.processed <= Announced'
    <3>1. e.processed = pump.processed /\ Announced' = pump.processed
      BY <1>e, <2>2, <2>10
    <3> QED
      BY <1>3, <3>1, AliveAnnounced
  <2>14. e.type # "COMPLETED"
    BY <1>e
  <2> QED
    BY <1>8, <1>e, <2>10, <2>11, <2>12, <2>13, <2>14, LostStep
<1> QED
  BY <1>7, <1>8, <1>a

-----------------------------------------------------------------------------
(* After the attempt *)

Late == {"verdict", "judge", "final", "complete", "raised", "failing", "end"}

\* The bounds when the attempt is over.
LEMMA LateReach ==
  ASSUME main.at \in Late
  PROVE  Reached = IF MayComeBack \/ Alive THEN 3 ELSE 4
BY DEF Late, Reached, BeforeWrite

\* How far a run has come in its last places.
LEMMA LateReachNext ==
  ASSUME main'.at \in Late
  PROVE  Reached' = IF MayComeBack' \/ Alive' THEN 3 ELSE 4
BY DEF Late, Reached, BeforeWrite

\* In the last places the pump has announced the most.
LEMMA LateAnnounced ==
  ASSUME IInv, main.at \in Late
  PROVE  Announced = pump.processed /\ pump.processed \in Nat
<1>1. Announced = pump.processed
  BY DEF Announced, Late
<1>2. pump.processed \in 0..Total
  BY Typed DEF IInv, Pumps
<1> QED
  BY <1>1, <1>2, RunAssumption

\* The write has succeeded only where the pump is over and every row is written.
LEMMA SuccessFacts ==
  ASSUME IInv, Succeeded
  PROVE  ~Alive /\ ~MayComeBack /\ main.at \in Late
<1>1. ~Alive
  <2>1. ASSUME Alive PROVE FALSE
    BY <2>1, AliveFacts DEF Succeeded
  <2> QED
    BY <2>1
<1> QED
  BY <1>1 DEF Succeeded, MayComeBack, Late

\* A run that has succeeded has written every row that is kept, once.
LEMMA SuccessNumbers ==
  ASSUME IInv, Succeeded
  PROVE  /\ written = Kept /\ receipt = Kept /\ Kept \in Nat
         /\ Announced = Total /\ Total \in Nat
<1>1. written = Kept /\ receipt = Kept
  BY DEF IInv, ThreadsOK, SinkKnows
<1>2. pump.processed = Total
  BY DEF IInv, ThreadsOK, SinkKnows
<1>3. Announced = pump.processed
  BY SuccessFacts, LateAnnounced
<1> QED
  BY <1>1, <1>2, <1>3, RunAssumption

\* A step that only moves the main thread on, or lets it raise.
LEMMA LateFrame ==
  ASSUME IInv, main.at \in Late, After, UNCHANGED <<retries, batch>>,
         main' \in Mains, main'.at \in Late \ {"verdict"},
         main'.at = "judge" => main.at = "verdict",
         main'.at \in {"final", "complete"} => Succeeded,
         events' \in Seq(WireEvents), memory' \in Memories, memory'.result <= written,
         faults' \in Nat
  PROVE  /\ TypeOK' /\ ThreadsOK' /\ Reached <= Reached'
         /\ Announced' = Announced /\ Announced <= Announced'
         /\ written' = written /\ written <= written'
<1>1. TypeOK
  BY DEF IInv
<1>2. /\ UNCHANGED <<queue, open, counted, pump, sink, stop>>
      /\ UNCHANGED <<appends, written, receipt>>
  BY DEF After, progress, output
<1>3. MainOK'
  BY <1>1, <1>2, Typed DEF MainOK, Mains, Sinks
<1>4. PumpOK'
  BY <1>1, <1>2 DEF TypeOK, PumpOK
<1>5. OutputOK'
  BY <1>1, <1>2 DEF TypeOK, OutputOK
<1>6. open' = FALSE /\ (Alive' <=> Alive)
  BY <1>1, <1>2, Typed DEF Alive, Late, IInv, ThreadsOK, PumpPlace
<1>7. PumpPlace'
  <2>1. Alive => ~Succeeded
    BY SuccessFacts
  <2>2. Alive /\ main'.at = "judge" => sink.failure = "sink"
    BY AliveFacts
  <2> QED
    BY <1>2, <1>6, <2>1, <2>2 DEF PumpPlace, Late
<1>8. NoCountLost'
  BY <1>6 DEF NoCountLost
<1>9. Succeeded' => Succeeded
  BY <1>2 DEF Succeeded, Late
<1>10. SinkKnows'
  <2>1. main'.at \notin {"sink", "map", "gate", "almost", "write"}
    BY DEF Late
  <2>2. Succeeded' => /\ sink'.processed = Total /\ pump'.processed = Total
                      /\ written' = Kept /\ receipt' = Kept
    BY <1>2, <1>9 DEF IInv, ThreadsOK, SinkKnows
  <2> QED
    BY <2>1, <2>2 DEF SinkKnows
<1>11. MayComeBack' => MayComeBack
  BY <1>2 DEF MayComeBack, Late
<1>12. NotWrittenBefore'
  <2>1. BeforeWrite' => BeforeWrite
    BY <1>11 DEF BeforeWrite, Late
  <2>2. main'.at # "load"
    BY DEF Late
  <2>3. /\ BeforeWrite => appends = 0
        /\ appends = 0 => written = 0 /\ receipt = 0
        /\ receipt <= written
    BY DEF IInv, ThreadsOK, NotWrittenBefore
  <2> QED
    BY <1>2, <2>1, <2>2, <2>3 DEF NotWrittenBefore
<1>13. Reached <= Reached'
  <2>1. Reached = IF MayComeBack \/ Alive THEN 3 ELSE 4
    BY LateReach
  <2>2. Reached' = IF MayComeBack' \/ Alive' THEN 3 ELSE 4
    BY LateReachNext DEF Late
  <2> DEFINE one == MayComeBack \/ Alive
             two == MayComeBack' \/ Alive'
  <2>3. two => one
    BY <1>6, <1>11
  <2>4. \A n, m : n \in {3, 4} /\ (m = 4 \/ (n = 3 /\ m = 3)) => n <= m
    OBVIOUS
  <2>5. Reached \in {3, 4} /\ (Reached' = 4 \/ (Reached = 3 /\ Reached' = 3))
    <3> HIDE DEF one, two
    <3>1. Reached = (IF one THEN 3 ELSE 4) /\ Reached' = (IF two THEN 3 ELSE 4)
      BY <2>1, <2>2 DEF one, two
    <3> QED
      BY <2>3, <3>1, Zenon
  <2> QED
    BY <2>4, <2>5, Zenon
<1>14. Announced' = Announced
  BY <1>2 DEF Announced, Late
<1>15. Announced <= Announced' /\ written' = written /\ written <= written'
  <2>1. Announced \in Nat /\ written \in Nat
    BY <1>1, LateAnnounced, Typed
  <2> QED
    BY <1>2, <1>14, <2>1, LeqFacts, Zenon
<1> QED
  BY <1>3, <1>4, <1>5, <1>7, <1>8, <1>10, <1>12, <1>13, <1>14, <1>15
     DEF TypeOK, ThreadsOK

\* Such a step, when it publishes nothing.
LEMMA LateStill ==
  ASSUME IInv, main.at \in Late \ {"end"}, After, UNCHANGED <<retries, batch>>,
         main' \in Mains, main'.at \in Late \ {"verdict"},
         main'.at = "judge" => main.at = "verdict",
         main'.at \in {"final", "complete"} => Succeeded,
         main.at = "failing" => main'.at = "end",
         UNCHANGED events, memory' \in Memories, memory'.result = memory.result,
         faults' \in Nat
  PROVE  IInv'
<1>1. memory'.result <= written
  BY DEF IInv, ThreadsOK, NotWrittenBefore
<1>2. events' \in Seq(WireEvents)
  BY Typed DEF IInv
<1>3. /\ TypeOK' /\ ThreadsOK' /\ Reached <= Reached' /\ Announced <= Announced'
      /\ written' = written /\ written <= written'
  BY <1>1, <1>2, LateFrame
<1> QED
  BY <1>3, StillStep DEF Late

\* A late publication that raises ends the run.
LEMMA LateLost ==
  ASSUME IInv, main.at \in Late \ {"end"}, After, UNCHANGED <<retries, batch, memory>>,
         main' \in Mains, main'.at \in {"failing", "end"},
         main.at = "failing" => main'.at = "end",
         NEW e \in WireEvents, Unpublished(e), e.result <= written,
         ~IsTerminal(e) => PhaseRank(e.phase) = 4 /\ Reached = 4,
         e.type = "PROGRESS" => e.processed = Announced,
         e.type = "COMPLETED" => e.processed = Total /\ e.result = Kept /\ written = Kept
  PROVE  IInv'
<1>1. TypeOK
  BY DEF IInv
<1>2. faults' \in Nat /\ events' \in Seq(WireEvents)
  BY <1>1, Typed, LostFacts
<1>3. memory' \in Memories /\ memory'.result <= written
  BY <1>1, Typed DEF IInv, ThreadsOK, NotWrittenBefore
<1>4. /\ TypeOK' /\ ThreadsOK' /\ Reached <= Reached'
      /\ Announced' = Announced /\ Announced <= Announced'
      /\ written' = written /\ written <= written'
  BY <1>2, <1>3, LateFrame DEF Late
<1>5. ~IsTerminal(e) => PhaseRank(e.phase) \in Reached..Reached'
  <2>1. Reached' \in 0..4
    BY <1>4, NextBounds DEF TypeOK
  <2> QED
    BY <1>4, <2>1
<1>6. e.type = "PROGRESS" => Announced <= e.processed /\ e.processed <= Announced'
  BY <1>4
<1> QED
  BY <1>4, <1>5, <1>6, LostStep

\* What the sink has raised comes to the surface.
LEMMA SurfaceKeeps ==
  ASSUME IInv, Surface
  PROVE  IInv'
<1>1. TypeOK
  BY DEF IInv
<1>2. /\ main.at = "verdict" /\ After
      /\ UNCHANGED <<retries, batch, events, faults>>
  BY DEF Surface, Quiet
<1>3. faults' \in Nat
  BY <1>1, <1>2, Typed
<1>4. /\ main' \in Mains /\ main'.at \in {"raised", "judge"}
      /\ memory' \in Memories /\ memory'.result = memory.result
  <2>1. CASE /\ Raise("raised", sink.control.code, sink.control.phase)
             /\ UNCHANGED memory
    <3>1. sink.control \in [code : StopCodes \cup {NoCode}, phase : Phases]
      BY <1>1, Typed DEF Sinks
    <3>2. sink.control.code \in Codes /\ sink.control.phase \in Phases
      BY <3>1, KnownCodes DEF Codes
    <3>3. "raised" \in Places
      BY DEF Places
    <3>4. main' \in Mains /\ main'.at = "raised"
      BY <2>1, <3>2, <3>3, RaiseFacts
    <3> QED
      BY <1>1, <2>1, <3>4, Typed
  <2>2. CASE Checkpoint("WRITE_RESULT") /\ (Goto("judge") \/ RaiseControl("WRITE_RESULT"))
    <3>1. memory' \in Memories /\ memory'.result = memory.result
      BY <1>1, <2>2, Typed, KnownPhases, CheckpointFacts
    <3>2. Goto("judge") => main' \in Mains /\ main'.at = "judge"
      BY <1>1, Typed, GotoFacts DEF Places
    <3>3. RaiseControl("WRITE_RESULT") => main' \in Mains /\ main'.at = "raised"
      BY <1>1, Typed, KnownPhases, KnownCodes, ControlFacts
    <3> QED
      BY <2>2, <3>1, <3>2, <3>3
  <2> QED
    BY <2>1, <2>2 DEF Surface
<1> QED
  BY <1>2, <1>3, <1>4, LateStill DEF Late

\* The outcome of an attempt is judged.
LEMMA JudgeKeeps ==
  ASSUME IInv, Judge
  PROVE  IInv'
<1>1. TypeOK
  BY DEF IInv
<1>2. /\ main.at = "judge" /\ After
      /\ UNCHANGED <<retries, batch, memory, events, faults>>
  BY DEF Judge, Quiet
<1>3. faults' \in Nat /\ memory' \in Memories /\ memory'.result = memory.result
  BY <1>1, <1>2, Typed
<1>4. /\ main' \in Mains /\ main'.at \in {"final", "failing"}
      /\ main'.at = "final" => Succeeded
  <2>1. CASE sink.failure = "" /\ Goto("final")
    BY <1>1, <1>2, <2>1, Typed, GotoFacts DEF Places, Succeeded
  <2>2. CASE RaiseFailure(FailureOf(sink.failure).code, FailureOf(sink.failure).phase)
    <3>1. /\ FailureOf(sink.failure).code \in
               {"INPUT_QUERY_FAILED", "RESULT_WRITE_FAILED", "PREDICTION_FAILED"}
          /\ FailureOf(sink.failure).phase \in {"READ_INPUT", "WRITE_RESULT", "PREDICT"}
      BY DEF FailureOf
    <3>2. /\ FailureOf(sink.failure).code \in Codes
          /\ FailureOf(sink.failure).phase \in Phases
      BY <3>1, KnownCodes, KnownPhases
    <3> QED
      BY <2>2, <3>2, FailureFacts
  <2> QED
    BY <2>1, <2>2 DEF Judge
<1> QED
  BY <1>2, <1>3, <1>4, LateStill DEF Late

\* The last progress before the outcome is exact.
LEMMA FinalProgressKeeps ==
  ASSUME IInv, FinalProgress
  PROVE  IInv'
<1>1. TypeOK
  BY DEF IInv
<1>2. main.at = "final" /\ After /\ UNCHANGED <<retries, batch>>
  BY DEF FinalProgress
<1>3. Succeeded
  BY <1>2 DEF Succeeded
<1> DEFINE e == Message("PROGRESS", "WRITE_RESULT", NoCode, sink.processed, receipt)
<1>e. /\ e \in WireEvents /\ e.type = "PROGRESS" /\ PhaseRank(e.phase) = 4
      /\ e.processed = Total /\ e.result = Kept /\ ~IsTerminal(e)
  <2>1. sink.processed = Total
    BY <1>3 DEF IInv, ThreadsOK, SinkKnows
  <2>2. Total \in Int /\ receipt \in Nat /\ receipt = Kept
    BY <1>3, SuccessNumbers
  <2> QED
    BY <2>1, <2>2, KnownPhases, Reporting, Ranks
<1>a. Publish(e, "complete")
  BY DEF FinalProgress
<1>b. Reached = 4
  BY <1>2, <1>3, SuccessFacts DEF Reached, BeforeWrite, MayComeBack
<1> HIDE DEF e
<1>4. CASE Emit(e) /\ Goto("complete") /\ UNCHANGED faults
  <2>1. main' \in Mains /\ main'.at = "complete"
    BY <1>1, <1>4, Typed, GotoFacts DEF Places
  <2>3. ~Closed
    BY <1>1, <1>2, OpenBeforeTheEnd DEF IInv, EventsOK, TypeOK
  <2>4. /\ events' = Append(events, e) /\ events' \in Seq(WireEvents)
        /\ memory' \in Memories /\ memory'.result \in {memory.result, e.result}
    BY <1>1, <1>4, <1>e, <2>3, Typed, EmitFacts
  <2>5. memory'.result <= written
    <3>1. memory.result <= written
      BY DEF IInv, ThreadsOK, NotWrittenBefore
    <3>2. e.result = Kept
      BY <1>e
    <3>3. memory'.result \in {memory.result, e.result}
      BY <2>4
    <3> QED
      BY <1>3, <3>1, <3>2, <3>3, SuccessNumbers
  <2>6. faults' \in Nat
    BY <1>1, <1>4, Typed
  <2>7. /\ TypeOK' /\ ThreadsOK' /\ Reached <= Reached'
        /\ Announced' = Announced /\ Announced <= Announced'
        /\ written' = written /\ written <= written'
    BY <1>2, <1>3, <2>1, <2>4, <2>5, <2>6, LateFrame DEF Late
  <2>8. Reached = 4 /\ Reached' = 4
    <3>1. ~Alive /\ ~Alive'
      BY <1>2, <1>3, SuccessFacts DEF Alive, After, progress
    <3>2. Reached = 4
      BY <1>2, <3>1 DEF Reached, BeforeWrite, MayComeBack
    <3>3. Reached' = 4
      BY <2>1, <3>1 DEF Reached, BeforeWrite, MayComeBack
    <3> QED
      BY <3>2, <3>3
  <2>9. PhaseRank(e.phase) \in Reached..Reached'
    BY <1>e, <2>8
  <2>10. Announced <= e.processed /\ e.processed <= Announced' /\ e.result <= written'
    <3>1. e.processed = Total
      BY <1>e
    <3>2. e.result = Kept
      BY <1>e
    <3>3. Announced' = Announced /\ written' = written
      BY <2>7
    <3> QED
      BY <1>3, <3>1, <3>2, <3>3, SuccessNumbers
  <2>11. e.type # "COMPLETED"
    BY <1>e
  <2> QED
    BY <1>e, <2>3, <2>4, <2>7, <2>9, <2>10, <2>11, GrowStep
<1>5. CASE Unpublished(e) /\ UNCHANGED memory /\ RaiseRedis
  <2>1. main' \in Mains /\ main'.at = "failing"
    BY <1>1, <1>5, Typed, RedisFacts
  <2>2. e.result <= written /\ e.processed = Announced /\ e.type # "COMPLETED"
    <3>1. e.result = Kept /\ e.processed = Total /\ e.type # "COMPLETED"
      BY <1>e
    <3> QED
      BY <1>3, <3>1, SuccessNumbers
  <2> QED
    BY <1>2, <1>5, <1>e, <1>b, <2>1, <2>2, LateLost DEF Late
<1> QED
  BY <1>4, <1>5, <1>a DEF Publish

\* What the outcome of a completed run says is what was written.
LEMMA CompleteKeeps ==
  ASSUME IInv, Complete
  PROVE  IInv'
<1>1. TypeOK
  BY DEF IInv
<1>2. main.at = "complete" /\ After /\ UNCHANGED <<retries, batch>>
  BY DEF Complete
<1>3. Succeeded
  BY <1>2 DEF Succeeded
<1> DEFINE e == Message("COMPLETED", "COMPLETED", NoCode, sink.processed, receipt)
<1>e. /\ e \in WireEvents /\ IsTerminal(e) /\ e.type = "COMPLETED"
      /\ e.processed = Total /\ e.result = Kept
  <2>1. sink.processed = Total
    BY <1>3 DEF IInv, ThreadsOK, SinkKnows
  <2>2. Total \in Int /\ receipt \in Nat /\ receipt = Kept
    BY <1>3, SuccessNumbers
  <2>3. memory.phase \in ProtocolPhases(op)
    BY <1>1, Typed DEF Memories
  <2>4. "COMPLETED" \in TerminalTypes /\ "COMPLETED" \in PhaseArgs(op)
    BY DEF TerminalTypes, PhaseArgs, BrokerPhases
  <2> QED
    BY <2>1, <2>2, <2>3, <2>4, Outcomes
<1>a. \/ Publish(e, "end")
      \/ RaiseControl(memory.phase) /\ UNCHANGED memory /\ Quiet
  BY DEF Complete
<1> HIDE DEF e
<1>4. CASE Emit(e) /\ Goto("end") /\ UNCHANGED faults
  <2>1. main' \in Mains /\ main'.at = "end"
    BY <1>1, <1>4, Typed, GotoFacts DEF Places
  <2>3. ~Closed
    BY <1>1, <1>2, OpenBeforeTheEnd DEF IInv, EventsOK, TypeOK
  <2>4. /\ events' = Append(events, e) /\ events' \in Seq(WireEvents)
        /\ memory' \in Memories /\ memory'.result \in {memory.result, e.result}
    BY <1>1, <1>4, <1>e, <2>3, Typed, EmitFacts
  <2>5. memory'.result <= written
    <3>1. memory.result <= written
      BY DEF IInv, ThreadsOK, NotWrittenBefore
    <3>2. e.result = Kept
      BY <1>e
    <3>3. memory'.result \in {memory.result, e.result}
      BY <2>4
    <3> QED
      BY <1>3, <3>1, <3>2, <3>3, SuccessNumbers
  <2>6. faults' \in Nat
    BY <1>1, <1>4, Typed
  <2>7. /\ TypeOK' /\ ThreadsOK' /\ Reached <= Reached'
        /\ Announced' = Announced /\ Announced <= Announced'
        /\ written' = written /\ written <= written'
    BY <1>2, <2>1, <2>4, <2>5, <2>6, LateFrame DEF Late
  <2>8. e.result <= written' /\ written' = Kept
    <3>1. e.result = Kept
      BY <1>e
    <3>2. written' = written
      BY <2>7
    <3> QED
      BY <1>3, <3>1, <3>2, SuccessNumbers
  <2>9. e.type # "PROGRESS"
    BY <1>e
  <2> QED
    BY <2>1, <1>e, <2>3, <2>4, <2>7, <2>8, <2>9, GrowStep
<1>5. CASE Unpublished(e) /\ UNCHANGED memory /\ RaiseRedis
  <2>1. main' \in Mains /\ main'.at = "failing"
    BY <1>1, <1>5, Typed, RedisFacts
  <2>2. e.result <= written /\ written = Kept /\ e.type # "PROGRESS"
    <3>1. e.result = Kept /\ e.type # "PROGRESS"
      BY <1>e
    <3> QED
      BY <1>3, <3>1, SuccessNumbers
  <2> QED
    BY <1>2, <1>5, <1>e, <2>1, <2>2, LateLost DEF Late
<1>6. CASE RaiseControl(memory.phase) /\ UNCHANGED memory /\ Quiet
  <2>1. memory.phase \in Phases
    BY <1>1, Typed, KnownCodes DEF Memories
  <2>2. main' \in Mains /\ main'.at = "raised"
    BY <1>1, <1>6, <2>1, Typed, ControlFacts
  <2>3. /\ UNCHANGED events /\ faults' \in Nat
        /\ memory' \in Memories /\ memory'.result = memory.result
    BY <1>1, <1>6, Typed DEF Quiet
  <2> QED
    BY <1>2, <2>2, <2>3, LateStill DEF Late
<1> QED
  BY <1>4, <1>5, <1>6, <1>a DEF Publish

\* A failure or a cancellation carries the counts the reporter remembers.
LEMMA ReportKeeps ==
  ASSUME IInv, Report
  PROVE  IInv'
<1>1. TypeOK
  BY DEF IInv
<1> DEFINE call == IF main.at = "raised" /\ main.code = "CANCELLED" THEN "CANCELLED"
                   ELSE "FAILED"
           code == IF call = "FAILED" THEN ErrorCode(op, main.code, main.phase) ELSE NoCode
           e == Message(call, main.phase, code, memory.processed, memory.result)
<1>2. /\ main.at \in {"raised", "failing"} /\ After /\ UNCHANGED <<retries, batch>>
      /\ Goto("end")
  BY DEF Report
<1>3. main' \in Mains /\ main'.at = "end"
  BY <1>1, <1>2, Typed, GotoFacts DEF Places
<1>e. /\ e \in WireEvents /\ IsTerminal(e) /\ e.type = call
      /\ e.result = memory.result
  <2>1. call \in TerminalTypes
    BY DEF TerminalTypes
  <2>2. code \in ProtocolCodes(op) \cup {NoCode}
    BY ErrorCodeListed
  <2>3. main.phase \in PhaseArgs(op) \cup {NoPhase}
    BY <1>1, Typed DEF Mains, Phases, PhaseArgs
  <2>4. /\ memory.phase \in ProtocolPhases(op)
        /\ memory.processed \in Int /\ memory.result \in Nat
    BY <1>1, Typed DEF Memories
  <2> HIDE DEF call, code
  <2> QED
    BY <2>1, <2>2, <2>3, <2>4, Outcomes
<1>t. e.type # "PROGRESS" /\ e.type # "COMPLETED"
  BY <1>e
<1>a. (Emit(e) /\ UNCHANGED faults) \/ (Unpublished(e) /\ UNCHANGED memory)
  BY DEF Report
<1> HIDE DEF e, call, code
<1>b. memory' \in Memories /\ memory'.result = memory.result
  BY <1>1, <1>a, <1>e, Typed, EmitFacts
<1>c. memory.result <= written
  BY DEF IInv, ThreadsOK, NotWrittenBefore
<1>3a. CASE Emit(e) /\ UNCHANGED faults /\ Closed
  <2>1. UNCHANGED events /\ faults' \in Nat
    BY <1>1, <1>3a, <1>e, Typed, EmitFacts
  <2> QED
    BY <1>2, <1>3, <1>b, <2>1, LateStill DEF Late
<1>4. CASE Emit(e) /\ UNCHANGED faults /\ ~Closed
  <2>1. events' = Append(events, e) /\ events' \in Seq(WireEvents) /\ faults' \in Nat
    BY <1>1, <1>4, <1>e, Typed, EmitFacts
  <2>2. memory'.result <= written
    BY <1>b, <1>c
  <2>3. /\ TypeOK' /\ ThreadsOK' /\ Reached <= Reached'
        /\ Announced <= Announced' /\ written' = written /\ written <= written'
    BY <1>2, <1>3, <1>b, <2>1, <2>2, LateFrame DEF Late
  <2>4. e.result <= written'
    BY <1>c, <1>e, <2>3
  <2> QED
    BY <1>3, <1>4, <1>e, <1>t, <2>1, <2>3, <2>4, GrowStep
<1>5. CASE Unpublished(e) /\ UNCHANGED memory
  <2>1. e.result <= written
    BY <1>c, <1>e
  <2> QED
    BY <1>2, <1>3, <1>5, <1>e, <1>t, <2>1, LateLost DEF Late
<1> QED
  BY <1>3a, <1>4, <1>5, <1>a

-----------------------------------------------------------------------------
(* Another attempt *)

\* Half of a batch of more than one row is a batch.
LEMMA Halved ==
  ASSUME TypeOK, batch > 1
  PROVE  GreaterOf(1, batch \div 2) \in 1..BatchSize
<1>1. batch \in 1..BatchSize /\ BatchSize \in Nat
  BY Typed, RunAssumption
<1>2. batch \in Nat
  BY <1>1
<1>3. batch \div 2 \in Nat /\ batch \div 2 <= batch
  BY <1>2
<1> QED
  BY <1>1, <1>3 DEF GreaterOf

\* A retry is announced by a LOG event, so the counts may start again.
LEMMA RetryKeeps ==
  ASSUME IInv, Retry
  PROVE  IInv'
<1>1. TypeOK
  BY DEF IInv
<1>2. /\ main.at = "judge" /\ sink.failure = "memory" /\ After
      /\ UNCHANGED <<queue, open, counted, pump, sink, stop>>
      /\ UNCHANGED <<appends, written, receipt>>
  BY DEF Retry, MayRetry, After, progress, output
<1>3. retries' \in 0..MaxRetries /\ batch' \in 1..BatchSize
  <2>1. batch' \in 1..BatchSize
    BY <1>1, Halved DEF Retry, MayRetry
  <2>2. retries \in 0..MaxRetries /\ MaxRetries \in Nat
    BY <1>1, Typed, RunAssumption
  <2>3. retries < MaxRetries /\ retries' = retries + 1
    BY DEF Retry, MayRetry
  <2>4. retries' \in 0..MaxRetries
    BY <2>2, <2>3
  <2> QED
    BY <2>1, <2>4
<1>4. MayComeBack /\ ~Alive
  <2>1. ASSUME Alive PROVE FALSE
    BY <1>2, <2>1, AliveFacts
  <2> QED
    BY <1>2, <2>1 DEF MayComeBack
<1>5. Reached = 3 /\ ~Closed
  <2>1. Reached = 3
    BY <1>2, <1>4, LateReach DEF Late
  <2>2. ~Closed
    BY <1>1, <1>2, OpenBeforeTheEnd DEF IInv, EventsOK, TypeOK
  <2> QED
    BY <2>1, <2>2
<1>6. appends' = 0 /\ written' = 0 /\ receipt' = 0
  BY <1>2, <1>4 DEF IInv, ThreadsOK, NotWrittenBefore, BeforeWrite
<1>7. written = 0 /\ memory.result <= written /\ memory.result \in Nat
  <2>1. memory.result \in Nat
    BY <1>1, Typed DEF Memories
  <2> QED
    BY <1>2, <1>6, <2>1 DEF IInv, ThreadsOK, NotWrittenBefore
<1>8. memory.result = 0
  BY <1>7
<1>9. open' = FALSE /\ ~Alive'
  BY <1>1, <1>2, <1>4, Typed DEF Alive, IInv, ThreadsOK, PumpPlace
<1>10. PumpOK'
  BY <1>1, <1>2 DEF TypeOK, PumpOK
<1>11. ASSUME main' \in Mains, main'.at \in {"attempt", "failing"},
              events' \in Seq(WireEvents), memory' \in Memories, memory'.result = 0,
              faults' \in Nat
       PROVE  TypeOK' /\ ThreadsOK'
  <2>1. MainOK'
    BY <1>1, <1>2, <1>3, <1>11, Typed DEF MainOK, Mains, Sinks
  <2>2. OutputOK'
    BY <1>1, <1>2, <1>11 DEF TypeOK, OutputOK
  <2>3. PumpPlace' /\ NoCountLost'
    BY <1>9, <1>11 DEF PumpPlace, NoCountLost
  <2>4. SinkKnows'
    BY <1>11 DEF SinkKnows, Succeeded
  <2>5. NotWrittenBefore'
    <3>1. main'.at # "load"
      BY <1>11
    <3>2. memory'.result <= written' /\ receipt' <= written'
      BY <1>6, <1>11
    <3> QED
      BY <1>6, <3>1, <3>2 DEF NotWrittenBefore
  <2> QED
    BY <1>10, <2>1, <2>2, <2>3, <2>4, <2>5 DEF TypeOK, ThreadsOK
<1> DEFINE e == Message("LOG", "PREDICT", NoCode, 0, 0)
<1>e. /\ e \in WireEvents /\ e.type = "LOG" /\ PhaseRank(e.phase) = 3
      /\ e.result = 0 /\ ~IsTerminal(e)
  BY KnownPhases, Reporting, Ranks
<1>a. Publish(e, "attempt")
  BY DEF Retry
<1> HIDE DEF e
<1>12. CASE Emit(e) /\ Goto("attempt") /\ UNCHANGED faults
  <2>1. main' \in Mains /\ main'.at = "attempt"
    BY <1>1, <1>12, Typed, GotoFacts DEF Places
  <2>3. /\ events' = Append(events, e) /\ events' \in Seq(WireEvents)
        /\ memory' \in Memories /\ memory'.result \in {memory.result, e.result}
    BY <1>1, <1>5, <1>12, <1>e, Typed, EmitFacts
  <2>4. memory'.result = 0
    BY <1>8, <1>e, <2>3
  <2>5. faults' \in Nat
    BY <1>1, <1>12, Typed
  <2>6. TypeOK' /\ ThreadsOK'
    BY <1>11, <2>1, <2>3, <2>4, <2>5
  <2>7. Reached' = 3
    BY <2>1 DEF Reached, BeforeWrite
  <2>8. PhaseRank(e.phase) \in Reached..Reached'
    BY <1>5, <1>e, <2>7
  <2>9. Reached <= Reached' /\ written <= written'
    BY <1>5, <1>6, <1>7, <2>7
  <2>10. e.result <= written'
    BY <1>6, <1>e
  <2>11. e.type # "PROGRESS" /\ e.type # "COMPLETED"
    BY <1>e
  <2> QED
    BY <1>5, <1>e, <2>3, <2>6, <2>8, <2>9, <2>10, <2>11, GrowStep
<1>13. CASE Unpublished(e) /\ UNCHANGED memory /\ RaiseRedis
  <2>1. main' \in Mains /\ main'.at = "failing"
    BY <1>1, <1>13, Typed, RedisFacts
  <2>2. faults' \in Nat /\ events' \in Seq(WireEvents)
    BY <1>1, <1>13, <1>e, Typed, LostFacts
  <2>3. TypeOK' /\ ThreadsOK'
    <3>1. memory' \in Memories /\ memory'.result = 0
      BY <1>1, <1>8, <1>13, Typed
    <3> QED
      BY <1>11, <2>1, <2>2, <3>1
  <2>4. Reached' = 4
    BY <1>9, <2>1 DEF Reached, BeforeWrite, MayComeBack
  <2>5. Announced <= Announced'
    <3>1. Announced = pump.processed /\ pump.processed \in Nat
      BY <1>2, LateAnnounced DEF Late
    <3>2. Announced' = pump.processed
      BY <1>2, <2>1 DEF Announced
    <3> QED
      BY <3>1, <3>2
  <2>6. Reached <= Reached' /\ written <= written'
    BY <1>5, <1>6, <1>7, <2>4
  <2>7. main.at \notin {"failing", "end"}
    BY <1>2
  <2>8. PhaseRank(e.phase) \in Reached..Reached'
    BY <1>5, <1>e, <2>4
  <2>9. e.result <= written' /\ e.type # "PROGRESS" /\ e.type # "COMPLETED"
    BY <1>6, <1>e
  <2> QED
    BY <1>13, <1>e, <2>3, <2>5, <2>6, <2>7, <2>8, <2>9, LostStep
<1> QED
  BY <1>12, <1>13, <1>a DEF Publish

-----------------------------------------------------------------------------
(* Every step *)

\* The run is asked to stop.
LEMMA RequestStopKeeps ==
  ASSUME IInv, RequestStop
  PROVE  IInv'
<1>1. TypeOK
  BY DEF IInv
<1>2. /\ UNCHANGED <<main, retries, batch, queue, open, counted, pump, sink, events, memory,
                     appends, written, receipt, faults>>
      /\ stop' \in StopCodes
  BY DEF RequestStop, progress, output, StopCodes
<1>3. TypeOK'
  BY <1>2 DEF IInv, TypeOK, MainOK, PumpOK, OutputOK
<1>4. PumpPlace' /\ SinkKnows' /\ NotWrittenBefore'
  BY <1>2 DEF IInv, ThreadsOK, PumpPlace, SinkKnows, NotWrittenBefore, Alive, Succeeded,
              BeforeWrite, MayComeBack
<1>5. NoCountLost'
  <2>1. Waiting' = Waiting /\ Share' = Share
    BY <1>2 DEF Waiting, Share
  <2>2. Accounted(queue, Waiting, Share, pump.processed, counted)
          <=> Accounted(queue', Waiting', Share', pump'.processed, counted')
    BY <1>2, <2>1
  <2> QED
    BY <1>2, <2>1, <2>2 DEF IInv, ThreadsOK, NoCountLost, Alive
<1>6. Reached' = Reached /\ Announced' = Announced
  BY <1>2 DEF Reached, BeforeWrite, MayComeBack, Alive, Announced
<1>7. Reached \in 0..4 /\ Announced \in 0..Total /\ written \in Nat
  BY <1>1, Bounds, Typed DEF TypeOK
<1>8. Reached <= Reached' /\ Announced <= Announced' /\ written <= written'
  BY <1>2, <1>6, <1>7, RunAssumption
<1> QED
  BY <1>2, <1>3, <1>4, <1>5, <1>8, StillStep DEF ThreadsOK

\* The run starts in the invariant.
LEMMA InitIInv ==
  ASSUME Init
  PROVE  IInv
<1>0. Total \in Nat /\ 0 \in 0..Total /\ batch \in 1..BatchSize /\ retries \in 0..MaxRetries
  BY RunAssumption DEF Init
<1>1. main \in Mains /\ main.at = "load"
  BY DEF Init, Mains, Places, Codes, Phases
<1>2. MainOK
  <2>1. sink \in Sinks
    BY FreshFacts DEF Init
  <2> QED
    BY <1>0, <1>1, <2>1 DEF Init, MainOK, Mains, Sinks
<1>3. pump \in Pumps /\ pump.at = "off"
  <2> DEFINE rows == 0..Total
             errors == {"", "redis", "queue"} \cup StopCodes
  <2>1. 0 \in rows /\ "" \in errors
    BY <1>0
  <2> HIDE DEF rows, errors
  <2>2. NoPump \in [at : {"off", "get", "publish", "dead"}, processed : rows,
                    reported : rows, error : errors]
    BY <2>1 DEF NoPump
  <2>3. NoPump \in Pumps
    BY <2>2 DEF Pumps, rows, errors
  <2> QED
    BY <2>3 DEF Init, NoPump
<1>4. pump.reported = 0
  BY DEF Init, NoPump
<1>5. pump.processed = 0
  BY DEF Init, NoPump
<1>6. PumpOK
  <2>1. pump.reported <= pump.processed
    BY <1>4, <1>5
  <2>2. queue = <<>> /\ open = FALSE /\ counted = 0
    BY DEF Init
  <2>3. queue \in Seq(Nat) /\ open \in BOOLEAN
    <3>1. queue = <<>>
      BY <2>2
    <3>2. <<>> \in Seq(Nat)
      OBVIOUS
    <3>3. open \in BOOLEAN
      BY <2>2
    <3> QED
      BY <3>1, <3>2, <3>3
  <2>4. counted \in 0..Total
    BY <1>0, <2>2
  <2> QED
    BY <1>3, <2>1, <2>3, <2>4 DEF PumpOK, Pumps
<1>7. memory \in Memories /\ memory.result = 0 /\ memory.processed = 0
  BY KnownPhases DEF Init, Memories
<1>8. events = <<>> /\ Len(events) = 0 /\ events \in Seq(WireEvents)
  BY DEF Init
<1>9. OutputOK
  BY <1>7, <1>8 DEF Init, OutputOK
<1>10. PumpPlace /\ NoCountLost
  BY <1>1, <1>3 DEF Init, PumpPlace, NoCountLost, Alive
<1>11. SinkKnows
  BY <1>1 DEF SinkKnows, Succeeded
<1>12. NotWrittenBefore
  BY <1>7 DEF Init, NotWrittenBefore
<1>13. \A i \in 1..Len(events) : FALSE
  BY <1>8
<1>14. EventsOK
  BY <1>13 DEF EventsOK, OutcomeIsLast, PhasesReached, RowsAnnounced, CompletedSays,
               ResultRowsNotOverstated, PhasesMoveForward, ProgressGoesForward
<1> QED
  BY <1>2, <1>6, <1>9, <1>10, <1>11, <1>12, <1>14 DEF IInv, TypeOK, ThreadsOK

\* Every step keeps the invariant.
LEMMA NextIInv ==
  ASSUME IInv, [Next]_vars
  PROVE  IInv'
<1>1. CASE UNCHANGED vars
  <2>1. /\ UNCHANGED <<main, retries, batch, queue, open, counted, pump, sink, events, memory,
                       stop, appends, written, receipt, faults>>
    BY <1>1 DEF vars, progress, output
  <2>2. Reached' = Reached /\ Announced' = Announced /\ Waiting' = Waiting /\ Share' = Share
    BY <2>1 DEF Reached, BeforeWrite, MayComeBack, Alive, Announced, Waiting, Share
  <2>3. TypeOK'
    BY <2>1 DEF IInv, TypeOK, MainOK, PumpOK, OutputOK
  <2>4. PumpPlace' /\ SinkKnows' /\ NotWrittenBefore'
    BY <2>1 DEF IInv, ThreadsOK, PumpPlace, SinkKnows, NotWrittenBefore, Alive, Succeeded,
                BeforeWrite, MayComeBack
  <2>5. NoCountLost'
    <3>1. Accounted(queue, Waiting, Share, pump.processed, counted)
            <=> Accounted(queue', Waiting', Share', pump'.processed, counted')
      BY <2>1, <2>2
    <3> QED
      BY <2>1, <2>2, <3>1 DEF IInv, ThreadsOK, NoCountLost, Alive
  <2>6. Reached \in 0..4 /\ Announced \in 0..Total /\ written \in Nat
    BY Bounds, Typed DEF IInv, TypeOK
  <2>7. Reached <= Reached' /\ Announced <= Announced' /\ written <= written'
    BY <2>1, <2>2, <2>6, RunAssumption
  <2> QED
    BY <2>1, <2>3, <2>4, <2>5, <2>7, StillStep DEF ThreadsOK
<1>2. CASE RequestStop
  BY <1>2, RequestStopKeeps
<1>3. CASE Load \/ Build \/ Prepare \/ Measure \/ Started \/ FirstProgress
  BY <1>3, LoadKeeps, BuildKeeps, PrepareKeeps, MeasureKeeps, StartedKeeps,
     FirstProgressKeeps
<1>4. CASE Attempt \/ OpenSink \/ PredictBatch \/ CloseProgress \/ Join \/ JoinTimeout
  BY <1>4, AttemptKeeps, OpenSinkKeeps, PredictBatchKeeps, CloseProgressKeeps, JoinKeeps,
     JoinTimeoutKeeps
<1>5. CASE WriteGate \/ Almost \/ Write
  BY <1>5, WriteGateKeeps, AlmostKeeps, WriteKeeps
<1>6. CASE Surface \/ Retry \/ Judge \/ FinalProgress \/ Complete \/ Report
  BY <1>6, SurfaceKeeps, RetryKeeps, JudgeKeeps, FinalProgressKeeps, CompleteKeeps,
     ReportKeeps
<1>7. CASE PumpStep
  BY <1>7, PumpGetKeeps, PumpIdleKeeps, PumpPublishKeeps, PumpOrphanedKeeps DEF PumpStep
<1> QED
  BY <1>1, <1>2, <1>3, <1>4, <1>5, <1>6, <1>7 DEF Next, MainStep

\* The threads are where they should be, no count is lost between them, and the
\* events say no more than is so: IInv holds in every state of execute_inference().
THEOREM Inductive == Spec => []IInv
<1>1. Init => IInv
  BY InitIInv
<1>2. IInv /\ [Next]_vars => IInv'
  BY NextIInv
<1> QED
  BY <1>1, <1>2, PTL DEF Spec

\* No attempt counts more rows than there are, and only KnoVa's phases and error
\* codes reach the wire, whatever fails.
THEOREM TypeCorrect == Spec => []TypeOK
<1>1. IInv => TypeOK
  BY DEF IInv
<1> QED
  BY <1>1, Inductive, PTL

\* Only the write appends, and nothing has been appended when it does.
LEMMA WriteIsLast ==
  ASSUME IInv, WrittenAtMostOnce, [Next]_vars
  PROVE  WrittenAtMostOnce'
<1>1. CASE Write
  <2>1. appends = 0
    BY <1>1, WritingNumbers DEF Write, Writing
  <2> QED
    BY <1>1, <2>1 DEF Write, WrittenAtMostOnce
<1>2. CASE ~Write
  <2>1. appends' = appends
    <3>1. CASE UNCHANGED vars
      BY <3>1 DEF vars, output
    <3>2. CASE RequestStop
      BY <3>2 DEF RequestStop, output
    <3>3. CASE Load \/ Build \/ Prepare \/ Measure \/ Started \/ FirstProgress
      BY <3>3 DEF Load, Build, Prepare, Measure, Started, FirstProgress, Before, output
    <3>4. CASE Attempt \/ OpenSink \/ PredictBatch \/ CloseProgress \/ Join \/ JoinTimeout
      BY <3>4 DEF Attempt, OpenSink, PredictBatch, CloseProgress, Join, JoinTimeout, output
    <3>5. CASE WriteGate \/ Almost
      BY <3>5 DEF WriteGate, Almost, output
    <3>6. CASE Surface \/ Retry \/ Judge \/ FinalProgress \/ Complete \/ Report
      BY <3>6 DEF Surface, Retry, Judge, FinalProgress, Complete, Report, After, output
    <3>7. CASE PumpStep
      BY <3>7 DEF PumpStep, PumpGet, PumpIdle, PumpPublish, PumpOrphaned, PumpLocal, output
    <3> QED
      BY <1>2, <3>1, <3>2, <3>3, <3>4, <3>5, <3>6, <3>7 DEF Next, MainStep
  <2> QED
    BY <2>1 DEF WrittenAtMostOnce
<1> QED
  BY <1>1, <1>2

\* The result table is appended to at most once, with any number of retries.
THEOREM NeverWrittenTwice == Spec => []WrittenAtMostOnce
<1>1. Init => WrittenAtMostOnce
  BY DEF Init, WrittenAtMostOnce
<1>2. IInv /\ WrittenAtMostOnce /\ [Next]_vars => WrittenAtMostOnce'
  BY WriteIsLast
<1> QED
  BY <1>1, <1>2, Inductive, PTL DEF Spec

\* A completed run has counted every row it has read, has written every row the
\* filter lets through and says both; and no event of any run claims a row that is
\* not in the table.
THEOREM CountsTrue == Spec => []CountsAreTrue
<1>1. IInv => CountsAreTrue
  <2> SUFFICES ASSUME IInv
               PROVE  CompletedIsExact
    BY DEF CountsAreTrue, IInv, EventsOK
  <2>1. events # <<>> => Len(events) \in 1..Len(events)
    BY Typed DEF IInv
  <2> QED
    BY <2>1 DEF CompletedIsExact, Closed, IInv, EventsOK, CompletedSays
<1> QED
  BY <1>1, Inductive, PTL

\* Although two threads publish, the phases a reader sees never go back before
\* the outcome, and the rows only where a LOG event has announced a retry.
THEOREM NeverBackwards == Spec => []ReaderGoesForward
<1>1. IInv => ReaderGoesForward
  BY DEF IInv, EventsOK, ReaderGoesForward
<1> QED
  BY <1>1, Inductive, PTL
=============================================================================
