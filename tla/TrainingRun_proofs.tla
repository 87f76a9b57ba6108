------------------------- MODULE TrainingRun_proofs -------------------------
(***************************************************************************)
(* Proofs about TrainingRun, for every number of rounds and every bound on *)
(* what fails: the invariant of IInv is inductive, and it implies the      *)
(* safety properties of the run.                                           *)
(***************************************************************************)
EXTENDS TrainingRun, TLAPS, SequenceTheorems

\* Whatever code is passed, the code of a failure is one KnoVa's training
\* protocol lists.
LEMMA ErrorCodeListed ==
  ASSUME NEW code, NEW phase
  PROVE  ErrorCode(op, code, phase) \in ProtocolCodes(op)
BY DEF ErrorCode, CodeOfPhase, ProtocolCodes, TrainingCodes, op

-----------------------------------------------------------------------------
(* Phases *)

\* The phases of the pipeline, one by one.
LEMMA PhasesAre ==
  Phases = {"QUEUED", "LOADING_DATA", "DATA_SPLITTING", "TRAINING", "EVALUATING",
            "COMPLETED"}
<1>1. DOMAIN Pipeline = 1..6
  BY DEF Pipeline
<1>2. 1..6 = {1, 2, 3, 4, 5, 6}
  OBVIOUS
<1>3. /\ Pipeline[1] = "QUEUED" /\ Pipeline[2] = "LOADING_DATA"
      /\ Pipeline[3] = "DATA_SPLITTING" /\ Pipeline[4] = "TRAINING"
      /\ Pipeline[5] = "EVALUATING" /\ Pipeline[6] = "COMPLETED"
  BY DEF Pipeline
<1>4. Phases = {Pipeline[n] : n \in {1, 2, 3, 4, 5, 6}}
  BY <1>1, <1>2 DEF Phases
<1> QED
  BY <1>3, <1>4

\* A phase that is at one place of the pipeline only has that position.
LEMMA PositionIs ==
  ASSUME NEW n \in 1..6, NEW phase, Pipeline[n] = phase,
         \A i \in 1..6 : Pipeline[i] = phase => i = n
  PROVE  Position(phase) = n
<1>1. DOMAIN Pipeline = 1..6
  BY DEF Pipeline
<1>2. \A i : i \in DOMAIN Pipeline /\ Pipeline[i] = phase <=> i = n
  BY <1>1
<1>3. Position(phase) \in DOMAIN Pipeline /\ Pipeline[Position(phase)] = phase
  BY <1>2 DEF Position
<1> QED
  BY <1>2, <1>3

\* The positions of the phases, in the order of the pipeline.
LEMMA Positions ==
  /\ Position("QUEUED") = 1 /\ Position("LOADING_DATA") = 2
  /\ Position("DATA_SPLITTING") = 3 /\ Position("TRAINING") = 4
  /\ Position("EVALUATING") = 5 /\ Position("COMPLETED") = 6
  /\ \A phase \in Phases : Position(phase) \in 1..6
<1>1. /\ Pipeline[1] = "QUEUED" /\ Pipeline[2] = "LOADING_DATA"
      /\ Pipeline[3] = "DATA_SPLITTING" /\ Pipeline[4] = "TRAINING"
      /\ Pipeline[5] = "EVALUATING" /\ Pipeline[6] = "COMPLETED"
  BY DEF Pipeline
<1>2. \A i \in 1..6 : i = 1 \/ i = 2 \/ i = 3 \/ i = 4 \/ i = 5 \/ i = 6
  OBVIOUS
<1>3. /\ 1 \in 1..6 /\ 2 \in 1..6 /\ 3 \in 1..6 /\ 4 \in 1..6 /\ 5 \in 1..6 /\ 6 \in 1..6
  OBVIOUS
<1>4. Position("QUEUED") = 1
  <2>1. \A i \in 1..6 : Pipeline[i] = "QUEUED" => i = 1
    BY <1>1, <1>2, Zenon
  <2> QED
    BY <1>1, <1>3, <2>1, PositionIs
<1>5. Position("LOADING_DATA") = 2
  <2>1. \A i \in 1..6 : Pipeline[i] = "LOADING_DATA" => i = 2
    BY <1>1, <1>2, Zenon
  <2> QED
    BY <1>1, <1>3, <2>1, PositionIs
<1>6. Position("DATA_SPLITTING") = 3
  <2>1. \A i \in 1..6 : Pipeline[i] = "DATA_SPLITTING" => i = 3
    BY <1>1, <1>2, Zenon
  <2> QED
    BY <1>1, <1>3, <2>1, PositionIs
<1>7. Position("TRAINING") = 4
  <2>1. \A i \in 1..6 : Pipeline[i] = "TRAINING" => i = 4
    BY <1>1, <1>2, Zenon
  <2> QED
    BY <1>1, <1>3, <2>1, PositionIs
<1>8. Position("EVALUATING") = 5
  <2>1. \A i \in 1..6 : Pipeline[i] = "EVALUATING" => i = 5
    BY <1>1, <1>2, Zenon
  <2> QED
    BY <1>1, <1>3, <2>1, PositionIs
<1>9. Position("COMPLETED") = 6
  <2>1. \A i \in 1..6 : Pipeline[i] = "COMPLETED" => i = 6
    BY <1>1, <1>2, Zenon
  <2> QED
    BY <1>1, <1>3, <2>1, PositionIs
<1>10. \A phase \in Phases : Position(phase) \in 1..6
  BY <1>3, <1>4, <1>5, <1>6, <1>7, <1>8, <1>9, PhasesAre, Zenon
<1> QED
  BY <1>4, <1>5, <1>6, <1>7, <1>8, <1>9, <1>10

\* The phases the runtime names, in the words of the protocol.
LEMMA MappedPhases ==
  /\ MapPhase(op, "PREPARING") = "LOADING_DATA"
  /\ MapPhase(op, "EXECUTING") = "TRAINING"
  /\ MapPhase(op, "TRAINING") = "TRAINING"
  /\ MapPhase(op, "MATERIALIZING") = "EVALUATING"
  /\ \A phase \in Phases : MapPhase(op, phase) = phase
  /\ Phases \subseteq ProtocolPhases(op)
<1>1. DOMAIN TrainingPhases = {"ADMISSION", "ADMITTED", "PREPARING", "EXECUTING",
                               "MATERIALIZING", "PUBLISHING", "COMPLETED", "FAILED",
                               "CANCELLED"}
  BY DEF TrainingPhases
<1>2. /\ TrainingPhases["PREPARING"] = "LOADING_DATA"
      /\ TrainingPhases["EXECUTING"] = "TRAINING"
      /\ TrainingPhases["MATERIALIZING"] = "EVALUATING"
      /\ TrainingPhases["COMPLETED"] = "COMPLETED"
  BY DEF TrainingPhases
<1>3. \A phase : MapPhase(op, phase)
                   = IF phase \in DOMAIN TrainingPhases THEN TrainingPhases[phase] ELSE phase
  BY DEF MapPhase, PhaseTable, op
<1>4. /\ MapPhase(op, "PREPARING") = "LOADING_DATA"
      /\ MapPhase(op, "EXECUTING") = "TRAINING"
      /\ MapPhase(op, "TRAINING") = "TRAINING"
      /\ MapPhase(op, "MATERIALIZING") = "EVALUATING"
  BY <1>1, <1>2, <1>3
<1>5. \A phase \in Phases : MapPhase(op, phase) = phase
  BY <1>1, <1>2, <1>3, PhasesAre
<1>6. Phases \subseteq ProtocolPhases(op)
  BY PhasesAre DEF ProtocolPhases, op
<1> QED
  BY <1>4, <1>5, <1>6

-----------------------------------------------------------------------------
(* What is published *)

\* What reporter.phase(), a warning and reporter.metrics() are given as a phase.
Given == {"PREPARING", "LOADING_DATA", "DATA_SPLITTING", "EXECUTING", "MATERIALIZING"}

\* A phase that is given is one of the pipeline, before the outcome.
LEMMA GivenPhases ==
  ASSUME NEW phase \in Given
  PROVE  /\ MapPhase(op, phase) \in Phases
         /\ phase \notin {NoPhase, "FAILED", "CANCELLED"}
<1>1. phase \in {"PREPARING", "EXECUTING", "MATERIALIZING"} \/ phase \in Phases
  BY PhasesAre DEF Given
<1>2. phase \notin {NoPhase, "FAILED", "CANCELLED"}
  BY DEF Given, NoPhase
<1> QED
  BY <1>1, <1>2, MappedPhases, PhasesAre

\* An event that is no outcome carries the phase it was given, and its round.
LEMMA Reporting ==
  ASSUME NEW call \in {"PHASE", "LOG", "METRICS"}, NEW phase \in Given, NEW round \in Nat
  PROVE  LET m == Message(call, phase, NoCode, round)
         IN  /\ m \in WireEvents /\ ~IsTerminal(m)
             /\ m.phase = MapPhase(op, phase) /\ m.round = round
<1> DEFINE m == Message(call, phase, NoCode, round)
<1>1. EventType(op, call) = call
  BY DEF EventType, op
<1>2. EventPhase(op, call, phase, current) = MapPhase(op, phase)
  BY GivenPhases DEF EventPhase, RequestedPhase
<1>3. m = [type |-> call, phase |-> MapPhase(op, phase), round |-> round, code |-> NoCode]
  BY <1>1, <1>2 DEF Message
<1>4. call \in WireTypes(op) \ TerminalTypes
  BY DEF WireTypes, TerminalTypes, op
<1>5. MapPhase(op, phase) \in Phases
  BY GivenPhases
<1> HIDE DEF m
<1> QED
  BY <1>3, <1>4, <1>5 DEF WireEvents, IsTerminal, m

\* An outcome has the type it was given, a phase of the pipeline and no round.
LEMMA Outcomes ==
  ASSUME current \in Phases, NEW call \in TerminalTypes,
         NEW phase \in Phases \cup {NoPhase}, NEW code
  PROVE  LET m == Message(call, phase, code, 0)
         IN  /\ m \in WireEvents /\ IsTerminal(m) /\ m.type = call
             /\ m.code = IF call = "FAILED" THEN ErrorCode(op, code, m.phase) ELSE NoCode
             /\ call = "FAILED" /\ phase \in Phases => m.phase = phase
             /\ m.round = 0
<1> DEFINE m == Message(call, phase, code, 0)
           shown == EventPhase(op, call, phase, current)
           given == IF call = "FAILED" THEN ErrorCode(op, code, shown) ELSE NoCode
<1>1. EventType(op, call) = call
  BY DEF EventType, TerminalTypes, op
<1>2. \A p \in Phases : p \notin {NoPhase, "FAILED", "CANCELLED", "EXECUTING"}
  BY PhasesAre DEF NoPhase
<1>3. shown \in Phases /\ (call = "FAILED" /\ phase \in Phases => shown = phase)
  <2>1. CASE call = "COMPLETED"
    BY <2>1, PhasesAre DEF EventPhase, op
  <2>2. CASE call \in {"FAILED", "CANCELLED"}
    <3>1. RequestedPhase(call, phase, current) = IF phase \in Phases THEN phase ELSE current
      BY <1>2, <2>2 DEF RequestedPhase
    <3> QED
      BY <1>2, <2>2, <3>1, MappedPhases DEF EventPhase
  <2> QED
    BY <2>1, <2>2 DEF TerminalTypes
<1>4. m = [type |-> call, phase |-> shown, round |-> 0, code |-> given]
  BY <1>1 DEF Message
<1>5. call \in WireTypes(op)
  BY DEF WireTypes, op
<1>6. given \in ProtocolCodes(op) \cup {NoCode}
  BY ErrorCodeListed
<1> HIDE DEF m, shown
<1> QED
  BY <1>3, <1>4, <1>5, <1>6 DEF WireEvents, IsTerminal, m

-----------------------------------------------------------------------------
(* What the events say, before and after a step *)

\* What the types say of the events.
LEMMA EventFacts ==
  ASSUME TypeOK
  PROVE  /\ events \in Seq(WireEvents) /\ Len(events) \in Nat
         /\ current \in Phases /\ worker.trained \in Nat
         /\ \A i \in 1..Len(events) :
              /\ events[i] \in WireEvents
              /\ events[i].phase \in Phases /\ Position(events[i].phase) \in Int
              /\ events[i].round \in Nat /\ events[i].round <= worker.trained
<1>1. events \in Seq(WireEvents) /\ Len(events) \in Nat /\ current \in Phases
  BY DEF TypeOK, OutputOK
<1>2. \A i \in 1..Len(events) : events[i] \in WireEvents
  BY <1>1
<1>3. \A e \in WireEvents : e.phase \in Phases
  BY DEF WireEvents
<1>4. \A e \in WireEvents : e.round \in Nat
  BY DEF WireEvents
<1>5. \A i \in 1..Len(events) : Position(events[i].phase) \in Int
  BY <1>2, <1>3, Positions
<1>6. worker.trained \in Nat
  BY RunAssumption DEF TypeOK, FitOK
<1>7. \A i \in 1..Len(events) : events[i].round <= worker.trained
  BY DEF TypeOK, OutputOK
<1> QED
  BY <1>1, <1>2, <1>3, <1>4, <1>5, <1>6, <1>7

\* While the stream is open no event of it is an outcome.
LEMMA OpenStream ==
  ASSUME TypeOK, OutcomeIsLast, ~Closed
  PROVE  \A i \in 1..Len(events) : ~IsTerminal(events[i])
<1> SUFFICES ASSUME NEW i \in 1..Len(events), IsTerminal(events[i])
             PROVE  FALSE
  OBVIOUS
<1>1. i = Len(events)
  BY DEF OutcomeIsLast
<1>2. events # <<>>
  BY EventFacts
<1> QED
  BY <1>1, <1>2 DEF Closed

\* The stream is open until the outcome.
LEMMA OpenBefore ==
  ASSUME OutcomeIsLast, main.at \notin {"classify", "report", "done"}
  PROVE  ~Closed
BY DEF OutcomeIsLast

\* A step that publishes nothing.
LEMMA EventsStill ==
  ASSUME TypeOK, EventsOK, UNCHANGED events,
         faults' = 0 => faults = 0, late => late',
         ~late' => Position(current) <= Position(current'), current' \in Phases,
         Closed => worker'.trained = worker.trained,
         ~Closed => reported' = reported,
         Closed => \/ UNCHANGED main
                   \/ Ended("COMPLETED") /\ main'.at \in {"report", "done"}
  PROVE  EventsOK'
<1> USE DEF EventsOK
<1>0. /\ \A type : Ended(type)' <=> Ended(type)
      /\ Closed' <=> Closed
      /\ \A round : ReportedRound(round)' <=> ReportedRound(round)
  BY DEF Ended, Closed, ReportedRound
<1>1. OutcomeIsLast'
  <2>1. \A i \in 1..Len(events') : IsTerminal(events'[i]) => i = Len(events')
    BY DEF OutcomeIsLast
  <2>2. Closed' => \/ main'.at = "done"
                   \/ main'.at \in {"classify", "report"} /\ Ended("COMPLETED")'
    BY <1>0 DEF OutcomeIsLast
  <2> QED
    BY <2>1, <2>2 DEF OutcomeIsLast
<1>2. ReportedIsTrue'
  BY <1>0 DEF ReportedIsTrue
<1>3. PhasesReached'
  <2> SUFFICES ASSUME ~late', NEW i \in 1..Len(events), ~IsTerminal(events[i])
               PROVE  Position(events[i].phase) <= Position(current')
    BY DEF PhasesReached
  <2>1. Position(events[i].phase) <= Position(current)
    BY DEF PhasesReached
  <2>2. /\ Position(events[i].phase) \in Int /\ Position(current) \in Int
        /\ Position(current') \in Int
    BY EventFacts, Positions
  <2> QED
    BY <2>1, <2>2
<1>4. FirstAndLastReported'
  BY <1>0 DEF FirstAndLastReported, Ended
<1>5. RoundsMoveForward'
  BY DEF RoundsMoveForward
<1>6. PhasesMoveForward'
  BY DEF PhasesMoveForward
<1>7. FailureNamesStage'
  <2>1. CASE Ended("FAILED")
    <3>1. Closed /\ ~Ended("COMPLETED")
      BY <2>1 DEF Ended
    <3>2. UNCHANGED main
      BY <3>1
    <3>3. events'[Len(events')].code = events[Len(events)].code
      OBVIOUS
    <3>4. main'.cause # "control" /\ faults' = 0 /\ ~late'
            => events[Len(events)].code \in CodesOf(main.stage)
      BY <2>1, <3>2, Zenon DEF FailureNamesStage
    <3> QED
      BY <3>2, <3>3, <3>4, Zenon DEF FailureNamesStage
  <2>2. CASE ~Ended("FAILED")
    BY <1>0, <2>2 DEF FailureNamesStage
  <2> QED
    BY <2>1, <2>2
<1> QED
  BY <1>1, <1>2, <1>3, <1>4, <1>5, <1>6, <1>7

\* The events after one has been appended.
LEMMA Appended ==
  ASSUME TypeOK, NEW e \in WireEvents, events' = Append(events, e)
  PROVE  /\ Len(events') = Len(events) + 1 /\ events' # <<>>
         /\ events'[Len(events) + 1] = e
         /\ \A i \in 1..Len(events) : i \in 1..Len(events') /\ events'[i] = events[i]
         /\ \A i \in 1..Len(events') : i \in 1..Len(events) \/ i = Len(events) + 1
         /\ Len(events) + 1 \in 1..Len(events')
         /\ \A i, j \in 1..Len(events') : i < j => i \in 1..Len(events)
         /\ DOMAIN events = 1..Len(events) /\ DOMAIN events' = 1..Len(events')
         /\ Closed' <=> IsTerminal(e)
         /\ \A type : Ended(type)' <=> IsTerminal(e) /\ e.type = type
         /\ \A round : ReportedRound(round)' <=> ReportedRound(round) \/ e.round = round
<1> DEFINE n == Len(events)
<1>0. events \in Seq(WireEvents) /\ n \in Nat
  BY EventFacts
<1>1. /\ Len(events') = n + 1 /\ events'[n + 1] = e
      /\ \A i \in 1..n : events'[i] = events[i]
      /\ DOMAIN events = 1..n /\ events' \in Seq(WireEvents)
  BY <1>0
<1>2. DOMAIN events' = 1..Len(events') /\ events' # <<>>
  BY <1>0, <1>1
<1> HIDE DEF n
<1>3. /\ \A i \in 1..n : i \in 1..Len(events')
      /\ \A i \in 1..Len(events') : i \in 1..n \/ i = n + 1
      /\ n + 1 \in 1..Len(events')
      /\ \A i, j \in 1..Len(events') : i < j => i \in 1..n
  BY <1>0, <1>1
<1>4. Closed' <=> IsTerminal(e)
  BY <1>1, <1>2 DEF Closed, IsTerminal
<1>5. \A type : Ended(type)' <=> IsTerminal(e) /\ e.type = type
  BY <1>1, <1>4 DEF Ended
<1>6. \A round : ReportedRound(round)' <=> ReportedRound(round) \/ e.round = round
  BY <1>1, <1>2, <1>3 DEF ReportedRound
<1> QED
  BY <1>1, <1>2, <1>3, <1>4, <1>5, <1>6 DEF n

\* A step that publishes an event which is no outcome, and is not behind what
\* has been published.
LEMMA EventsGrow ==
  ASSUME TypeOK, EventsOK, ~Closed,
         NEW e \in WireEvents, ~IsTerminal(e), events' = Append(events, e),
         faults' = 0 => faults = 0, late => late',
         current' \in Phases,
         ~late' => /\ Position(current) <= Position(e.phase)
                   /\ Position(e.phase) <= Position(current'),
         reported' \subseteq reported \cup {e.round},
         \/ e.round = 0
         \/ faults' = 0 /\ ~late' => \A i \in 1..Len(events) : events[i].round < e.round
  PROVE  EventsOK'
<1> USE DEF EventsOK
<1>a. e.phase \in Phases
  BY DEF WireEvents
<1>b. Position(e.phase) \in Int /\ Position(current) \in Int /\ Position(current') \in Int
  BY <1>a, EventFacts, Positions
<1>c. e.round \in Nat
  BY DEF WireEvents
<1>d. ~Closed'
  BY Appended
<1>e. \A i \in 1..Len(events') :
        \/ i \in 1..Len(events) /\ events'[i] = events[i]
        \/ i = Len(events) + 1 /\ events'[i] = e
  BY Appended
<1>1. OutcomeIsLast'
  <2>1. \A i \in 1..Len(events') : ~IsTerminal(events'[i])
    BY <1>e, OpenStream
  <2> QED
    BY <1>d, <2>1 DEF OutcomeIsLast, IsTerminal
<1>2. ReportedIsTrue'
  BY Appended DEF ReportedIsTrue
<1>3. PhasesReached'
  <2> SUFFICES ASSUME ~late', NEW i \in 1..Len(events')
               PROVE  Position(events'[i].phase) <= Position(current')
    BY DEF PhasesReached, IsTerminal
  <2>1. CASE i \in 1..Len(events) /\ events'[i] = events[i]
    <3>1. Position(events[i].phase) <= Position(current)
      BY <2>1, OpenStream DEF PhasesReached
    <3>2. Position(events[i].phase) \in Int
      BY <2>1, EventFacts
    <3> QED
      BY <2>1, <3>1, <3>2, <1>b
  <2>2. CASE i = Len(events) + 1 /\ events'[i] = e
    BY <2>2
  <2> QED
    BY <1>e, <2>1, <2>2
<1>4. FirstAndLastReported' /\ FailureNamesStage'
  BY <1>d DEF FirstAndLastReported, FailureNamesStage, Ended
<1>5. RoundsMoveForward'
  <2> SUFFICES ASSUME faults' = 0, ~late', NEW i \in 1..Len(events'),
                      NEW j \in 1..Len(events'),
                      i < j, events'[i].round > 0, events'[j].round > 0
               PROVE  events'[i].round < events'[j].round
    <3>1. DOMAIN events' = 1..Len(events')
      BY Appended
    <3> QED
      BY <3>1 DEF RoundsMoveForward
  <2>0. i \in 1..Len(events) /\ events'[i] = events[i]
    BY Appended
  <2>1. CASE j \in 1..Len(events) /\ events'[j] = events[j]
    <3>1. DOMAIN events = 1..Len(events)
      BY Appended
    <3> QED
      BY <2>0, <2>1, <3>1 DEF RoundsMoveForward
  <2>2. CASE j = Len(events) + 1 /\ events'[j] = e
    <3>1. e.round # 0
      BY <2>2, <1>c
    <3> QED
      BY <2>0, <2>2, <3>1
  <2> QED
    BY <1>e, <2>1, <2>2
<1>6. PhasesMoveForward'
  <2> SUFFICES ASSUME ~late', NEW i \in 1..Len(events'), NEW j \in 1..Len(events'), i < j
               PROVE  Position(events'[i].phase) <= Position(events'[j].phase)
    <3>1. DOMAIN events' = 1..Len(events')
      BY Appended
    <3> QED
      BY <3>1 DEF PhasesMoveForward, IsTerminal
  <2>0. i \in 1..Len(events) /\ events'[i] = events[i]
    BY Appended
  <2>1. CASE j \in 1..Len(events) /\ events'[j] = events[j]
    <3>1. DOMAIN events = 1..Len(events)
      BY Appended
    <3>2. ~IsTerminal(events[j])
      BY <2>1, OpenStream
    <3> QED
      BY <2>0, <2>1, <3>1, <3>2 DEF PhasesMoveForward
  <2>2. CASE j = Len(events) + 1 /\ events'[j] = e
    <3>1. Position(events[i].phase) <= Position(current)
      BY <2>0, OpenStream DEF PhasesReached
    <3>2. Position(events[i].phase) \in Int
      BY <2>0, EventFacts
    <3> QED
      BY <2>0, <2>2, <3>1, <3>2, <1>b
  <2> QED
    BY <1>e, <2>1, <2>2
<1> QED
  BY <1>1, <1>2, <1>3, <1>4, <1>5, <1>6

\* A step that publishes an outcome.
LEMMA EventsEnd ==
  ASSUME TypeOK, EventsOK, ~Closed,
         NEW e \in WireEvents, IsTerminal(e), events' = Append(events, e),
         e.round = 0,
         faults' = 0 => faults = 0, late => late', UNCHANGED current,
         main'.at = "done" \/ (main'.at \in {"classify", "report"} /\ e.type = "COMPLETED"),
         e.type = "COMPLETED" =>
           {1, worker.trained} \subseteq reported /\ worker'.trained = worker.trained,
         e.type = "FAILED" /\ main'.cause # "control" /\ faults' = 0 /\ ~late' =>
           e.code \in CodesOf(main'.stage)
  PROVE  EventsOK'
<1> USE DEF EventsOK
<1>d. Closed'
  BY Appended
<1>e. \A i \in 1..Len(events') :
        \/ i \in 1..Len(events) /\ events'[i] = events[i]
        \/ i = Len(events) + 1 /\ events'[i] = e
  BY Appended
<1>1. OutcomeIsLast'
  <2>1. \A i \in 1..Len(events') : IsTerminal(events'[i]) => i = Len(events')
    BY <1>e, OpenStream, Appended
  <2>2. e.type = "COMPLETED" => Ended("COMPLETED")'
    BY Appended
  <2> QED
    BY <2>1, <2>2 DEF OutcomeIsLast, IsTerminal
<1>2. ReportedIsTrue'
  BY <1>d DEF ReportedIsTrue
<1>3. PhasesReached'
  <2> SUFFICES ASSUME ~late', NEW i \in 1..Len(events'), ~IsTerminal(events'[i])
               PROVE  Position(events'[i].phase) <= Position(current')
    BY DEF PhasesReached, IsTerminal
  <2>1. i \in 1..Len(events) /\ events'[i] = events[i]
    BY <1>e
  <2> QED
    BY <2>1 DEF PhasesReached
<1>4. FirstAndLastReported'
  <2> SUFFICES ASSUME Ended("COMPLETED")'
               PROVE  ReportedRound(1)' /\ ReportedRound(worker.trained)'
    BY Zenon DEF FirstAndLastReported
  <2>1. e.type = "COMPLETED"
    BY Appended
  <2>2. ReportedRound(1) /\ ReportedRound(worker.trained)
    BY <2>1 DEF ReportedIsTrue
  <2>3. ReportedRound(1)' /\ \E i \in DOMAIN events' : events'[i].round = worker.trained
    BY <2>2, Appended DEF ReportedRound
  <2> QED
    BY <2>1, <2>3 DEF ReportedRound
<1>5. RoundsMoveForward'
  <2> SUFFICES ASSUME faults' = 0, ~late', NEW i \in 1..Len(events'),
                      NEW j \in 1..Len(events'),
                      i < j, events'[i].round > 0, events'[j].round > 0
               PROVE  events'[i].round < events'[j].round
    <3>1. DOMAIN events' = 1..Len(events')
      BY Appended
    <3> QED
      BY <3>1 DEF RoundsMoveForward
  <2>0. i \in 1..Len(events) /\ events'[i] = events[i]
    BY Appended
  <2>1. j \in 1..Len(events) /\ events'[j] = events[j]
    BY <1>e
  <2>2. DOMAIN events = 1..Len(events)
    BY Appended
  <2> QED
    BY <2>0, <2>1, <2>2 DEF RoundsMoveForward
<1>6. PhasesMoveForward'
  <2> SUFFICES ASSUME ~late', NEW i \in 1..Len(events'), NEW j \in 1..Len(events'), i < j,
                      ~IsTerminal(events'[j])
               PROVE  Position(events'[i].phase) <= Position(events'[j].phase)
    <3>1. DOMAIN events' = 1..Len(events')
      BY Appended
    <3> QED
      BY <3>1 DEF PhasesMoveForward, IsTerminal
  <2>0. i \in 1..Len(events) /\ events'[i] = events[i]
    BY Appended
  <2>1. j \in 1..Len(events) /\ events'[j] = events[j]
    BY <1>e
  <2>2. DOMAIN events = 1..Len(events)
    BY Appended
  <2> QED
    BY <2>0, <2>1, <2>2 DEF PhasesMoveForward
<1>7. FailureNamesStage'
  <2> SUFFICES ASSUME Ended("FAILED")', main'.cause # "control", faults' = 0, ~late'
               PROVE  events'[Len(events')].code \in CodesOf(main'.stage)
    BY DEF FailureNamesStage, CodesOf
  <2>1. e.type = "FAILED" /\ events'[Len(events')] = e
    BY Appended
  <2> QED
    BY <2>1
<1> QED
  BY <1>1, <1>2, <1>3, <1>4, <1>5, <1>6, <1>7

-----------------------------------------------------------------------------
(* What a publication does *)

\* Emitting appends the event unless the stream is closed.
LEMMA EmitFacts ==
  ASSUME NEW call, NEW phase, NEW code, NEW round, Emit(call, phase, code, round)
  PROVE  LET m == Message(call, phase, code, round)
         IN  /\ Closed => UNCHANGED <<events, current>>
             /\ ~Closed => /\ events' = Append(events, m)
                           /\ current' = IF IsTerminal(m) THEN current ELSE m.phase
BY DEF Emit

\* Each event of a step is one that was there before, or speaks of no round.
RoundsKept ==
  \A i \in 1..Len(events') :
    events'[i].round = 0 \/ (i \in 1..Len(events) /\ events'[i] = events[i])

\* The types of the output, when nothing is published.
LEMMA OutputStill ==
  ASSUME TypeOK, UNCHANGED events, worker'.trained \in Nat,
         worker.trained <= worker'.trained,
         current' \in Phases, stop' \in StopCodes \cup {NoCode}, late' \in BOOLEAN,
         faults' \in Nat
  PROVE  OutputOK'
<1>1. \A i \in 1..Len(events) : events[i].round <= worker'.trained
  <2> TAKE i \in 1..Len(events)
  <2>1. /\ events[i].round \in Nat /\ events[i].round <= worker.trained
        /\ worker.trained \in Nat
    BY EventFacts
  <2> QED
    BY <2>1
<1>2. events' \in Seq(WireEvents)
  BY EventFacts
<1> QED
  BY <1>1, <1>2 DEF OutputOK

\* The types of the output, when an event is published.
LEMMA OutputGrow ==
  ASSUME TypeOK, NEW e \in WireEvents, events' = Append(events, e),
         UNCHANGED worker, e.round <= worker.trained,
         current' \in Phases, stop' \in StopCodes \cup {NoCode}, late' \in BOOLEAN,
         faults' \in Nat
  PROVE  OutputOK'
<1>1. \A i \in 1..Len(events') : events'[i].round <= worker'.trained
  <2> TAKE i \in 1..Len(events')
  <2>1. CASE i \in 1..Len(events)
    <3>1. events'[i] = events[i]
      BY <2>1, Appended
    <3>2. events[i].round <= worker.trained
      BY <2>1, EventFacts
    <3> QED
      BY <3>1, <3>2
  <2>2. CASE i = Len(events) + 1
    BY <2>2, Appended
  <2> QED
    BY <2>1, <2>2, Appended
<1>2. events' \in Seq(WireEvents)
  BY EventFacts
<1> QED
  BY <1>1, <1>2 DEF OutputOK

\* A step of the main thread that publishes nothing.
LEMMA QuietKeeps ==
  ASSUME TypeOK, EventsOK, Quiet, UNCHANGED <<metrics, stop>>,
         current' \in Phases, ~late => Position(current) <= Position(current'),
         Closed => \/ UNCHANGED main
                   \/ Ended("COMPLETED") /\ main'.at \in {"report", "done"}
  PROVE  /\ OutputOK' /\ EventsOK' /\ RoundsKept
         /\ UNCHANGED faults
<1>1. UNCHANGED <<worker, reported, late, stop, events, faults>>
  BY DEF Quiet, metrics
<1>2. OutputOK'
  <2>1. /\ worker.trained \in Nat /\ worker.trained <= worker.trained
        /\ stop \in StopCodes \cup {NoCode} /\ late \in BOOLEAN /\ faults \in Nat
    BY EventFacts DEF TypeOK, OutputOK
  <2> QED
    BY <1>1, <2>1, OutputStill
<1>3. EventsOK'
  BY <1>1, EventsStill
<1>4. RoundsKept
  BY <1>1 DEF RoundsKept
<1> QED
  BY <1>1, <1>2, <1>3, <1>4

\* What is known of a publication in which nothing fails, or something does.
LEMMA FaultFacts ==
  ASSUME TypeOK
  PROVE  /\ Fault => faults' \in Nat /\ faults' # 0
         /\ NoFault => faults' \in Nat /\ faults' = faults
<1>1. faults \in Nat
  BY DEF TypeOK, OutputOK
<1> QED
  BY <1>1 DEF Fault, NoFault

\* An event that is no outcome is published, or its publication fails without
\* having done it.
LEMMA SayKeeps ==
  ASSUME TypeOK, EventsOK, ~Closed, UNCHANGED <<worker, late, stop>>,
         NEW m \in WireEvents, ~IsTerminal(m), m.round <= worker.trained,
         current' = m.phase, ~late => Position(current) <= Position(m.phase),
         faults' \in Nat, faults' = 0 => faults = 0,
         \/ UNCHANGED <<events, reported>>
         \/ /\ events' = Append(events, m)
            /\ reported' \subseteq reported \cup {m.round}
            /\ \/ m.round = 0
               \/ faults' = 0 /\ ~late' =>
                    \A i \in 1..Len(events) : events[i].round < m.round
  PROVE  OutputOK' /\ EventsOK'
<1>1. /\ stop' \in StopCodes \cup {NoCode} /\ late' \in BOOLEAN
      /\ worker'.trained \in Nat /\ worker.trained <= worker'.trained
      /\ worker'.trained = worker.trained /\ late => late'
  BY EventFacts DEF TypeOK, OutputOK
<1>2. m.phase \in Phases
  BY DEF WireEvents
<1>3. Position(m.phase) <= Position(m.phase)
  BY <1>2, Positions
<1>4. CASE ~UNCHANGED <<events, reported>>
  <2>0. events' = Append(events, m)
    BY <1>4
  <2>1. OutputOK'
    BY <1>1, <1>2, <2>0, OutputGrow
  <2>2. EventsOK'
    BY <1>1, <1>2, <1>3, <1>4, <2>0, EventsGrow, Zenon
  <2> QED
    BY <2>1, <2>2
<1>5. CASE UNCHANGED <<events, reported>>
  <2>1. OutputOK'
    BY <1>1, <1>2, <1>5, OutputStill
  <2>2. EventsOK'
    BY <1>1, <1>2, <1>5, EventsStill
  <2> QED
    BY <2>1, <2>2
<1> QED
  BY <1>4, <1>5

\* A phase or a warning, which the main thread publishes, or fails to publish.
LEMMA TellKeeps ==
  ASSUME TypeOK, EventsOK, ~Closed, UNCHANGED <<worker, reported, late, stop>>,
         NEW call \in {"PHASE", "LOG"}, NEW phase \in Given,
         ~late => Position(current) <= Position(MapPhase(op, phase)),
         \/ Emit(call, phase, NoCode, 0) /\ NoFault
         \/ Unpublished(call, phase, NoCode, 0, MapPhase(op, phase))
  PROVE  /\ OutputOK' /\ EventsOK' /\ RoundsKept
         /\ current' = MapPhase(op, phase)
         /\ (Emit(call, phase, NoCode, 0) /\ NoFault) \/ faults' # 0
         /\ faults' = 0 => faults = 0
<1> DEFINE m == Message(call, phase, NoCode, 0)
<1>1. /\ m \in WireEvents /\ ~IsTerminal(m)
      /\ m.phase = MapPhase(op, phase) /\ m.round = 0
  <2>1. call \in {"PHASE", "LOG", "METRICS"} /\ 0 \in Nat
    OBVIOUS
  <2> QED
    BY <2>1, Reporting
<1>2. /\ current' = MapPhase(op, phase)
      /\ events' = Append(events, m) \/ UNCHANGED events
  <2>1. CASE Emit(call, phase, NoCode, 0)
    BY <1>1, <2>1, EmitFacts
  <2>2. CASE Unpublished(call, phase, NoCode, 0, MapPhase(op, phase))
    BY <2>2 DEF Unpublished
  <2> QED
    BY <2>1, <2>2
<1>3. /\ faults' \in Nat /\ (faults' = 0 => faults = 0)
      /\ (Emit(call, phase, NoCode, 0) /\ NoFault) \/ faults' # 0
  BY FaultFacts DEF Unpublished
<1>4. m.round <= worker.trained
  BY <1>1, EventFacts
<1>5. RoundsKept
  <2>1. CASE events' = Append(events, m)
    BY <1>1, <2>1, Appended DEF RoundsKept
  <2>2. CASE UNCHANGED events
    BY <2>2 DEF RoundsKept
  <2> QED
    BY <1>2, <2>1, <2>2
<1> HIDE DEF m
<1>6. OutputOK' /\ EventsOK'
  BY <1>1, <1>2, <1>3, <1>4, SayKeeps
<1> QED
  BY <1>2, <1>3, <1>5, <1>6

\* A round that is reported, or whose report fails.
LEMMA MetricsKeep ==
  ASSUME TypeOK, EventsOK, UNCHANGED <<worker, late, stop>>,
         NEW round \in 1..worker.trained, Metrics(round) \/ MetricsRaise(round),
         Closed => late /\ UNCHANGED main,
         ~late => current = "TRAINING",
         Punctual => \A i \in 1..Len(events) : events[i].round < round
  PROVE  /\ OutputOK' /\ EventsOK'
         /\ ~late => current' = "TRAINING"
         /\ reported' \in {reported, reported \cup {round}}
         /\ faults' = 0 => faults = 0
         /\ Metrics(round) => round \in reported' /\ UNCHANGED faults
         /\ Punctual' => /\ reported' = reported \cup {round}
                         /\ events' = Append(events, Message("METRICS", "EXECUTING", NoCode, round))
<1> DEFINE m == Message("METRICS", "EXECUTING", NoCode, round)
<1>0. round \in Nat /\ round <= worker.trained /\ round # 0
  BY EventFacts
<1>1. /\ m \in WireEvents /\ ~IsTerminal(m) /\ m.phase = "TRAINING" /\ m.round = round
  <2>1. "METRICS" \in {"PHASE", "LOG", "METRICS"} /\ "EXECUTING" \in Given
    BY DEF Given
  <2> QED
    BY <1>0, <2>1, MappedPhases, Reporting
<1>2. \/ Metrics(round) /\ NoFault
      \/ MetricsRaise(round) /\ ~MayGoOn /\ Quiet
      \/ MetricsRaise(round) /\ MayGoOn /\ Fault
  BY DEF Metrics, MetricsRaise, Unpublished
<1>3. faults' \in Nat /\ (faults' = 0 => faults = 0)
  BY <1>2, FaultFacts DEF Quiet, TypeOK, OutputOK
<1>4. /\ reported' \in {reported, reported \cup {round}}
      /\ Metrics(round) => round \in reported' /\ UNCHANGED faults
  BY DEF Metrics, MetricsRaise, NoFault
<1> HIDE DEF m
<1>5. CASE ~Closed
  <2>1. current' = "TRAINING"
    <3>1. CASE Metrics(round)
      BY <1>1, <1>5, <3>1, EmitFacts DEF Metrics, m
    <3>2. CASE MetricsRaise(round)
      BY <3>2, MappedPhases DEF MetricsRaise, Checkpoint, Unpublished
    <3> QED
      BY <3>1, <3>2
  <2>2. /\ events' = Append(events, m) \/ UNCHANGED <<events, reported>>
        /\ Metrics(round) => events' = Append(events, m) /\ reported' = reported \cup {round}
    <3>1. CASE Metrics(round)
      BY <1>5, <3>1, EmitFacts DEF Metrics, m
    <3>2. CASE MetricsRaise(round) /\ ~Metrics(round)
      BY <3>2 DEF MetricsRaise, Unpublished, Quiet, m
    <3> QED
      BY <3>1, <3>2
  <2>3. Punctual' => Metrics(round)
    <3>1. Punctual' => faults' = 0 /\ stop = NoCode
      BY DEF Punctual
    <3>2. stop = NoCode => MayGoOn
      BY DEF MayGoOn
    <3>3. Fault => faults' # 0
      BY FaultFacts
    <3> QED
      BY <1>2, <3>1, <3>2, <3>3
  <2>4. ~late => Position(current) <= Position(m.phase)
    BY <1>1, Positions
  <2>5. faults' = 0 /\ ~late' =>
          events' = events \/ \A i \in 1..Len(events) : events[i].round < m.round
    <3>1. CASE stop = NoCode
      BY <1>1, <1>3, <3>1 DEF Punctual
    <3>2. CASE stop # NoCode
      <4>1. ~MayGoOn
        BY <1>5, <3>2 DEF MayGoOn
      <4>2. faults' = 0 => Quiet
        BY <1>2, <4>1, FaultFacts DEF Metrics
      <4> QED
        BY <4>2 DEF Quiet
    <3> QED
      BY <3>1, <3>2
  <2>6. \/ UNCHANGED <<events, reported>>
        \/ UNCHANGED events /\ ~Metrics(round)
        \/ events' = Append(events, m)
    BY <2>2
  <2>7. OutputOK' /\ EventsOK'
    <3>1. CASE UNCHANGED <<events, reported>>
      BY <1>0, <1>1, <1>3, <1>5, <2>1, <2>4, <3>1, SayKeeps
    <3>2. CASE events' = Append(events, m) /\ ~UNCHANGED events
      <4>1. reported' \subseteq reported \cup {m.round}
        BY <1>1, <1>4
      <4>2. faults' = 0 /\ ~late' => \A i \in 1..Len(events) : events[i].round < m.round
        BY <2>5, <3>2
      <4>3. m.round <= worker.trained
        BY <1>0, <1>1
      <4> QED
        BY <1>1, <1>3, <1>5, <2>1, <2>4, <3>2, <4>1, <4>2, <4>3, SayKeeps
    <3>3. events' = Append(events, m) => ~UNCHANGED events
      BY <1>1, Appended, EventFacts
    <3> QED
      BY <2>2, <3>1, <3>2, <3>3
  <2> QED
    BY <1>3, <1>4, <2>1, <2>2, <2>3, <2>7 DEF m
<1>6. CASE Closed
  <2>1. late /\ UNCHANGED <<main, late>>
    BY <1>6
  <2>2. UNCHANGED events /\ current' \in Phases
    <3>1. CASE Metrics(round)
      BY <1>6, <3>1, EmitFacts, EventFacts DEF Metrics
    <3>2. CASE MetricsRaise(round)
      <4>1. current' = "TRAINING"
        BY <3>2, MappedPhases DEF MetricsRaise, Checkpoint, Unpublished
      <4> QED
        BY <1>6, <3>2, <4>1, PhasesAre DEF MetricsRaise, Unpublished, Quiet
    <3> QED
      BY <3>1, <3>2
  <2>3. /\ stop' \in StopCodes \cup {NoCode} /\ late' \in BOOLEAN
        /\ worker'.trained \in Nat /\ worker.trained <= worker'.trained
        /\ worker'.trained = worker.trained
    BY EventFacts DEF TypeOK, OutputOK
  <2>4. OutputOK'
    BY <1>3, <2>2, <2>3, OutputStill
  <2>5. EventsOK'
    BY <1>3, <1>6, <2>1, <2>2, <2>3, EventsStill
  <2> QED
    BY <1>3, <1>4, <2>1, <2>4, <2>5 DEF Punctual
<1> QED
  BY <1>5, <1>6

-----------------------------------------------------------------------------
(* The main thread moves *)

\* The main thread goes on.
LEMMA GotoFacts ==
  ASSUME TypeOK, NEW place \in MainPlaces, Goto(place)
  PROVE  /\ MainOK' /\ main'.at = place
         /\ main'.stage = main.stage /\ main'.cause = main.cause
         /\ main'.code = main.code /\ main'.phase = main.phase
BY DEF TypeOK, MainOK, Goto

\* An exception is raised.
LEMMA RaiseFacts ==
  ASSUME TypeOK, NEW place \in MainPlaces, NEW cause \in Causes, Raise(place, cause)
  PROVE  /\ MainOK' /\ main'.at = place
         /\ main'.stage = main.at /\ main'.cause = cause
         /\ main'.code = main.code /\ main'.phase = main.phase
BY DEF TypeOK, MainOK, Raise

\* A control error is raised.
LEMMA ControlFacts ==
  ASSUME TypeOK, NEW place \in MainPlaces, NEW phase \in Phases, RaiseControl(place, phase)
  PROVE  /\ MainOK' /\ main'.at = place
         /\ main'.stage = main.at /\ main'.cause = "control"
         /\ main'.code = stop /\ main'.phase = phase
         /\ ~Closed /\ stop # NoCode
<1>1. "control" \in Causes
  BY DEF Causes
<1>2. stop \in ProtocolCodes(op) \cup OpaqueCodes \cup {"CANCELLED", NoCode}
  BY DEF TypeOK, OutputOK, StopCodes, TimeoutCode, op, ProtocolCodes, TrainingCodes
<1>3. main' = [main EXCEPT !.at = place, !.stage = main.at, !.cause = "control",
                           !.code = stop, !.phase = phase]
  BY DEF RaiseControl
<1>4. main \in [at : MainPlaces, stage : MainPlaces \cup {""}, cause : Causes \cup {""},
                code : ProtocolCodes(op) \cup OpaqueCodes \cup {"CANCELLED", NoCode},
                phase : Phases \cup {NoPhase}]
  BY DEF TypeOK, MainOK
<1>5. ~Closed /\ stop # NoCode
  BY DEF RaiseControl, MayGoOn
<1> QED
  BY <1>1, <1>2, <1>3, <1>4, <1>5 DEF MainOK

\* The main thread is on its way, and so are the metrics.
OnItsWay == main.at \in BeforeFit \cup AfterFit

\* Where the main thread is before and after the fit, the stream is open, no
\* failure has been raised, and the pump is not at work unless it is late.
LEMMA OnItsWayFacts ==
  ASSUME ThreadsOK, OutcomeIsLast, OnItsWay
  PROVE  /\ ~Closed /\ main.cause = "" /\ (Alive => late)
         /\ main.at \notin InFinish \cup {"fit", "classify", "report", "done"}
         /\ ~late => current = PhaseAt(main.at)
         /\ main.at \in BeforeFit => ~late /\ pump.at = "off"
         /\ main.at \in AfterFit => {1, worker.trained} \subseteq reported /\ pump.at # "off"
<1>1. main.at \notin InFinish \cup {"fit", "classify", "report", "done"}
  BY DEF OnItsWay, BeforeFit, AfterFit, InFinish
<1> QED
  BY <1>1, OpenBefore DEF ThreadsOK, OnItsWay, WayOut, PumpPlace, InFinish, MadeUp, PhaseKnown

\* A step that leaves the rounds where they are and speaks of none of them leaves
\* them in order.
LEMMA StillInOrder ==
  ASSUME TypeOK, RoundsInOrder, RoundsKept, UNCHANGED <<worker, queue, reported>>,
         pump'.at = "publish" <=> pump.at = "publish", pump'.round = pump.round,
         Punctual' => Punctual, faults' = 0 => faults = 0,
         main'.at \in {"first", "last"} =>
           main.at \in {"first", "last"} \/ (Punctual => queue = <<>>)
  PROVE  RoundsInOrder'
<1>1. Seen' = Seen /\ Held' = Held
  BY DEF Seen, Held
<1>2. faults' = 0 => ~worker'.missed
  BY DEF RoundsInOrder
<1>4. Punctual => \A i \in 1..Len(events') : events'[i].round <= Seen
  <2> SUFFICES ASSUME Punctual, NEW i \in 1..Len(events')
               PROVE  events'[i].round <= Seen
    OBVIOUS
  <2>1. Seen >= 0 /\ \A k \in 1..Len(events) : events[k].round <= Seen
    BY DEF RoundsInOrder
  <2>2. Seen \in Int
    BY EventFacts DEF Seen, Held, TypeOK, FitOK
  <2> QED
    BY <2>1, <2>2 DEF RoundsKept
<1> HIDE DEF Seen, Held
<1>5. Punctual => /\ Seen >= 0 /\ reported = 1..Seen
                  /\ pump.at = "publish" => pump.round = Seen + 1
                  /\ \A i \in 1..Len(queue) : queue[i] = Seen + Held + i
                  /\ main.at \in {"first", "last"} => queue = <<>>
  BY DEF RoundsInOrder
<1> QED
  BY <1>1, <1>2, <1>4, <1>5 DEF RoundsInOrder

\* A step of the main thread on its way, or out of it: what it must have done
\* for the threads to be where they should be.
LEMMA AloneKeeps ==
  ASSUME TypeOK, ThreadsOK, OutcomeIsLast, RoundsKept, OnItsWay,
         UNCHANGED <<metrics, stop>>, faults' = 0 => faults = 0,
         \/ /\ main.at \in BeforeFit /\ main'.at \in BeforeFit
         \/ /\ main.at \in AfterFit /\ main'.at \in AfterFit
         \/ /\ main'.at \in {"classify", "report", "done"},
         main'.at \in BeforeFit \cup AfterFit => main'.cause = "",
         main'.at \in {"classify", "report"} => main'.cause # "",
         \/ main'.stage = main.stage /\ main'.cause = main.cause
         \/ main'.stage = main.at /\ main'.cause # "",
         PhaseKnown', CauseFits'
  PROVE  ThreadsOK'
<1>0. UNCHANGED <<worker, queue, pump, reported, late>>
  BY DEF metrics
<1>1. main'.at \notin InFinish \cup {"fit"}
  BY DEF BeforeFit, AfterFit, InFinish
<1>2. WayOut'
  BY <1>1, OnItsWayFacts DEF WayOut, ThreadsOK
<1>3. PumpPlace'
  <2>1. main'.at \in BeforeFit => main.at \in BeforeFit
    BY DEF BeforeFit, AfterFit
  <2>2. main'.at \in AfterFit => main.at \in AfterFit
    BY DEF BeforeFit, AfterFit
  <2> QED
    BY <1>0, <1>1, <2>1, <2>2, OnItsWayFacts DEF PumpPlace, ThreadsOK, Alive
<1>4. MadeUp'
  <2>1. main'.at \in AfterFit => main.at \in AfterFit
    BY DEF BeforeFit, AfterFit
  <2>2. main'.at # "last"
    BY <1>1 DEF InFinish
  <2> QED
    BY <1>0, <1>1, <2>1, <2>2, OnItsWayFacts DEF MadeUp, ThreadsOK
<1>5. RoundsInOrder'
  <2>1. main'.at \notin {"first", "last"}
    BY <1>1 DEF InFinish
  <2>2. Punctual' => Punctual
    BY <1>0 DEF Punctual
  <2> QED
    BY <1>0, <2>1, <2>2, StillInOrder DEF ThreadsOK
<1> QED
  BY <1>2, <1>3, <1>4, <1>5 DEF ThreadsOK

\* Metrics that are left alone keep their types.
LEMMA MetricsStill ==
  ASSUME FitOK, UNCHANGED metrics
  PROVE  FitOK'
BY DEF FitOK, metrics

\* The main thread goes on to a place it knows the phase of.
LEMMA GoesOn ==
  ASSUME IInv, OnItsWay, UNCHANGED <<metrics, stop>>, faults' = 0 => faults = 0,
         OutputOK', EventsOK', RoundsKept,
         NEW place \in BeforeFit \cup AfterFit \cup {"done"}, Goto(place),
         \/ main.at \in BeforeFit /\ place \in BeforeFit
         \/ main.at \in AfterFit /\ place \in AfterFit
         \/ place = "done",
         ~late /\ place # "done" => current' = PhaseAt(place)
  PROVE  IInv'
<1>1. place \in MainPlaces
  BY DEF BeforeFit, AfterFit, MainPlaces
<1>2. /\ MainOK' /\ main'.at = place
      /\ main'.stage = main.stage /\ main'.cause = main.cause
  BY <1>1, GotoFacts DEF IInv
<1>3. main.cause = "" /\ place \notin {"classify", "report"}
  BY OnItsWayFacts DEF IInv, EventsOK, BeforeFit, AfterFit
<1>4. late' = late
  BY DEF metrics
<1>5. PhaseKnown'
  BY <1>2, <1>3, <1>4 DEF PhaseKnown, PhaseAt
<1>6. CauseFits'
  BY <1>2, <1>3 DEF CauseFits
<1>7. ThreadsOK'
  BY <1>2, <1>3, <1>5, <1>6, AloneKeeps DEF IInv, EventsOK
<1> QED
  BY <1>2, <1>7, MetricsStill DEF IInv, TypeOK

\* The main thread raises an exception that has to be classified.
LEMMA GivesUp ==
  ASSUME IInv, OnItsWay, UNCHANGED <<metrics, stop>>, faults' = 0 => faults = 0,
         OutputOK', EventsOK', RoundsKept,
         NEW cause \in Causes, Raise("classify", cause),
         faults' = 0 => cause \in CausesOf(main.at) /\ UNCHANGED current
  PROVE  IInv'
<1>1. /\ MainOK' /\ main'.at = "classify" /\ main'.stage = main.at /\ main'.cause = cause
  <2>1. "classify" \in MainPlaces
    BY DEF MainPlaces
  <2> QED
    BY <2>1, RaiseFacts DEF IInv
<1>2. late' = late
  BY DEF metrics
<1>3. PhaseKnown'
  <2>1. ~late => current = PhaseAt(main.at)
    BY OnItsWayFacts DEF IInv, EventsOK
  <2> QED
    BY <1>1, <1>2, <2>1 DEF PhaseKnown, PhaseAt
<1>4. CauseFits'
  BY <1>1 DEF CauseFits, CausesOf
<1>5. cause # "" /\ "classify" \notin BeforeFit \cup AfterFit
  BY DEF Causes, BeforeFit, AfterFit
<1>6. ThreadsOK'
  BY <1>1, <1>3, <1>4, <1>5, AloneKeeps DEF IInv, EventsOK
<1> QED
  BY <1>1, <1>6, MetricsStill DEF IInv, TypeOK

\* The main thread raises the control error it has been asked for.
LEMMA IsStopped ==
  ASSUME IInv, OnItsWay, UNCHANGED <<metrics, stop>>, Quiet,
         NEW phase \in Phases, RaiseControl("report", phase),
         current' \in Phases, ~late => Position(current) <= Position(current')
  PROVE  IInv'
<1>1. /\ MainOK' /\ main'.at = "report" /\ main'.stage = main.at
      /\ main'.cause = "control" /\ ~Closed
  <2>1. "report" \in MainPlaces
    BY DEF MainPlaces
  <2> QED
    BY <2>1, ControlFacts DEF IInv
<1>2. OutputOK' /\ EventsOK' /\ RoundsKept /\ faults' = faults
  BY <1>1, QuietKeeps DEF IInv
<1>3. PhaseKnown'
  BY <1>1 DEF PhaseKnown
<1>4. CauseFits'
  BY <1>1 DEF CauseFits
<1>5. "report" \notin BeforeFit \cup AfterFit
  BY DEF BeforeFit, AfterFit
<1>6. ThreadsOK'
  BY <1>1, <1>2, <1>3, <1>4, <1>5, AloneKeeps DEF IInv, EventsOK
<1> QED
  BY <1>1, <1>2, <1>6, MetricsStill DEF IInv, TypeOK

\* What is known where the main thread is on its way, for a step that publishes
\* nothing and leaves the phase as it is.
LEMMA QuietOnItsWay ==
  ASSUME IInv, OnItsWay, Quiet, UNCHANGED <<metrics, stop, current>>
  PROVE  /\ OutputOK' /\ EventsOK' /\ RoundsKept /\ faults' = faults
         /\ current \in Phases /\ Position(current) <= Position(current)
<1>1. ~Closed /\ current \in Phases
  BY OnItsWayFacts, EventFacts DEF IInv, EventsOK
<1>2. Position(current) <= Position(current)
  BY <1>1, Positions
<1> QED
  BY <1>1, <1>2, QuietKeeps DEF IInv

-----------------------------------------------------------------------------
(* Before the fit *)

\* The request is mapped, or found to be invalid.
LEMMA ConfigKeeps ==
  ASSUME IInv, Config
  PROVE  IInv'
<1> USE DEF Config
<1>1. main.at = "config" /\ OnItsWay /\ UNCHANGED <<metrics, stop, current>> /\ Quiet
  BY DEF OnItsWay, BeforeFit, Alone
<1>2. /\ OutputOK' /\ EventsOK' /\ RoundsKept /\ faults' = faults
  BY <1>1, QuietOnItsWay
<1>3. late' = late
  BY <1>1 DEF metrics
<1>4. CASE Goto("control")
  <2>1. ~late => current' = PhaseAt("control")
    BY <1>1, OnItsWayFacts DEF PhaseAt, IInv, EventsOK
  <2>2. "control" \in BeforeFit /\ main.at \in BeforeFit
    BY <1>1 DEF BeforeFit
  <2> QED
    BY <1>1, <1>2, <1>4, <2>1, <2>2, GoesOn
<1>5. CASE Raise("report", "config")
  <2>1. /\ MainOK' /\ main'.at = "report" /\ main'.stage = main.at /\ main'.cause = "config"
    <3>1. "report" \in MainPlaces /\ "config" \in Causes
      BY DEF MainPlaces, Causes
    <3> QED
      BY <1>5, <3>1, RaiseFacts DEF IInv
  <2>2. PhaseKnown'
    BY <2>1 DEF PhaseKnown
  <2>3. CauseFits'
    BY <1>1, <2>1 DEF CauseFits, CausesOf
  <2>4. "report" \notin BeforeFit \cup AfterFit
    BY DEF BeforeFit, AfterFit
  <2>5. ThreadsOK'
    BY <1>1, <1>2, <2>1, <2>2, <2>3, <2>4, AloneKeeps DEF IInv, EventsOK
  <2> QED
    BY <1>1, <1>2, <2>1, <2>5, MetricsStill DEF IInv, TypeOK
<1> QED
  BY <1>4, <1>5

\* The first checkpoint.
LEMMA ControlKeeps ==
  ASSUME IInv, Control
  PROVE  IInv'
<1> USE DEF Control
<1>1. main.at = "control" /\ OnItsWay /\ UNCHANGED <<metrics, stop, current>> /\ Quiet
  BY DEF OnItsWay, BeforeFit, Alone
<1>2. /\ OutputOK' /\ EventsOK' /\ RoundsKept /\ faults' = faults
      /\ current \in Phases /\ Position(current) <= Position(current)
  BY <1>1, QuietOnItsWay
<1>4. CASE Goto("prepare")
  <2>1. ~late => current' = PhaseAt("prepare")
    BY <1>1, OnItsWayFacts DEF PhaseAt, IInv, EventsOK
  <2>2. "prepare" \in BeforeFit /\ main.at \in BeforeFit
    BY <1>1 DEF BeforeFit
  <2> QED
    BY <1>1, <1>2, <1>4, <2>1, <2>2, GoesOn
<1>5. CASE RaiseControl("report", current)
  BY <1>1, <1>2, <1>5, IsStopped
<1> QED
  BY <1>4, <1>5

\* A phase that follows the one the main thread is in is not behind it.
LEMMA NotBehind ==
  ASSUME IInv, OnItsWay, NEW phase \in Given,
         Position(PhaseAt(main.at)) <= Position(MapPhase(op, phase))
  PROVE  /\ MapPhase(op, phase) \in Phases
         /\ ~late => Position(current) <= Position(MapPhase(op, phase))
<1>1. ~late => current = PhaseAt(main.at)
  BY OnItsWayFacts DEF IInv, EventsOK
<1> QED
  BY <1>1, GivenPhases

\* A phase that cannot be entered, or cannot be published.
LEMMA EnterFails ==
  ASSUME IInv, OnItsWay, UNCHANGED <<metrics, stop>>, NEW phase \in Given,
         Position(PhaseAt(main.at)) <= Position(MapPhase(op, phase)),
         \/ RaiseControl("report", MapPhase(op, phase)) /\ Checkpoint(phase) /\ Quiet
         \/ /\ Raise("classify", "redis")
            /\ Unpublished("PHASE", phase, NoCode, 0, MapPhase(op, phase))
  PROVE  IInv'
<1>1. /\ MapPhase(op, phase) \in Phases
      /\ ~late => Position(current) <= Position(MapPhase(op, phase))
  BY NotBehind
<1>2. ASSUME RaiseControl("report", MapPhase(op, phase)), Checkpoint(phase), Quiet
      PROVE  IInv'
  <2>1. current' = MapPhase(op, phase)
    BY <1>2 DEF Checkpoint
  <2> QED
    BY <1>1, <1>2, <2>1, IsStopped
<1>3. ASSUME Raise("classify", "redis"),
             Unpublished("PHASE", phase, NoCode, 0, MapPhase(op, phase))
      PROVE  IInv'
  <2>1. ~Closed /\ UNCHANGED <<worker, reported, late, stop>>
    BY OnItsWayFacts DEF IInv, EventsOK, metrics
  <2>2. faults' # 0
    BY <1>3, FaultFacts DEF Unpublished, IInv
  <2>3. OutputOK' /\ EventsOK' /\ RoundsKept
    BY <1>1, <1>3, <2>1, TellKeeps DEF IInv
  <2>4. "redis" \in Causes
    BY DEF Causes
  <2> QED
    BY <1>3, <2>2, <2>3, <2>4, GivesUp
<1> QED
  BY <1>2, <1>3

\* A phase that is announced on the way from one place to the next.
LEMMA EnterKeeps ==
  ASSUME IInv, UNCHANGED <<metrics, stop>>, NEW phase \in Given,
         NEW from, NEW to, Enter(phase, from, to),
         \/ from \in BeforeFit /\ to \in BeforeFit
         \/ from \in AfterFit /\ to \in AfterFit,
         PhaseAt(to) = MapPhase(op, phase),
         Position(PhaseAt(from)) <= Position(MapPhase(op, phase))
  PROVE  IInv'
<1>1. main.at = from /\ OnItsWay
  BY DEF Enter, OnItsWay
<1>2. CASE Goto(to) /\ Emit("PHASE", phase, NoCode, 0) /\ NoFault
  <2>1. ~Closed /\ UNCHANGED <<worker, reported, late, stop>>
    BY <1>1, OnItsWayFacts DEF IInv, EventsOK, metrics
  <2>2. ~late => Position(current) <= Position(MapPhase(op, phase))
    BY <1>1, NotBehind
  <2>3. /\ OutputOK' /\ EventsOK' /\ RoundsKept /\ current' = PhaseAt(to)
        /\ faults' = 0 => faults = 0
    BY <1>2, <2>1, <2>2, TellKeeps DEF IInv
  <2> QED
    BY <1>1, <1>2, <2>3, GoesOn
<1>3. CASE ~(Goto(to) /\ Emit("PHASE", phase, NoCode, 0) /\ NoFault)
  BY <1>1, <1>3, EnterFails DEF Enter
<1> QED
  BY <1>2, <1>3

\* The positions of the phases along the way of the main thread.
LEMMA PhaseAtPlaces ==
  /\ PhaseAt("prepare") = "QUEUED" /\ PhaseAt("auto") = "LOADING_DATA"
  /\ PhaseAt("load") = "LOADING_DATA" /\ PhaseAt("rows") = "LOADING_DATA"
  /\ PhaseAt("split") = "LOADING_DATA" /\ PhaseAt("divide") = "DATA_SPLITTING"
  /\ PhaseAt("execute") = "DATA_SPLITTING" /\ PhaseAt("fit") = "TRAINING"
  /\ PhaseAt("materialize") = "TRAINING" /\ PhaseAt("evaluate") = "EVALUATING"
  /\ Position("QUEUED") <= Position("LOADING_DATA")
  /\ Position("LOADING_DATA") <= Position("LOADING_DATA")
  /\ Position("LOADING_DATA") <= Position("DATA_SPLITTING")
  /\ Position("DATA_SPLITTING") <= Position("TRAINING")
  /\ Position("TRAINING") <= Position("EVALUATING")
<1>1. /\ PhaseAt("prepare") = "QUEUED" /\ PhaseAt("auto") = "LOADING_DATA"
      /\ PhaseAt("load") = "LOADING_DATA" /\ PhaseAt("rows") = "LOADING_DATA"
      /\ PhaseAt("split") = "LOADING_DATA" /\ PhaseAt("divide") = "DATA_SPLITTING"
      /\ PhaseAt("execute") = "DATA_SPLITTING" /\ PhaseAt("fit") = "TRAINING"
      /\ PhaseAt("materialize") = "TRAINING" /\ PhaseAt("evaluate") = "EVALUATING"
  BY DEF PhaseAt
<1>2. /\ Position("QUEUED") <= Position("LOADING_DATA")
      /\ Position("LOADING_DATA") <= Position("LOADING_DATA")
      /\ Position("LOADING_DATA") <= Position("DATA_SPLITTING")
      /\ Position("DATA_SPLITTING") <= Position("TRAINING")
      /\ Position("TRAINING") <= Position("EVALUATING")
  BY Positions
<1> QED
  BY <1>1, <1>2

\* PREPARING is announced.
LEMMA PrepareKeeps ==
  ASSUME IInv, Prepare
  PROVE  IInv'
<1>1. UNCHANGED <<metrics, stop>> /\ Enter("PREPARING", "prepare", "auto")
  BY DEF Prepare, Alone
<1>2. "prepare" \in BeforeFit /\ "auto" \in BeforeFit /\ "PREPARING" \in Given
  BY DEF BeforeFit, Given
<1> QED
  BY <1>1, <1>2, MappedPhases, PhaseAtPlaces, EnterKeeps

\* DATA_SPLITTING is announced.
LEMMA SplitKeeps ==
  ASSUME IInv, Split
  PROVE  IInv'
<1>1. UNCHANGED <<metrics, stop>> /\ Enter("DATA_SPLITTING", "split", "divide")
  BY DEF Split, Alone
<1>2. "split" \in BeforeFit /\ "divide" \in BeforeFit /\ "DATA_SPLITTING" \in Given
  BY DEF BeforeFit, Given
<1>3. MapPhase(op, "DATA_SPLITTING") = "DATA_SPLITTING"
  BY MappedPhases, PhasesAre
<1> QED
  BY <1>1, <1>2, <1>3, PhaseAtPlaces, EnterKeeps

\* MATERIALIZING is announced.
LEMMA MaterializeKeeps ==
  ASSUME IInv, Materialize
  PROVE  IInv'
<1>1. UNCHANGED <<metrics, stop>> /\ Enter("MATERIALIZING", "materialize", "evaluate")
  BY DEF Materialize, Alone
<1>2. "materialize" \in AfterFit /\ "evaluate" \in AfterFit /\ "MATERIALIZING" \in Given
  BY DEF AfterFit, Given
<1> QED
  BY <1>1, <1>2, MappedPhases, PhaseAtPlaces, EnterKeeps

\* A warning, published or not, that leaves the main thread in LOADING_DATA.
LEMMA WarningFacts ==
  ASSUME IInv, OnItsWay, main.at \in {"auto", "load"}, UNCHANGED <<metrics, stop>>,
         \/ Emit("LOG", "LOADING_DATA", NoCode, 0) /\ NoFault
         \/ Unpublished("LOG", "LOADING_DATA", NoCode, 0, current)
  PROVE  /\ OutputOK' /\ EventsOK' /\ RoundsKept /\ current' = "LOADING_DATA"
         /\ (Emit("LOG", "LOADING_DATA", NoCode, 0) /\ NoFault) \/ faults' # 0
         /\ faults' = 0 => faults = 0
<1>1. MapPhase(op, "LOADING_DATA") = "LOADING_DATA" /\ "LOADING_DATA" \in Given
  BY MappedPhases, PhasesAre DEF Given
<1>2. ~Closed /\ UNCHANGED <<worker, reported, late, stop>>
  BY OnItsWayFacts DEF IInv, EventsOK, metrics
<1>3. current = "LOADING_DATA"
  <2>1. main.at \in BeforeFit
    BY DEF BeforeFit
  <2>2. current = PhaseAt(main.at)
    BY <2>1, OnItsWayFacts DEF IInv, EventsOK
  <2> QED
    BY <2>2, PhaseAtPlaces
<1>4. Position(current) <= Position(MapPhase(op, "LOADING_DATA"))
  BY <1>1, <1>3, PhaseAtPlaces
<1>5. \/ Emit("LOG", "LOADING_DATA", NoCode, 0) /\ NoFault
      \/ Unpublished("LOG", "LOADING_DATA", NoCode, 0, MapPhase(op, "LOADING_DATA"))
  BY <1>1, <1>3
<1> QED
  BY <1>1, <1>2, <1>4, <1>5, TellKeeps DEF IInv

\* A warning that AUTO tuning is not implemented, or none.
LEMMA AutoTuningKeeps ==
  ASSUME IInv, AutoTuning
  PROVE  IInv'
<1>1. main.at = "auto" /\ OnItsWay /\ UNCHANGED <<metrics, stop>>
  BY DEF AutoTuning, OnItsWay, BeforeFit, Alone
<1>2. "load" \in BeforeFit /\ main.at \in BeforeFit /\ "redis" \in Causes
  BY <1>1 DEF BeforeFit, Causes
<1>3. CASE Goto("load") /\ Quiet /\ UNCHANGED current
  <2>1. /\ OutputOK' /\ EventsOK' /\ RoundsKept /\ faults' = faults
    BY <1>1, <1>3, QuietOnItsWay
  <2>2. ~late => current' = PhaseAt("load")
    BY <1>1, <1>3, OnItsWayFacts, PhaseAtPlaces DEF IInv, EventsOK
  <2> QED
    BY <1>1, <1>2, <1>3, <2>1, <2>2, GoesOn
<1>4. CASE Goto("load") /\ Emit("LOG", "LOADING_DATA", NoCode, 0) /\ NoFault
  <2>1. /\ OutputOK' /\ EventsOK' /\ RoundsKept /\ current' = "LOADING_DATA"
        /\ faults' = 0 => faults = 0
    BY <1>1, <1>4, WarningFacts
  <2>2. current' = PhaseAt("load")
    BY <2>1, PhaseAtPlaces
  <2> QED
    BY <1>1, <1>2, <1>4, <2>1, <2>2, GoesOn
<1>5. CASE /\ Raise("classify", "redis")
           /\ Unpublished("LOG", "LOADING_DATA", NoCode, 0, current)
  <2>1. /\ OutputOK' /\ EventsOK' /\ RoundsKept
        /\ faults' = 0 => faults = 0
    BY <1>1, <1>5, WarningFacts
  <2>2. faults' # 0
    BY <1>5, FaultFacts DEF Unpublished, IInv
  <2> QED
    BY <1>1, <1>2, <1>5, <2>1, <2>2, GivesUp
<1> QED
  BY <1>3, <1>4, <1>5 DEF AutoTuning

\* The source is opened and its columns are checked.
LEMMA LoadKeeps ==
  ASSUME IInv, Load
  PROVE  IInv'
<1>1. main.at = "load" /\ OnItsWay /\ UNCHANGED <<metrics, stop>>
  BY DEF Load, OnItsWay, BeforeFit, Alone
<1>2. /\ "rows" \in BeforeFit /\ main.at \in BeforeFit
      /\ {"redis", "query", "columns"} \subseteq Causes
      /\ {"query", "columns"} \subseteq CausesOf(main.at)
  BY <1>1 DEF BeforeFit, Causes, CausesOf
<1>3. CASE Quiet /\ UNCHANGED current
  <2>1. /\ OutputOK' /\ EventsOK' /\ RoundsKept /\ faults' = faults
        /\ current \in Phases /\ Position(current) <= Position(current)
    BY <1>1, <1>3, QuietOnItsWay
  <2>2. ~late => current' = PhaseAt("rows")
    BY <1>1, <1>3, OnItsWayFacts, PhaseAtPlaces DEF IInv, EventsOK
  <2>3. ASSUME Goto("rows") PROVE IInv'
    BY <1>1, <1>2, <1>3, <2>1, <2>2, <2>3, GoesOn
  <2>4. ASSUME NEW cause \in {"query", "columns"}, Raise("classify", cause) PROVE IInv'
    BY <1>1, <1>2, <1>3, <2>1, <2>4, GivesUp
  <2>5. ASSUME RaiseControl("report", current) PROVE IInv'
    BY <1>1, <1>3, <2>1, <2>5, IsStopped
  <2>6. ASSUME Raise("classify", "redis"),
               Unpublished("LOG", "LOADING_DATA", NoCode, 0, current) PROVE IInv'
    <3>1. faults' # 0
      BY <2>6, FaultFacts DEF Unpublished, IInv
    <3> QED
      BY <1>1, <1>2, <2>1, <2>6, <3>1, GivesUp
  <2>7. \/ Goto("rows") \/ RaiseControl("report", current)
        \/ \E cause \in {"query", "columns"} : Raise("classify", cause)
        \/ /\ Raise("classify", "redis")
           /\ Unpublished("LOG", "LOADING_DATA", NoCode, 0, current)
    BY DEF Load
  <2> QED
    BY <2>3, <2>4, <2>5, <2>6, <2>7
<1>4. CASE Goto("rows") /\ Emit("LOG", "LOADING_DATA", NoCode, 0) /\ NoFault
  <2>1. /\ OutputOK' /\ EventsOK' /\ RoundsKept /\ current' = "LOADING_DATA"
        /\ faults' = 0 => faults = 0
    BY <1>1, <1>4, WarningFacts
  <2>2. current' = PhaseAt("rows")
    BY <2>1, PhaseAtPlaces
  <2> QED
    BY <1>1, <1>2, <1>4, <2>1, <2>2, GoesOn
<1>5. CASE /\ Raise("classify", "redis")
           /\ Unpublished("LOG", "LOADING_DATA", NoCode, 0, current)
  <2>1. /\ OutputOK' /\ EventsOK' /\ RoundsKept
        /\ faults' = 0 => faults = 0
    BY <1>1, <1>5, WarningFacts
  <2>2. faults' # 0
    BY <1>5, FaultFacts DEF Unpublished, IInv
  <2> QED
    BY <1>1, <1>2, <1>5, <2>1, <2>2, GivesUp
<1> QED
  BY <1>3, <1>4, <1>5 DEF Load

\* The rows are read.
LEMMA RowsKeeps ==
  ASSUME IInv, Rows
  PROVE  IInv'
<1>1. /\ main.at = "rows" /\ OnItsWay /\ UNCHANGED <<metrics, stop, current>> /\ Quiet
      /\ Goto("split") \/ \E cause \in {"query", "unreachable"} : Raise("classify", cause)
  BY DEF Rows, OnItsWay, BeforeFit, Alone
<1>2. /\ OutputOK' /\ EventsOK' /\ RoundsKept /\ faults' = faults
  BY <1>1, QuietOnItsWay
<1>3. CASE Goto("split")
  <2>1. ~late => current' = PhaseAt("split")
    BY <1>1, OnItsWayFacts, PhaseAtPlaces DEF IInv, EventsOK
  <2>2. "split" \in BeforeFit /\ main.at \in BeforeFit
    BY <1>1 DEF BeforeFit
  <2> QED
    BY <1>1, <1>2, <1>3, <2>1, <2>2, GoesOn
<1>4. ASSUME NEW cause \in {"query", "unreachable"}, Raise("classify", cause) PROVE IInv'
  <2>1. cause \in Causes /\ cause \in CausesOf(main.at)
    BY <1>1 DEF Causes, CausesOf
  <2> QED
    BY <1>1, <1>2, <1>4, <2>1, GivesUp
<1> QED
  BY <1>1, <1>3, <1>4

\* The rows are split, or there are too few.
LEMMA DivideKeeps ==
  ASSUME IInv, Divide
  PROVE  IInv'
<1>1. /\ main.at = "divide" /\ OnItsWay /\ UNCHANGED <<metrics, stop, current>> /\ Quiet
      /\ \/ Goto("execute")
         \/ \E cause \in {"empty", "small", "other"} : Raise("classify", cause)
  BY DEF Divide, OnItsWay, BeforeFit, Alone
<1>2. /\ OutputOK' /\ EventsOK' /\ RoundsKept /\ faults' = faults
  BY <1>1, QuietOnItsWay
<1>3. CASE Goto("execute")
  <2>1. ~late => current' = PhaseAt("execute")
    BY <1>1, OnItsWayFacts, PhaseAtPlaces DEF IInv, EventsOK
  <2>2. "execute" \in BeforeFit /\ main.at \in BeforeFit
    BY <1>1 DEF BeforeFit
  <2> QED
    BY <1>1, <1>2, <1>3, <2>1, <2>2, GoesOn
<1>4. ASSUME NEW cause \in {"empty", "small", "other"}, Raise("classify", cause) PROVE IInv'
  <2>1. cause \in Causes /\ cause \in CausesOf(main.at)
    BY <1>1 DEF Causes, CausesOf
  <2> QED
    BY <1>1, <1>2, <1>4, <2>1, GivesUp
<1> QED
  BY <1>1, <1>3, <1>4

-----------------------------------------------------------------------------
(* After the fit *)

\* The workers' evidence is read.
LEMMA EvidenceKeeps ==
  ASSUME IInv, Evidence
  PROVE  IInv'
<1>1. /\ main.at = "evidence" /\ OnItsWay /\ UNCHANGED <<metrics, stop, current>> /\ Quiet
      /\ Goto("materialize") \/ Raise("classify", "other")
  BY DEF Evidence, OnItsWay, AfterFit, Alone
<1>2. /\ OutputOK' /\ EventsOK' /\ RoundsKept /\ faults' = faults
  BY <1>1, QuietOnItsWay
<1>3. CASE Goto("materialize")
  <2>1. ~late => current' = PhaseAt("materialize")
    BY <1>1, OnItsWayFacts DEF IInv, EventsOK, PhaseAt
  <2>2. "materialize" \in AfterFit /\ main.at \in AfterFit
    BY <1>1 DEF AfterFit
  <2> QED
    BY <1>1, <1>2, <1>3, <2>1, <2>2, GoesOn
<1>4. CASE Raise("classify", "other")
  <2>1. "other" \in Causes /\ "other" \in CausesOf(main.at)
    BY <1>1 DEF Causes, CausesOf
  <2> QED
    BY <1>1, <1>2, <1>4, <2>1, GivesUp
<1> QED
  BY <1>1, <1>3, <1>4

\* The test rows are evaluated.
LEMMA EvaluateKeeps ==
  ASSUME IInv, Evaluate
  PROVE  IInv'
<1>1. /\ main.at = "evaluate" /\ OnItsWay /\ UNCHANGED <<metrics, stop, current>> /\ Quiet
      /\ Goto("export") \/ Raise("classify", "other")
  BY DEF Evaluate, OnItsWay, AfterFit, Alone
<1>2. /\ OutputOK' /\ EventsOK' /\ RoundsKept /\ faults' = faults
  BY <1>1, QuietOnItsWay
<1>3. CASE Goto("export")
  <2>1. ~late => current' = PhaseAt("export")
    BY <1>1, OnItsWayFacts DEF IInv, EventsOK, PhaseAt
  <2>2. "export" \in AfterFit /\ main.at \in AfterFit
    BY <1>1 DEF AfterFit
  <2> QED
    BY <1>1, <1>2, <1>3, <2>1, <2>2, GoesOn
<1>4. CASE Raise("classify", "other")
  <2>1. "other" \in Causes /\ "other" \in CausesOf(main.at)
    BY <1>1 DEF Causes, CausesOf
  <2> QED
    BY <1>1, <1>2, <1>4, <2>1, GivesUp
<1> QED
  BY <1>1, <1>3, <1>4

\* The bundle is exported.
LEMMA ExportKeeps ==
  ASSUME IInv, Export
  PROVE  IInv'
<1>1. /\ main.at = "export" /\ OnItsWay /\ UNCHANGED <<metrics, stop, current>> /\ Quiet
      /\ Goto("complete") \/ Raise("classify", "export")
  BY DEF Export, OnItsWay, AfterFit, Alone
<1>2. /\ OutputOK' /\ EventsOK' /\ RoundsKept /\ faults' = faults
  BY <1>1, QuietOnItsWay
<1>3. CASE Goto("complete")
  <2>1. ~late => current' = PhaseAt("complete")
    BY <1>1, OnItsWayFacts DEF IInv, EventsOK, PhaseAt
  <2>2. "complete" \in AfterFit /\ main.at \in AfterFit
    BY <1>1 DEF AfterFit
  <2> QED
    BY <1>1, <1>2, <1>3, <2>1, <2>2, GoesOn
<1>4. CASE Raise("classify", "export")
  <2>1. "export" \in Causes /\ "export" \in CausesOf(main.at)
    BY <1>1 DEF Causes, CausesOf
  <2> QED
    BY <1>1, <1>2, <1>4, <2>1, GivesUp
<1> QED
  BY <1>1, <1>3, <1>4

\* An outcome is published while the stream is open.
LEMMA EndKeeps ==
  ASSUME TypeOK, EventsOK, ~Closed, UNCHANGED <<worker, reported, late, stop, current>>,
         NEW m \in WireEvents, IsTerminal(m), m.round = 0, events' = Append(events, m),
         faults' \in Nat, faults' = 0 => faults = 0,
         main'.at = "done" \/ (main'.at = "classify" /\ m.type = "COMPLETED"),
         m.type = "COMPLETED" => {1, worker.trained} \subseteq reported,
         m.type = "FAILED" /\ main'.cause # "control" /\ faults' = 0 /\ ~late' =>
           m.code \in CodesOf(main'.stage)
  PROVE  OutputOK' /\ EventsOK' /\ RoundsKept
<1>1. /\ stop' \in StopCodes \cup {NoCode} /\ late' \in BOOLEAN /\ current' \in Phases
      /\ m.round <= worker.trained /\ UNCHANGED worker
      /\ worker'.trained = worker.trained /\ late => late'
  BY EventFacts DEF TypeOK, OutputOK
<1>2. OutputOK'
  BY <1>1, OutputGrow
<1>3. EventsOK'
  BY <1>1, EventsEnd
<1>4. RoundsKept
  BY Appended DEF RoundsKept
<1> QED
  BY <1>2, <1>3, <1>4

\* COMPLETED is published, or the publication fails and may have done it.
LEMMA CompleteKeeps ==
  ASSUME IInv, Complete
  PROVE  IInv'
<1> DEFINE m == Message("COMPLETED", "COMPLETED", NoCode, 0)
<1>1. main.at = "complete" /\ OnItsWay /\ UNCHANGED <<metrics, stop>>
  BY DEF Complete, OnItsWay, AfterFit, Alone
<1>2. /\ "export" \in Causes /\ "export" \in CausesOf(main.at)
      /\ "classify" \in MainPlaces /\ "done" \in MainPlaces
      /\ "done" \in BeforeFit \cup AfterFit \cup {"done"}
  BY <1>1 DEF Causes, CausesOf, MainPlaces
<1>3. CASE Quiet /\ UNCHANGED current
  <2>1. /\ OutputOK' /\ EventsOK' /\ RoundsKept /\ faults' = faults
        /\ current \in Phases /\ Position(current) <= Position(current)
    BY <1>1, <1>3, QuietOnItsWay
  <2>2. ASSUME Raise("classify", "export") PROVE IInv'
    BY <1>1, <1>2, <1>3, <2>1, <2>2, GivesUp
  <2>3. ASSUME RaiseControl("report", current) PROVE IInv'
    BY <1>1, <1>3, <2>1, <2>3, IsStopped
  <2>4. ASSUME Goto("done"), ~(Raise("classify", "export")) PROVE IInv'
    BY <1>1, <1>2, <1>3, <2>1, <2>4, GoesOn
  <2>5. Raise("classify", "export") \/ RaiseControl("report", current) \/ Goto("done")
    BY DEF Complete
  <2> QED
    BY <2>2, <2>3, <2>4, <2>5
<1>4. /\ m \in WireEvents /\ IsTerminal(m) /\ m.type = "COMPLETED" /\ m.round = 0
  <2>1. "COMPLETED" \in TerminalTypes /\ "COMPLETED" \in Phases /\ current \in Phases
    BY PhasesAre, EventFacts DEF TerminalTypes, IInv
  <2> QED
    BY <2>1, Outcomes
<1>5. /\ ~Closed /\ UNCHANGED <<worker, reported, late>>
      /\ {1, worker.trained} \subseteq reported
  <2>1. main.at \in AfterFit
    BY <1>1 DEF AfterFit
  <2> QED
    BY <1>1, <2>1, OnItsWayFacts DEF IInv, EventsOK, metrics
<1>6. CASE Goto("done") /\ Emit("COMPLETED", "COMPLETED", NoCode, 0) /\ NoFault
  <2>1. events' = Append(events, m) /\ UNCHANGED current
    BY <1>4, <1>5, <1>6, EmitFacts
  <2>2. faults' = faults /\ faults' \in Nat
    BY <1>6, FaultFacts DEF IInv
  <2>3. main'.at = "done"
    BY <1>2, <1>6, GotoFacts DEF IInv
  <2> HIDE DEF m
  <2>4. OutputOK' /\ EventsOK' /\ RoundsKept
    BY <1>1, <1>4, <1>5, <2>1, <2>2, <2>3, EndKeeps DEF IInv
  <2> QED
    BY <1>1, <1>2, <1>6, <2>2, <2>4, GoesOn
<1>7. CASE /\ Raise("classify", "export")
           /\ Unpublished("COMPLETED", "COMPLETED", NoCode, 0, current)
  <2>1. faults' \in Nat /\ faults' # 0 /\ UNCHANGED current
    BY <1>7, FaultFacts DEF Unpublished, IInv
  <2>2. main'.at = "classify"
    BY <1>2, <1>7, RaiseFacts DEF IInv
  <2>3. OutputOK' /\ EventsOK' /\ RoundsKept
    <3>1. CASE events' = Append(events, m)
      <4> HIDE DEF m
      <4> QED
        BY <1>1, <1>4, <1>5, <2>1, <2>2, <3>1, EndKeeps DEF IInv
    <3>2. CASE UNCHANGED events
      <4>1. /\ stop' \in StopCodes \cup {NoCode} /\ late' \in BOOLEAN /\ current' \in Phases
            /\ worker'.trained \in Nat /\ worker.trained <= worker'.trained
        BY <1>1, <1>5, <2>1, EventFacts DEF IInv, TypeOK, OutputOK
      <4>a. Position(current) <= Position(current')
        BY <2>1, <4>1, Positions
      <4>2. OutputOK'
        BY <2>1, <3>2, <4>1, OutputStill DEF IInv
      <4>3. EventsOK'
        BY <1>5, <2>1, <3>2, <4>1, <4>a, EventsStill DEF IInv
      <4> QED
        BY <3>2, <4>2, <4>3 DEF RoundsKept
    <3> QED
      BY <1>7, <3>1, <3>2 DEF Unpublished
  <2> QED
    BY <1>1, <1>2, <1>7, <2>1, <2>3, GivesUp
<1> QED
  BY <1>3, <1>6, <1>7 DEF Complete

-----------------------------------------------------------------------------
(* The failure is classified and reported *)

\* The causes that tell what failed, and what they tell.
LEMMA CauseTells ==
  ASSUME NEW phase
  PROVE  /\ Verdict("export", phase) = <<"MODEL_EXPORT_FAILED", "EVALUATING">>
         /\ Verdict("query", phase) = <<"DATA_QUERY_FAILED", "LOADING_DATA">>
         /\ Verdict("small", phase) = <<"DATA_QUERY_FAILED", "LOADING_DATA">>
         /\ Verdict("columns", phase) = <<"EXECUTION_FAILED", "LOADING_DATA">>
         /\ Verdict("empty", phase) = <<"EMPTY_DATASET", "LOADING_DATA">>
         /\ Verdict("unreachable", phase) = <<"DATA_SOURCE_UNREACHABLE", phase>>
         /\ \A cause : cause \notin {"export", "query", "small", "columns", "empty",
                                     "unreachable"} => Verdict(cause, phase) = OfPhase(phase)
<1>1. DOMAIN OfCause(phase) = {"export", "query", "small", "columns", "empty", "unreachable"}
  BY DEF OfCause
<1> QED
  BY <1>1 DEF Verdict, OfCause

\* What is made of a failure has its type.
LEMMA VerdictType ==
  ASSUME NEW cause, NEW phase \in Phases
  PROVE  LET verdict == Verdict(cause, phase)
         IN  /\ verdict[1] \in ProtocolCodes(op) \cup OpaqueCodes
             /\ verdict[2] \in Phases
             /\ verdict = <<verdict[1], verdict[2]>>
<1> DEFINE verdict == Verdict(cause, phase)
<1>1. {"MODEL_EXPORT_FAILED", "DATA_QUERY_FAILED", "EXECUTION_FAILED", "EMPTY_DATASET",
       "DATA_SOURCE_UNREACHABLE", "EVALUATION_FAILED", "TRAINING_FAILED"}
         \subseteq ProtocolCodes(op) \cup OpaqueCodes
  BY DEF ProtocolCodes, TrainingCodes, OpaqueCodes, op
<1>2. {"EVALUATING", "LOADING_DATA", phase} \subseteq Phases
  BY PhasesAre
<1>3. verdict \in (ProtocolCodes(op) \cup OpaqueCodes) \X Phases
  <2>1. OfPhase(phase) \in (ProtocolCodes(op) \cup OpaqueCodes) \X Phases
    BY <1>1, <1>2 DEF OfPhase
  <2>2. CASE cause \in {"export", "query", "small", "columns", "empty", "unreachable"}
    BY <1>1, <1>2, <2>2, CauseTells
  <2> QED
    BY <2>1, <2>2, CauseTells
<1> HIDE DEF verdict
<1> QED
  BY <1>3 DEF verdict

\* What is made of a failure fits the stage that failed.
LEMMA VerdictFits ==
  ASSUME NEW stage, NEW cause \in CausesOf(stage), cause # "config"
  PROVE  LET verdict == Verdict(cause, PhaseAt(stage))
         IN  /\ verdict[1] # "CANCELLED" /\ verdict[2] \in Phases
             /\ ErrorCode(op, verdict[1], verdict[2]) \in CodesOf(stage)
<1>1. \A code \in {"MODEL_EXPORT_FAILED", "DATA_QUERY_FAILED", "EMPTY_DATASET",
                   "DATA_SOURCE_UNREACHABLE", "EVALUATION_FAILED", "TRAINING_FAILED"} :
        \A phase : ErrorCode(op, code, phase) = code /\ code # "CANCELLED"
  BY DEF ErrorCode, InvalidCodes, ProtocolCodes, TrainingCodes, op
<1>2. ErrorCode(op, "EXECUTION_FAILED", "LOADING_DATA") = "DATA_QUERY_FAILED"
  BY DEF ErrorCode, InvalidCodes, ProtocolCodes, TrainingCodes, OpaqueCodes, CodeOfPhase, op
<1>3. {"LOADING_DATA", "DATA_SPLITTING", "TRAINING", "EVALUATING"} \subseteq Phases
  BY PhasesAre
<1>4. CASE stage = "load"
  <2>1. cause \in {"query", "columns"} /\ "DATA_QUERY_FAILED" \in CodesOf(stage)
    BY <1>4 DEF CausesOf, CodesOf
  <2> QED
    BY <1>1, <1>2, <1>3, <2>1, CauseTells
<1>5. CASE stage = "rows"
  <2>1. /\ cause \in {"query", "unreachable"} /\ PhaseAt(stage) = "LOADING_DATA"
        /\ {"DATA_QUERY_FAILED", "DATA_SOURCE_UNREACHABLE"} \subseteq CodesOf(stage)
    BY <1>5 DEF CausesOf, CodesOf, PhaseAt
  <2> QED
    BY <1>1, <1>3, <2>1, CauseTells
<1>6. CASE stage = "divide"
  <2>1. /\ cause \in {"empty", "small", "other"} /\ PhaseAt(stage) = "DATA_SPLITTING"
        /\ {"EMPTY_DATASET", "DATA_QUERY_FAILED"} \subseteq CodesOf(stage)
        /\ OfPhase("DATA_SPLITTING") = <<"DATA_QUERY_FAILED", "DATA_SPLITTING">>
    BY <1>6 DEF CausesOf, CodesOf, PhaseAt, OfPhase
  <2> QED
    BY <1>1, <1>3, <2>1, CauseTells
<1>7. CASE stage \in {"fit", "evidence"}
  <2>1. /\ cause = "other" /\ PhaseAt(stage) = "TRAINING"
        /\ "TRAINING_FAILED" \in CodesOf(stage)
        /\ OfPhase("TRAINING") = <<"TRAINING_FAILED", "TRAINING">>
    BY <1>7 DEF CausesOf, CodesOf, PhaseAt, OfPhase
  <2> QED
    BY <1>1, <1>3, <2>1, CauseTells
<1>8. CASE stage = "evaluate"
  <2>1. /\ cause = "other" /\ PhaseAt(stage) = "EVALUATING"
        /\ "EVALUATION_FAILED" \in CodesOf(stage)
        /\ OfPhase("EVALUATING") = <<"EVALUATION_FAILED", "EVALUATING">>
    BY <1>8 DEF CausesOf, CodesOf, PhaseAt, OfPhase
  <2> QED
    BY <1>1, <1>3, <2>1, CauseTells
<1>9. CASE stage \in {"export", "complete"}
  <2>1. cause = "export" /\ "MODEL_EXPORT_FAILED" \in CodesOf(stage)
    BY <1>9 DEF CausesOf, CodesOf
  <2> QED
    BY <1>1, <1>3, <2>1, CauseTells
<1> QED
  BY <1>4, <1>5, <1>6, <1>7, <1>8, <1>9 DEF CausesOf

\* The last steps of the main thread leave everything else where it is.
LEMMA LastStepsKeep ==
  ASSUME TypeOK, ThreadsOK, RoundsKept, main.at \in {"classify", "report"},
         main'.at \in {"report", "done"}, UNCHANGED <<metrics, stop>>,
         main'.stage = main.stage, main'.cause = main.cause,
         faults' = 0 => faults = 0, CauseFits'
  PROVE  ThreadsOK'
<1>0. UNCHANGED <<worker, queue, pump, reported, late>>
  BY DEF metrics
<1>1. /\ main'.at \notin BeforeFit \cup {"fit"} \cup InFinish \cup AfterFit
      /\ main.at \notin {"fit", "finish", "join"}
  BY DEF BeforeFit, InFinish, AfterFit
<1>2. WayOut'
  BY <1>1 DEF WayOut, ThreadsOK
<1>3. PumpPlace'
  BY <1>0, <1>1 DEF PumpPlace, ThreadsOK, Alive
<1>4. MadeUp'
  BY <1>1 DEF MadeUp, InFinish
<1>5. RoundsInOrder'
  <2>1. Punctual' => Punctual
    BY <1>0 DEF Punctual
  <2> QED
    BY <1>0, <2>1, StillInOrder DEF ThreadsOK
<1>6. PhaseKnown'
  BY DEF PhaseKnown
<1> QED
  BY <1>2, <1>3, <1>4, <1>5, <1>6 DEF ThreadsOK

\* What has been raised is classified.
LEMMA ClassifyKeeps ==
  ASSUME IInv, Classify
  PROVE  IInv'
<1> DEFINE verdict == Verdict(main.cause, current)
<1>1. main.at = "classify" /\ UNCHANGED <<metrics, stop, current>> /\ Quiet
  BY DEF Classify, Alone
<1>2. /\ verdict[1] \in ProtocolCodes(op) \cup OpaqueCodes /\ verdict[2] \in Phases
      /\ verdict = <<verdict[1], verdict[2]>>
  BY EventFacts, VerdictType DEF IInv
<1>3. main' = [main EXCEPT !.at = "report", !.code = verdict[1], !.phase = verdict[2]]
  BY DEF Classify
<1> HIDE DEF verdict
<1>4. /\ MainOK' /\ main'.at = "report" /\ main'.stage = main.stage
      /\ main'.cause = main.cause /\ main'.code = verdict[1] /\ main'.phase = verdict[2]
  BY <1>2, <1>3 DEF IInv, TypeOK, MainOK, MainPlaces
<1>5. /\ OutputOK' /\ EventsOK' /\ RoundsKept /\ faults' = faults
  <2>1. Closed => Ended("COMPLETED") /\ main'.at \in {"report", "done"}
    BY <1>1, <1>4 DEF IInv, EventsOK, OutcomeIsLast
  <2>2. current \in Phases /\ current' = current
    BY <1>1, EventFacts DEF IInv
  <2>3. Position(current) <= Position(current')
    BY <2>2, Positions
  <2> QED
    BY <1>1, <2>1, <2>2, <2>3, QuietKeeps DEF IInv
<1>6. CauseFits'
  <2> SUFFICES ASSUME faults' = 0, ~late', main'.cause \notin {"", "control"}
               PROVE  /\ main'.cause \in CausesOf(main'.stage)
                      /\ <<main'.code, main'.phase>>
                           = Verdict(main'.cause, PhaseAt(main'.stage))
    BY DEF CauseFits, CausesOf, Verdict, PhaseAt
  <2>1. faults = 0 /\ ~late
    BY <1>1, <1>5 DEF metrics
  <2>2. main.cause \in CausesOf(main.stage)
    BY <1>4, <2>1 DEF IInv, ThreadsOK, CauseFits
  <2>3. current = PhaseAt(main.stage)
    BY <1>1, <2>1 DEF IInv, ThreadsOK, PhaseKnown
  <2>4. verdict = Verdict(main.cause, PhaseAt(main.stage))
    BY <2>3 DEF verdict
  <2> QED
    BY <1>2, <1>4, <2>2, <2>4
<1>7. ThreadsOK'
  BY <1>1, <1>4, <1>5, <1>6, LastStepsKeep DEF IInv
<1> QED
  BY <1>1, <1>4, <1>5, <1>7, MetricsStill DEF IInv, TypeOK

\* What is reported of a failure fits the stage that failed.
LEMMA AnswerFits ==
  ASSUME IInv, main.at = "report", faults = 0, ~late, main.cause # "control"
  PROVE  LET m == Message(Answer[1], Answer[3], Answer[2], 0)
         IN  m.code \in CodesOf(main.stage)
<1>1. main.cause # "" /\ main.cause \in CausesOf(main.stage)
  BY DEF IInv, ThreadsOK, WayOut, CauseFits
<1>2. current \in Phases
  BY EventFacts DEF IInv
<1>3. CASE main.cause = "config"
  <2>1. main.stage = "config"
    BY <1>1, <1>3 DEF CausesOf
  <2>2. Answer = <<"FAILED", "INVALID_PAYLOAD", "QUEUED">>
    BY <1>3 DEF Answer
  <2>3. "QUEUED" \in Phases /\ "FAILED" \in TerminalTypes
    BY PhasesAre DEF TerminalTypes
  <2>4. Message("FAILED", "QUEUED", "INVALID_PAYLOAD", 0).code
          = ErrorCode(op, "INVALID_PAYLOAD",
                      Message("FAILED", "QUEUED", "INVALID_PAYLOAD", 0).phase)
    BY <1>2, <2>3, Outcomes
  <2>5. \A phase : ErrorCode(op, "INVALID_PAYLOAD", phase) = "INVALID_PAYLOAD"
    BY DEF ErrorCode, InvalidCodes, ProtocolCodes, TrainingCodes, op
  <2> QED
    BY <2>1, <2>2, <2>4, <2>5 DEF CodesOf
<1>4. CASE main.cause # "config"
  <2> DEFINE verdict == Verdict(main.cause, PhaseAt(main.stage))
  <2>1. <<main.code, main.phase>> = verdict
    BY <1>1, <1>4 DEF IInv, ThreadsOK, CauseFits
  <2>2. /\ verdict[1] # "CANCELLED" /\ verdict[2] \in Phases
        /\ ErrorCode(op, verdict[1], verdict[2]) \in CodesOf(main.stage)
    BY <1>1, <1>4, VerdictFits
  <2>3. main.code = verdict[1] /\ main.phase = verdict[2]
    BY <2>1
  <2> HIDE DEF verdict
  <2>4. Answer = <<"FAILED", main.code, main.phase>>
    BY <1>4, <2>2, <2>3 DEF Answer
  <2>5. "FAILED" \in TerminalTypes
    BY DEF TerminalTypes
  <2>6. LET m == Message("FAILED", main.phase, main.code, 0)
        IN  m.code = ErrorCode(op, main.code, main.phase)
    BY <1>2, <2>2, <2>3, <2>5, Outcomes
  <2> QED
    BY <2>2, <2>3, <2>4, <2>6
<1> QED
  BY <1>3, <1>4

\* What has been raised is reported.
LEMMA ReportKeeps ==
  ASSUME IInv, Report
  PROVE  IInv'
<1> DEFINE m == Message(Answer[1], Answer[3], Answer[2], 0)
<1>1. main.at = "report" /\ UNCHANGED <<metrics, stop>> /\ Goto("done")
  BY DEF Report, Alone
<1>2. /\ MainOK' /\ main'.at = "done" /\ main'.stage = main.stage
      /\ main'.cause = main.cause
  <2>1. "done" \in MainPlaces
    BY DEF MainPlaces
  <2> QED
    BY <1>1, <2>1, GotoFacts DEF IInv
<1>3. /\ Answer[1] \in {"FAILED", "CANCELLED"} /\ Answer[1] \in TerminalTypes
      /\ Answer[3] \in Phases \cup {NoPhase}
  BY PhasesAre DEF Answer, TerminalTypes, IInv, TypeOK, MainOK
<1>4. /\ m \in WireEvents /\ IsTerminal(m) /\ m.type # "COMPLETED" /\ m.round = 0
  <2>1. current \in Phases
    BY EventFacts DEF IInv
  <2> QED
    BY <1>3, <2>1, Outcomes
<1>5. /\ UNCHANGED current /\ (events' = events \/ (~Closed /\ events' = Append(events, m)))
  <2>1. CASE Emit(Answer[1], Answer[3], Answer[2], 0)
    BY <1>4, <2>1, EmitFacts
  <2>2. CASE Unpublished(Answer[1], Answer[3], Answer[2], 0, current)
    BY <2>2 DEF Unpublished
  <2> QED
    BY <2>1, <2>2 DEF Report
<1>6. faults' \in Nat /\ (faults' = 0 => faults = 0)
  BY FaultFacts DEF Report, Unpublished, IInv
<1>7. UNCHANGED <<worker, reported, late>>
  BY <1>1 DEF metrics
<1>8. faults' = 0 /\ ~late' /\ main'.cause # "control" => m.code \in CodesOf(main'.stage)
  BY <1>1, <1>2, <1>6, <1>7, AnswerFits
<1> HIDE DEF m
<1>9. OutputOK' /\ EventsOK' /\ RoundsKept
  <2>1. CASE ~Closed /\ events' = Append(events, m)
    BY <1>1, <1>2, <1>4, <1>5, <1>6, <1>7, <1>8, <2>1, EndKeeps DEF IInv
  <2>2. CASE UNCHANGED events
    <3>1. /\ stop' \in StopCodes \cup {NoCode} /\ late' \in BOOLEAN /\ current' \in Phases
          /\ worker'.trained \in Nat /\ worker.trained <= worker'.trained
          /\ worker'.trained = worker.trained
          /\ Position(current) <= Position(current')
      BY <1>1, <1>5, <1>7, EventFacts, Positions DEF IInv, TypeOK, OutputOK
    <3>2. OutputOK'
      BY <1>6, <2>2, <3>1, OutputStill DEF IInv
    <3>3. Closed => Ended("COMPLETED")
      BY <1>1 DEF IInv, EventsOK, OutcomeIsLast
    <3>4. EventsOK'
      BY <1>2, <1>6, <1>7, <2>2, <3>1, <3>3, EventsStill DEF IInv
    <3> QED
      BY <2>2, <3>2, <3>4 DEF RoundsKept
  <2> QED
    BY <1>5, <2>1, <2>2
<1>10. CauseFits'
  BY <1>2, <1>6, <1>7 DEF CauseFits, IInv, ThreadsOK
<1>11. ThreadsOK'
  BY <1>1, <1>2, <1>6, <1>9, <1>10, LastStepsKeep DEF IInv
<1> QED
  BY <1>1, <1>2, <1>9, <1>11, MetricsStill DEF IInv, TypeOK

-----------------------------------------------------------------------------
(* The fit *)

\* While the fit or finish() is at work the stream is open, the pump has been
\* started, and the reporter is in TRAINING.
LEMMA FitFacts ==
  ASSUME IInv, main.at \in {"fit"} \cup InFinish
  PROVE  /\ ~Closed /\ pump.at # "off" /\ (~late => current = "TRAINING")
         /\ main.at \notin BeforeFit \cup AfterFit \cup {"classify", "report", "done"}
         /\ current \in Phases /\ worker.trained \in Nat
<1>1. main.at \notin BeforeFit \cup AfterFit \cup {"classify", "report", "done"}
  BY DEF BeforeFit, AfterFit, InFinish
<1>2. PhaseAt(main.at) = "TRAINING"
  BY DEF PhaseAt, InFinish
<1> QED
  BY <1>1, <1>2, OpenBefore, EventFacts
     DEF IInv, EventsOK, ThreadsOK, PumpPlace, PhaseKnown

\* The EXECUTING phase is announced, and the pump started.
LEMMA ExecuteKeeps ==
  ASSUME IInv, Execute
  PROVE  IInv'
<1>1. /\ main.at = "execute" /\ OnItsWay /\ main.at \in BeforeFit
      /\ UNCHANGED <<worker, queue, reported, late, stop>>
      /\ pump' = IF main'.at = "fit" THEN [pump EXCEPT !.at = "get"] ELSE pump
  BY DEF Execute, Enter, OnItsWay, BeforeFit
<1>2. "EXECUTING" \in Given /\ MapPhase(op, "EXECUTING") = "TRAINING"
  BY MappedPhases DEF Given
<1>3. Position(PhaseAt(main.at)) <= Position(MapPhase(op, "EXECUTING"))
  BY <1>1, <1>2, PhaseAtPlaces
<1>4. CASE Goto("fit") /\ Emit("PHASE", "EXECUTING", NoCode, 0) /\ NoFault
  <2>1. /\ ~Closed /\ main.cause = "" /\ pump.at = "off" /\ ~late
        /\ worker.trained = 0 /\ queue = <<>> /\ reported = {}
    BY <1>1, OnItsWayFacts DEF IInv, EventsOK, ThreadsOK, PumpPlace
  <2>2. ~late => Position(current) <= Position(MapPhase(op, "EXECUTING"))
    BY <1>1, <1>2, <1>3, NotBehind
  <2>3. /\ OutputOK' /\ EventsOK' /\ RoundsKept /\ current' = "TRAINING"
        /\ faults' = 0 => faults = 0
    BY <1>1, <1>2, <1>4, <2>1, <2>2, TellKeeps DEF IInv
  <2>4. /\ MainOK' /\ main'.at = "fit" /\ main'.stage = main.stage
        /\ main'.cause = main.cause
    <3>1. "fit" \in MainPlaces
      BY DEF MainPlaces
    <3> QED
      BY <1>4, <3>1, GotoFacts DEF IInv
  <2>5. pump'.at = "get" /\ pump'.round = pump.round /\ FitOK'
    BY <1>1, <2>4 DEF IInv, TypeOK, FitOK
  <2>6. "fit" \notin BeforeFit \cup AfterFit \cup InFinish \cup {"classify", "report", "done"}
    BY DEF BeforeFit, AfterFit, InFinish
  <2>7. WayOut'
    BY <2>1, <2>4, <2>6 DEF WayOut, IInv, ThreadsOK
  <2>8. PumpPlace'
    BY <2>4, <2>5, <2>6 DEF PumpPlace
  <2>9. MadeUp'
    BY <2>4, <2>6 DEF MadeUp, InFinish
  <2>10. RoundsInOrder'
    <3>1. Punctual' => Punctual
      BY <1>1, <2>3 DEF Punctual
    <3>2. main'.at \notin {"first", "last"}
      BY <2>4
    <3> QED
      BY <1>1, <2>1, <2>3, <2>5, <3>1, <3>2, StillInOrder DEF IInv, ThreadsOK
  <2>11. PhaseKnown'
    BY <2>3, <2>4, PhaseAtPlaces DEF PhaseKnown
  <2>12. CauseFits'
    BY <2>1, <2>4 DEF CauseFits
  <2> QED
    BY <2>3, <2>4, <2>5, <2>7, <2>8, <2>9, <2>10, <2>11, <2>12
       DEF IInv, TypeOK, ThreadsOK
<1>5. CASE /\ RaiseControl("report", MapPhase(op, "EXECUTING")) /\ Checkpoint("EXECUTING")
           /\ Quiet
  <2>1. main'.at = "report"
    BY <1>5 DEF RaiseControl, IInv, TypeOK, MainOK
  <2>2. UNCHANGED <<metrics, stop>>
    BY <1>1, <2>1 DEF metrics
  <2> QED
    BY <1>1, <1>2, <1>3, <1>5, <2>2, EnterFails
<1>6. CASE /\ Raise("classify", "redis")
           /\ Unpublished("PHASE", "EXECUTING", NoCode, 0, MapPhase(op, "EXECUTING"))
  <2>1. main'.at = "classify"
    BY <1>6 DEF Raise, IInv, TypeOK, MainOK
  <2>2. UNCHANGED <<metrics, stop>>
    BY <1>1, <2>1 DEF metrics
  <2> QED
    BY <1>1, <1>2, <1>3, <1>6, <2>2, EnterFails
<1> QED
  BY <1>4, <1>5, <1>6 DEF Execute, Enter

\* The numbers of the metrics: where the rounds are.
LEMMA Numbers ==
  ASSUME TypeOK
  PROVE  /\ worker.trained \in 0..Rounds /\ Rounds \in Nat /\ Len(queue) \in Nat
         /\ queue \in Seq(1..worker.trained) /\ Held \in {0, 1} /\ Seen \in Int
         /\ pump.round \in 0..worker.trained /\ reported \subseteq 1..worker.trained
         /\ Seen = worker.trained - Len(queue) - Held
         /\ pump.at = "publish" => Held = 1 /\ pump.round \in 1..worker.trained
         /\ pump.at # "publish" => Held = 0
<1>1. /\ worker.trained \in 0..Rounds /\ queue \in Seq(1..worker.trained)
      /\ reported \subseteq 1..worker.trained
  BY DEF TypeOK, FitOK
<1>2. Rounds \in Nat
  BY RunAssumption
<1>3. pump.round \in 0..worker.trained
  BY DEF TypeOK, FitOK
<1>4. Held \in {0, 1} /\ (pump.at = "publish" => Held = 1) /\ (pump.at # "publish" => Held = 0)
  BY DEF Held
<1>5. Len(queue) \in Nat
  BY <1>1
<1>6. Seen \in Int /\ Seen = worker.trained - Len(queue) - Held
  BY <1>1, <1>2, <1>4, <1>5 DEF Seen
<1>7. pump.at = "publish" => pump.round \in 1..worker.trained
  <2>1. pump.at = "publish" => pump.round > 0
    BY DEF TypeOK, FitOK
  <2> QED
    BY <1>1, <1>2, <1>3, <2>1
<1> QED
  BY <1>1, <1>2, <1>3, <1>4, <1>5, <1>6, <1>7

\* What the order of the rounds says while everything is in time.
LEMMA OrderFacts ==
  ASSUME RoundsInOrder, Punctual
  PROVE  /\ Seen >= 0 /\ reported = 1..Seen
         /\ pump.at = "publish" => pump.round = Seen + 1
         /\ \A i \in 1..Len(queue) : queue[i] = Seen + Held + i
         /\ \A i \in 1..Len(events) : events[i].round <= Seen
         /\ main.at \in {"first", "last"} => queue = <<>>
BY DEF RoundsInOrder

\* A round has been trained, or more than one: the types of what is on its way.
LEMMA MoreRounds ==
  ASSUME TypeOK, UNCHANGED <<pump, reported>>,
         worker' \in [trained : 0..Rounds, missed : BOOLEAN],
         worker.trained <= worker'.trained,
         NEW round \in 1..worker'.trained,
         queue' = queue \/ queue' = Append(queue, round)
  PROVE  FitOK'
<1>1. 1..worker.trained \subseteq 1..worker'.trained /\ worker'.trained \in Int
  <2>1. worker'.trained \in 0..Rounds /\ worker.trained \in 0..Rounds /\ Rounds \in Nat
    BY RunAssumption DEF TypeOK, FitOK
  <2> QED
    BY <2>1
<1>2. queue' \in Seq(1..worker'.trained)
  <2>1. queue \in Seq(1..worker.trained)
    BY Numbers
  <2> DEFINE S == 1..worker.trained
             T == 1..worker'.trained
  <2>2. queue \in Seq(S) /\ S \subseteq T /\ round \in T
    BY <1>1, <2>1
  <2> HIDE DEF S, T
  <2>3. queue \in Seq(T)
    BY <2>2, SeqMonotonic
  <2>4. Append(queue, round) \in Seq(T)
    BY <2>2, <2>3
  <2>5. queue' \in Seq(T)
    BY <2>3, <2>4
  <2> QED
    BY <2>5 DEF T
<1>3. reported' \subseteq 1..worker'.trained
  BY <1>1 DEF TypeOK, FitOK
<1>4. 0..worker.trained \subseteq 0..worker'.trained
  <2>1. worker'.trained \in 0..Rounds /\ worker.trained \in 0..Rounds /\ Rounds \in Nat
    BY RunAssumption DEF TypeOK, FitOK
  <2> QED
    BY <2>1
<1>5. pump' \in [at : {"off", "get", "publish", "dead"}, round : 0..worker'.trained,
                 stop : BOOLEAN]
  <2> DEFINE S == 0..worker.trained
             T == 0..worker'.trained
  <2>1. pump \in [at : {"off", "get", "publish", "dead"}, round : S, stop : BOOLEAN]
    BY DEF TypeOK, FitOK
  <2>2. S \subseteq T
    BY <1>4
  <2> HIDE DEF S, T
  <2>3. pump' \in [at : {"off", "get", "publish", "dead"}, round : T, stop : BOOLEAN]
    BY <2>1, <2>2
  <2> QED
    BY <2>3 DEF T
<1>6. pump'.at = "publish" => pump'.round > 0
  BY DEF TypeOK, FitOK
<1> QED
  BY <1>2, <1>3, <1>5, <1>6 DEF FitOK

\* The types of what is on its way when no round is trained.
LEMMA FewerRounds ==
  ASSUME TypeOK, UNCHANGED worker,
         queue' \in {queue, <<>>} \/ (queue # <<>> /\ queue' = Tail(queue)),
         reported' \subseteq 1..worker.trained,
         NEW place \in {"off", "get", "publish", "dead"}, NEW round \in 0..worker.trained,
         NEW asked \in BOOLEAN, pump' = [at |-> place, round |-> round, stop |-> asked],
         place = "publish" => round > 0
  PROVE  FitOK'
<1>1. queue' \in Seq(1..worker'.trained)
  <2> DEFINE S == 1..worker.trained
  <2>1. queue \in Seq(S) /\ worker'.trained = worker.trained
    BY Numbers
  <2> HIDE DEF S
  <2>2. <<>> \in Seq(S) /\ (queue # <<>> => Tail(queue) \in Seq(S))
    BY <2>1
  <2>3. queue' \in Seq(S)
    BY <2>1, <2>2
  <2> QED
    BY <2>1, <2>3 DEF S
<1>2. worker' \in [trained : 0..Rounds, missed : BOOLEAN]
  BY DEF TypeOK, FitOK
<1>3. pump' \in [at : {"off", "get", "publish", "dead"}, round : 0..worker'.trained,
                 stop : BOOLEAN]
  OBVIOUS
<1>4. reported' \subseteq 1..worker'.trained
  OBVIOUS
<1>5. pump'.at = "publish" => pump'.round > 0
  OBVIOUS
<1> QED
  BY <1>1, <1>2, <1>3, <1>4, <1>5 DEF FitOK

\* What the pump is made of.
LEMMA PumpFacts ==
  ASSUME TypeOK
  PROVE  /\ pump = [at |-> pump.at, round |-> pump.round, stop |-> pump.stop]
         /\ pump.at \in {"off", "get", "publish", "dead"}
         /\ pump.round \in 0..worker.trained /\ pump.stop \in BOOLEAN
         /\ pump.at = "publish" => pump.round > 0
  BY DEF TypeOK, FitOK

\* The round at the head of the queue, and the rest of it.
LEMMA NextRound ==
  ASSUME TypeOK, RoundsInOrder, queue # <<>>
  PROVE  /\ Head(queue) \in 1..worker.trained
         /\ Len(queue) >= 1 /\ Len(Tail(queue)) = Len(queue) - 1
         /\ Punctual => /\ Head(queue) = Seen + Held + 1
                        /\ \A i \in 1..Len(Tail(queue)) :
                             Tail(queue)[i] = Seen + Held + 1 + i
<1> DEFINE S == 1..worker.trained
<1>1. queue \in Seq(S)
  BY Numbers
<1>2. Held \in Int /\ Seen \in Int
  BY Numbers
<1>3. Punctual => \A i \in 1..Len(queue) : queue[i] = Seen + Held + i
  BY OrderFacts
<1> HIDE DEF S, Seen, Held, Punctual
<1>4. /\ Head(queue) = queue[1] /\ Head(queue) \in S
      /\ Len(queue) \in Nat /\ Len(queue) >= 1 /\ Len(Tail(queue)) = Len(queue) - 1
      /\ \A i \in 1..Len(Tail(queue)) : Tail(queue)[i] = queue[i + 1]
  BY <1>1
<1>5. ASSUME Punctual
      PROVE  /\ Head(queue) = Seen + Held + 1
             /\ \A i \in 1..Len(Tail(queue)) : Tail(queue)[i] = Seen + Held + 1 + i
  BY <1>2, <1>3, <1>4, <1>5
<1> QED
  BY <1>4, <1>5 DEF S

\* A step that publishes nothing, of the fit, of finish() or of the pump.
LEMMA SilentKeeps ==
  ASSUME IInv, UNCHANGED <<events, current, stop, reported>>,
         \/ main.at \in {"fit"} \cup InFinish
         \/ UNCHANGED main /\ worker'.trained = worker.trained,
         worker'.trained \in Nat, worker.trained <= worker'.trained,
         late' \in BOOLEAN, late => late', faults' \in Nat, faults' = 0 => faults = 0
  PROVE  OutputOK' /\ EventsOK'
<1>1. /\ current' \in Phases /\ Position(current) <= Position(current')
      /\ stop' \in StopCodes \cup {NoCode}
  BY EventFacts, Positions DEF IInv, TypeOK, OutputOK
<1>2. Closed => UNCHANGED main /\ worker'.trained = worker.trained
  BY FitFacts
<1>3. OutputOK'
  BY <1>1, OutputStill DEF IInv
<1>4. EventsOK'
  BY <1>1, <1>2, EventsStill DEF IInv
<1> QED
  BY <1>3, <1>4

\* The main thread rests while a round is trained or the pump works.
LEMMA MainRests ==
  ASSUME IInv, UNCHANGED <<main, late>>, ~late => current' = current,
         faults' = 0 => faults = 0, pump.at # "off", pump'.at # "off", Alive' => Alive,
         reported \subseteq reported', main.at = "fit" \/ UNCHANGED worker
  PROVE  WayOut' /\ PumpPlace' /\ MadeUp' /\ PhaseKnown' /\ CauseFits'
<1>1. WayOut'
  BY DEF WayOut, IInv, ThreadsOK
<1>2. PumpPlace'
  BY DEF PumpPlace, IInv, ThreadsOK
<1>3. MadeUp'
  BY DEF MadeUp, IInv, ThreadsOK, InFinish, AfterFit
<1>4. PhaseKnown'
  BY DEF PhaseKnown, IInv, ThreadsOK
<1>5. CauseFits'
  BY DEF CauseFits, IInv, ThreadsOK
<1> QED
  BY <1>1, <1>2, <1>3, <1>4, <1>5

\* A step that reports nothing leaves the rounds in order, or is one that is
\* not punctual.
LEMMA RoundsRest ==
  ASSUME TypeOK, RoundsInOrder, UNCHANGED worker, faults' = 0 => faults = 0,
         Punctual' =>
           /\ Punctual /\ UNCHANGED <<queue, reported, events>>
           /\ pump'.at = "publish" <=> pump.at = "publish"
           /\ pump'.round = pump.round
           /\ main'.at \in {"first", "last"} => queue = <<>>
  PROVE  RoundsInOrder'
<1>1. faults' = 0 => ~worker'.missed
  BY DEF RoundsInOrder
<1>2. Punctual' => Seen' = Seen /\ Held' = Held
  BY DEF Seen, Held
<1>3. Punctual => /\ Seen >= 0 /\ reported = 1..Seen
                  /\ pump.at = "publish" => pump.round = Seen + 1
                  /\ \A i \in 1..Len(queue) : queue[i] = Seen + Held + i
                  /\ \A i \in 1..Len(events) : events[i].round <= Seen
  BY OrderFacts
<1> HIDE DEF Seen, Held, Punctual
<1>4. ASSUME Punctual'
      PROVE  /\ Seen' >= 0 /\ reported' = 1..Seen'
             /\ pump'.at = "publish" => pump'.round = Seen' + 1
             /\ \A i \in 1..Len(queue') : queue'[i] = Seen' + Held' + i
             /\ \A i \in 1..Len(events') : events'[i].round <= Seen'
             /\ main'.at \in {"first", "last"} => queue' = <<>>
  BY <1>2, <1>3, <1>4
<1> QED
  BY <1>1, <1>4 DEF RoundsInOrder

\* The main thread goes on in finish(), or leaves it.
LEMMA FinishMoves ==
  ASSUME IInv, main.at \in {"fit"} \cup InFinish, UNCHANGED worker,
         MainOK', FitOK', OutputOK', EventsOK', RoundsInOrder',
         late => late', faults' = 0 => faults = 0, pump'.at = pump.at,
         reported \subseteq reported', ~late' => current' = "TRAINING",
         \/ main'.at \in InFinish
         \/ main'.at = "evidence" /\ main'.cause = ""
         \/ main'.at = "classify" /\ main'.cause # ""
         \/ main'.at = "report" /\ main'.cause = "control",
         \/ main'.stage = main.stage /\ main'.cause = main.cause
         \/ /\ main'.stage = main.at /\ main'.cause # ""
            /\ faults' = 0 => \/ main'.cause = "control"
                              \/ main'.cause \in CausesOf(main.at)
            /\ main.stage # "fit",
         Alive /\ ~late' => main'.at \in {"finish", "join"},
         main.at = "fit" => main'.stage = "fit" \/ worker.trained > 0,
         main'.at \in {"last", "evidence"} /\ main'.stage # "fit" => 1 \in reported',
         main'.at = "evidence" => worker.trained \in reported'
  PROVE  IInv'
<1>0. /\ main'.at \notin BeforeFit \cup {"fit"} /\ (main'.at \in AfterFit => main'.at = "evidence")
      /\ "evidence" \notin InFinish /\ "classify" \notin InFinish /\ "report" \notin InFinish
      /\ "fit" \notin InFinish
      /\ {"classify", "report"} \cap AfterFit = {}
  BY DEF BeforeFit, AfterFit, InFinish
<1>1. main.stage \in {"", "fit"} \cup InFinish /\ (main.cause = "" => main.stage = "")
  BY DEF IInv, ThreadsOK, WayOut
<1>2. main'.stage \in {"", "fit"} \cup InFinish /\ (main'.cause = "" => main'.stage = "")
  BY <1>1
<1>3. WayOut'
  BY <1>0, <1>2 DEF WayOut
<1>4. PumpPlace'
  BY <1>0, FitFacts DEF PumpPlace, Alive
<1>5. MadeUp'
  <2>1. main'.at = "evidence" => main'.stage = ""
    BY <1>0, <1>2
  <2>2. main'.at \in InFinish /\ main'.stage # "fit" => worker.trained > 0
    BY <1>0 DEF IInv, ThreadsOK, MadeUp
  <2> QED
    BY <1>0, <2>1, <2>2 DEF MadeUp
<1>6. PhaseKnown'
  <2>1. \A place \in {"", "fit", "evidence"} \cup InFinish : PhaseAt(place) = "TRAINING"
    BY DEF PhaseAt, InFinish
  <2> QED
    BY <1>2, <2>1 DEF PhaseKnown
<1>7. CauseFits'
  <2> SUFFICES ASSUME faults' = 0, ~late', main'.cause \notin {"", "control"}
               PROVE  main'.cause \in CausesOf(main'.stage) /\ main'.at # "report"
    BY DEF CauseFits, CausesOf
  <2>1. main'.cause = main.cause /\ main'.stage = main.stage =>
          main.cause \in CausesOf(main.stage)
    BY DEF IInv, ThreadsOK, CauseFits
  <2> QED
    BY <1>0, <2>1
<1> QED
  BY <1>3, <1>4, <1>5, <1>6, <1>7 DEF IInv, TypeOK, ThreadsOK

\* A round is trained; what cannot be queued is lost, and that is a fault.
LEMMA TrainRoundKeeps ==
  ASSUME IInv, TrainRound
  PROVE  IInv'
<1>1. /\ main.at = "fit" /\ UNCHANGED <<main, pump, events, current, stop, late, reported>>
      /\ worker.trained < Rounds
  BY DEF TrainRound, Fitting
<1>2. /\ worker'.trained = worker.trained + 1 /\ worker'.missed \in BOOLEAN
      /\ worker' = [trained |-> worker'.trained, missed |-> worker'.missed]
  <2>1. CASE worker' = [trained |-> worker.trained + 1, missed |-> FALSE]
    BY <2>1
  <2>2. CASE worker' = [trained |-> worker.trained + 1, missed |-> TRUE]
    BY <2>2
  <2> QED
    BY <2>1, <2>2 DEF TrainRound
<1>3. /\ worker'.trained \in 0..Rounds /\ worker'.trained \in Nat
      /\ worker.trained <= worker'.trained
      /\ worker'.trained \in 1..worker'.trained
  <2>1. worker.trained \in 0..Rounds /\ Rounds \in Nat
    BY Numbers DEF IInv
  <2> QED
    BY <1>1, <1>2, <2>1
<1>4. queue' = queue \/ queue' = Append(queue, worker'.trained)
  BY <1>2 DEF TrainRound, Loses
<1>5. faults' \in Nat /\ (faults' = 0 => faults = 0)
  BY FaultFacts DEF TrainRound, Loses, IInv
<1>6. FitOK'
  <2>1. worker' \in [trained : 0..Rounds, missed : BOOLEAN]
    BY <1>2, <1>3
  <2> QED
    BY <1>1, <1>3, <1>4, <2>1, MoreRounds DEF IInv
<1>7. OutputOK' /\ EventsOK'
  <2>1. late' \in BOOLEAN
    BY <1>1 DEF IInv, TypeOK, OutputOK
  <2> QED
    BY <1>1, <1>3, <1>5, <2>1, SilentKeeps
<1>8. WayOut' /\ PumpPlace' /\ MadeUp' /\ PhaseKnown' /\ CauseFits'
  <2>1. pump.at # "off"
    BY <1>1, FitFacts
  <2> QED
    BY <1>1, <1>5, <2>1, MainRests DEF Alive
<1>9. RoundsInOrder'
  <2>1. \/ /\ queue' = Append(queue, worker'.trained) /\ worker'.missed = FALSE
           /\ faults' = faults
        \/ faults' # 0
    BY <1>2, FaultFacts DEF TrainRound, Loses, NoFault, IInv
  <2>2. faults' = 0 => ~worker'.missed
    BY <2>1
  <2>3. ASSUME Punctual'
        PROVE  /\ Seen' >= 0 /\ reported' = 1..Seen'
               /\ pump'.at = "publish" => pump'.round = Seen' + 1
               /\ \A i \in 1..Len(queue') : queue'[i] = Seen' + Held' + i
               /\ \A i \in 1..Len(events') : events'[i].round <= Seen'
    <3>1. Punctual /\ queue' = Append(queue, worker'.trained)
      BY <1>1, <2>1, <2>3 DEF Punctual
    <3>2. Held' = Held
      BY <1>1 DEF Held
    <3>3. /\ Len(queue) \in Nat /\ Len(queue') = Len(queue) + 1
          /\ queue'[Len(queue) + 1] = worker'.trained
          /\ \A i \in 1..Len(queue) : queue'[i] = queue[i]
      <4> DEFINE S == 1..worker.trained
      <4>1. queue \in Seq(S)
        BY Numbers DEF IInv
      <4> HIDE DEF S
      <4> QED
        BY <3>1, <4>1
    <3>4. /\ Held \in {0, 1} /\ worker.trained \in Int
          /\ Seen = worker.trained - Len(queue) - Held
      BY Numbers DEF IInv
    <3>5. Seen' = worker'.trained - Len(queue') - Held'
      BY DEF Seen
    <3>6. /\ Seen >= 0 /\ reported = 1..Seen
          /\ pump.at = "publish" => pump.round = Seen + 1
          /\ \A i \in 1..Len(queue) : queue[i] = Seen + Held + i
          /\ \A i \in 1..Len(events) : events[i].round <= Seen
      BY <3>1, OrderFacts DEF IInv, ThreadsOK
    <3> HIDE DEF Seen, Held
    <3>7. Seen' = Seen
      BY <1>2, <3>2, <3>3, <3>4, <3>5
    <3>8. \A i \in 1..Len(queue') : queue'[i] = Seen' + Held' + i
      <4> TAKE i \in 1..Len(queue')
      <4>1. CASE i \in 1..Len(queue)
        BY <3>2, <3>3, <3>6, <3>7, <4>1
      <4>2. CASE i = Len(queue) + 1
        BY <1>2, <3>2, <3>3, <3>4, <3>7, <4>2
      <4> QED
        BY <3>3, <4>1, <4>2
    <3> QED
      BY <1>1, <3>6, <3>7, <3>8
  <2> QED
    BY <1>1, <2>2, <2>3 DEF RoundsInOrder
<1> QED
  BY <1>1, <1>6, <1>7, <1>8, <1>9 DEF IInv, TypeOK, MainOK, ThreadsOK

\* The fit ends; a last round that was lost is put into the queue once more.
LEMMA FitEndsKeeps ==
  ASSUME IInv, FitEnds
  PROVE  IInv'
<1>1. /\ main.at = "fit" /\ worker.trained > 0 /\ Goto("finish")
      /\ UNCHANGED <<worker, pump, events, current, stop, late, reported>>
  BY DEF FitEnds, Fitting
<1>2. /\ MainOK' /\ main'.at = "finish" /\ main'.stage = main.stage
      /\ main'.cause = main.cause
  <2>1. "finish" \in MainPlaces
    BY DEF MainPlaces
  <2> QED
    BY <1>1, <2>1, GotoFacts DEF IInv
<1>3. faults' \in Nat /\ (faults' = 0 => faults = 0)
  <2>1. faults \in Nat
    BY DEF IInv, TypeOK, OutputOK
  <2> QED
    BY <2>1, FaultFacts DEF FitEnds, Loses, IInv
<1>4. queue' = queue \/ queue' = Append(queue, worker.trained)
  BY DEF FitEnds, Loses
<1>5. FitOK'
  <2>1. /\ worker.trained \in 1..worker'.trained /\ worker.trained <= worker'.trained
    <3>1. worker.trained \in Nat /\ worker'.trained = worker.trained
      BY <1>1, FitFacts
    <3> QED
      BY <1>1, <3>1
  <2>2. worker' \in [trained : 0..Rounds, missed : BOOLEAN]
    BY <1>1 DEF IInv, TypeOK, FitOK
  <2> QED
    BY <1>1, <1>4, <2>1, <2>2, MoreRounds DEF IInv
<1>6. OutputOK' /\ EventsOK'
  <2>1. /\ late' \in BOOLEAN /\ worker'.trained \in Nat
        /\ worker.trained <= worker'.trained
    BY <1>1, FitFacts DEF IInv, TypeOK, OutputOK
  <2> QED
    BY <1>1, <1>3, <2>1, SilentKeeps
<1>7. RoundsInOrder'
  <2>1. faults' = 0 => queue' = queue
    <3>1. faults = 0 => ~worker.missed
      BY DEF IInv, ThreadsOK, RoundsInOrder
    <3> QED
      BY <1>3, <3>1, FaultFacts DEF FitEnds, Loses, IInv
  <2>2. Punctual' => Punctual /\ queue' = queue
    BY <1>1, <1>3, <2>1 DEF Punctual
  <2> QED
    BY <1>1, <1>2, <1>3, <2>2, RoundsRest DEF IInv, ThreadsOK
<1>8. ~late' => current' = "TRAINING"
  BY <1>1, FitFacts
<1>9. main'.at \in InFinish
  BY <1>2 DEF InFinish
<1> QED
  BY <1>1, <1>2, <1>3, <1>5, <1>6, <1>7, <1>8, <1>9, FinishMoves

\* The fit fails.
LEMMA FitFailsKeeps ==
  ASSUME IInv, FitFails
  PROVE  IInv'
<1>1. /\ main.at = "fit" /\ Raise("finish", "other")
      /\ UNCHANGED <<worker, queue, pump, faults, events, current, stop, late, reported>>
  BY DEF FitFails, Fitting
<1>2. /\ MainOK' /\ main'.at = "finish" /\ main'.stage = "fit" /\ main'.cause = "other"
  <2>1. "finish" \in MainPlaces /\ "other" \in Causes
    BY DEF MainPlaces, Causes
  <2> QED
    BY <1>1, <2>1, RaiseFacts DEF IInv
<1>3. FitOK'
  BY <1>1 DEF IInv, TypeOK, FitOK
<1>4. OutputOK' /\ EventsOK'
  <2>1. /\ late' \in BOOLEAN /\ worker'.trained \in Nat /\ faults' \in Nat
        /\ worker.trained <= worker'.trained
    BY <1>1, FitFacts DEF IInv, TypeOK, OutputOK
  <2> QED
    BY <1>1, <2>1, SilentKeeps
<1>5. RoundsInOrder'
  <2>1. Punctual' => Punctual
    BY <1>1 DEF Punctual
  <2> QED
    BY <1>1, <1>2, <2>1, RoundsRest DEF IInv, ThreadsOK
<1>6. ~late' => current' = "TRAINING"
  BY <1>1, FitFacts
<1>7. main'.at \in InFinish /\ "other" \in CausesOf("fit")
  BY <1>2 DEF InFinish, CausesOf
<1>8. main.stage # "fit"
  BY <1>1 DEF IInv, ThreadsOK, WayOut
<1> QED
  BY <1>1, <1>2, <1>3, <1>4, <1>5, <1>6, <1>7, <1>8, FinishMoves

-----------------------------------------------------------------------------
(* The pump *)

\* Where the pump is at work the main thread is at finish() or before, or has
\* given up on it.
LEMMA PumpAtWork ==
  ASSUME IInv, Alive
  PROVE  /\ ~late => main.at \in {"fit", "finish", "join"} /\ current = "TRAINING" /\ ~Closed
         /\ pump.at # "off"
<1>1. main.at \in {"fit", "finish", "join"} => main.at \in {"fit"} \cup InFinish
  BY DEF InFinish
<1> QED
  BY <1>1, FitFacts DEF IInv, ThreadsOK, PumpPlace, Alive

\* The pump takes a round; one that has been reported it drops.
LEMMA PumpGetKeeps ==
  ASSUME IInv, PumpGet
  PROVE  IInv'
<1>1. /\ pump.at = "get" /\ queue # <<>> /\ queue' = Tail(queue)
      /\ UNCHANGED <<main, worker, stop, late, reported, current, events, faults>>
  BY DEF PumpGet, PumpLocal, Quiet
<1> DEFINE round == Head(queue)
<1>2. /\ pump' = [at |-> pump'.at, round |-> round, stop |-> pump.stop]
      /\ pump'.at = (IF round \in reported THEN "get" ELSE "publish")
      /\ pump'.round = round
  <2>1. pump = [at |-> pump.at, round |-> pump.round, stop |-> pump.stop]
    BY PumpFacts DEF IInv
  <2> QED
    BY <2>1 DEF PumpGet
<1>3. /\ round \in 1..worker.trained
      /\ Len(queue) >= 1 /\ Len(queue') = Len(queue) - 1
      /\ Punctual => /\ round = Seen + Held + 1
                     /\ \A i \in 1..Len(queue') : queue'[i] = Seen + Held + 1 + i
  BY <1>1, NextRound DEF IInv, ThreadsOK
<1>4. worker.trained \in Nat /\ Len(queue) \in Nat /\ Seen \in Int
      /\ Seen = worker.trained - Len(queue) - Held /\ Held = 0
  <2>1. worker.trained \in Nat
    BY EventFacts DEF IInv
  <2> QED
    BY <1>1, <2>1, Numbers DEF IInv
<1> HIDE DEF round
<1>5. FitOK'
  <2>1. round \in 0..worker.trained /\ round > 0 /\ pump.stop \in BOOLEAN
    BY <1>3, <1>4, PumpFacts DEF IInv
  <2>2. reported' \subseteq 1..worker.trained
    BY <1>1, Numbers DEF IInv
  <2>3. pump'.at \in {"off", "get", "publish", "dead"}
    BY <1>2
  <2> QED
    BY <1>1, <1>2, <2>1, <2>2, <2>3, FewerRounds DEF IInv
<1>6. OutputOK' /\ EventsOK'
  <2>1. /\ late' \in BOOLEAN /\ worker'.trained \in Nat /\ faults' \in Nat
        /\ worker.trained <= worker'.trained
    BY <1>1, <1>4 DEF IInv, TypeOK, OutputOK
  <2> QED
    BY <1>1, <2>1, SilentKeeps
<1>7. WayOut' /\ PumpPlace' /\ MadeUp' /\ PhaseKnown' /\ CauseFits'
  BY <1>1, <1>2, MainRests DEF Alive
<1>8. RoundsInOrder'
  <2>1. faults' = 0 => ~worker'.missed
    BY <1>1 DEF IInv, ThreadsOK, RoundsInOrder
  <2>2. ASSUME Punctual'
        PROVE  /\ Seen' >= 0 /\ reported' = 1..Seen'
               /\ pump'.at = "publish" => pump'.round = Seen' + 1
               /\ \A i \in 1..Len(queue') : queue'[i] = Seen' + Held' + i
               /\ \A i \in 1..Len(events') : events'[i].round <= Seen'
               /\ main'.at \notin {"first", "last"}
    <3>1. Punctual
      BY <1>1, <2>2 DEF Punctual
    <3>2. /\ Seen >= 0 /\ reported = 1..Seen
          /\ \A i \in 1..Len(events) : events[i].round <= Seen
          /\ main.at \notin {"first", "last"}
      BY <1>1, <3>1, OrderFacts DEF IInv, ThreadsOK
    <3>3. round = Seen + 1
      BY <1>3, <1>4, <3>1
    <3>4. pump'.at = "publish" /\ Held' = 1
      <4>1. round \notin reported
        BY <1>4, <3>2, <3>3
      <4> QED
        BY <1>2, <4>1 DEF Held
    <3>5. Seen' = worker.trained - Len(queue') - 1
      BY <1>1, <3>4 DEF Seen
    <3> HIDE DEF Seen, Held
    <3>6. Seen' = Seen
      BY <1>3, <1>4, <3>5
    <3>7. \A i \in 1..Len(queue') : queue'[i] = Seen' + Held' + i
      BY <1>3, <1>4, <3>1, <3>4, <3>6
    <3> QED
      BY <1>1, <1>2, <3>2, <3>3, <3>6, <3>7
  <2> QED
    BY <2>1, <2>2 DEF RoundsInOrder
<1> QED
  BY <1>1, <1>5, <1>6, <1>7, <1>8 DEF IInv, TypeOK, MainOK, ThreadsOK

\* One more round has been reported, the one that was next.
LEMMA OneMore ==
  ASSUME IInv, UNCHANGED worker, NEW round, faults' = 0 => faults = 0,
         pump'.at # "publish",
         Punctual' =>
           /\ Punctual /\ round = Seen + 1 /\ reported' = reported \cup {round}
           /\ events' = Append(events, Message("METRICS", "EXECUTING", NoCode, round))
           /\ Len(queue') = Len(queue) + Held - 1
           /\ \A i \in 1..Len(queue') : queue'[i] = Seen + 1 + i
           /\ main'.at \in {"first", "last"} => queue' = <<>>
  PROVE  RoundsInOrder'
<1>1. faults' = 0 => ~worker'.missed
  BY DEF IInv, ThreadsOK, RoundsInOrder
<1>2. ASSUME Punctual'
      PROVE  /\ Seen' >= 0 /\ reported' = 1..Seen'
             /\ \A i \in 1..Len(queue') : queue'[i] = Seen' + Held' + i
             /\ \A i \in 1..Len(events') : events'[i].round <= Seen'
  <2> DEFINE m == Message("METRICS", "EXECUTING", NoCode, round)
  <2>1. /\ Punctual /\ round = Seen + 1 /\ reported' = reported \cup {round}
        /\ events' = Append(events, m)
        /\ Len(queue') = Len(queue) + Held - 1
        /\ \A i \in 1..Len(queue') : queue'[i] = Seen + 1 + i
    BY <1>2
  <2>2. /\ Seen >= 0 /\ reported = 1..Seen
        /\ \A i \in 1..Len(events) : events[i].round <= Seen
    BY <2>1, OrderFacts DEF IInv, ThreadsOK
  <2>3. /\ worker.trained \in Int /\ Len(queue) \in Nat /\ Held \in {0, 1} /\ Seen \in Int
        /\ Seen = worker.trained - Len(queue) - Held
    BY Numbers DEF IInv
  <2>4. Held' = 0 /\ Seen' = worker.trained - Len(queue') - 0
    BY DEF Seen, Held
  <2>5. m \in WireEvents /\ m.round = round
    <3>1. "METRICS" \in {"PHASE", "LOG", "METRICS"} /\ "EXECUTING" \in Given /\ round \in Nat
      BY <2>1, <2>2, <2>3 DEF Given
    <3> QED
      BY <3>1, Reporting
  <2> HIDE DEF Seen, Held, m
  <2>6. Seen' = Seen + 1
    BY <2>1, <2>3, <2>4
  <2>7. reported' = 1..Seen'
    <3>1. reported' = (1..Seen) \cup {Seen + 1}
      BY <2>1, <2>2
    <3>2. (1..Seen) \cup {Seen + 1} = 1..(Seen + 1)
      BY <2>2, <2>3
    <3> QED
      BY <2>6, <3>1, <3>2
  <2>8. \A i \in 1..Len(events') : events'[i].round <= Seen'
    <3> TAKE i \in 1..Len(events')
    <3>1. CASE i \in 1..Len(events)
      <4>1. events'[i] = events[i] /\ events[i].round \in Nat
        BY <2>1, <2>5, <3>1, Appended, EventFacts DEF IInv
      <4> QED
        BY <2>2, <2>3, <2>6, <3>1, <4>1
    <3>2. CASE i = Len(events) + 1
      <4>1. events'[i] = m
        BY <2>1, <2>5, <3>2, Appended DEF IInv
      <4> QED
        BY <2>1, <2>3, <2>5, <2>6, <4>1
    <3> QED
      BY <2>1, <2>5, <3>1, <3>2, Appended DEF IInv
  <2>9. \A i \in 1..Len(queue') : queue'[i] = Seen' + Held' + i
    BY <2>1, <2>3, <2>4, <2>6
  <2> QED
    BY <2>2, <2>3, <2>6, <2>7, <2>8, <2>9
<1> QED
  BY <1>1, <1>2 DEF RoundsInOrder

\* The pump reports its round, or fails to.
LEMMA PumpPublishKeeps ==
  ASSUME IInv, PumpPublish
  PROVE  IInv'
<1> DEFINE round == pump.round
<1>1. /\ pump.at = "publish" /\ Alive
      /\ Metrics(round) \/ MetricsRaise(round)
      /\ UNCHANGED <<main, worker, stop, late, queue>>
      /\ pump' = [pump EXCEPT !.at = "get"]
  BY DEF PumpPublish, PumpLocal, Alive
<1>2. pump' = [at |-> "get", round |-> round, stop |-> pump.stop] /\ Alive'
  <2>1. pump = [at |-> pump.at, round |-> pump.round, stop |-> pump.stop]
    BY PumpFacts DEF IInv
  <2> QED
    BY <1>1, <2>1 DEF Alive
<1>3. round \in 1..worker.trained /\ Held = 1
  BY <1>1, Numbers DEF IInv
<1>4. Punctual => round = Seen + 1 /\ \A i \in 1..Len(events) : events[i].round < round
  <2> SUFFICES ASSUME Punctual
               PROVE  round = Seen + 1 /\ \A i \in 1..Len(events) : events[i].round < round
    OBVIOUS
  <2>1. round = Seen + 1 /\ \A i \in 1..Len(events) : events[i].round <= Seen
    BY <1>1, OrderFacts DEF IInv, ThreadsOK
  <2>2. Seen \in Int /\ \A i \in 1..Len(events) : events[i].round \in Nat
    BY Numbers, EventFacts DEF IInv
  <2> HIDE DEF Seen, round
  <2> QED
    BY <2>1, <2>2
<1> HIDE DEF round
<1>5. /\ ~late => main.at \in {"fit", "finish", "join"} /\ current = "TRAINING" /\ ~Closed
      /\ pump.at # "off"
  BY <1>1, PumpAtWork
<1>6. /\ OutputOK' /\ EventsOK'
      /\ ~late => current' = "TRAINING"
      /\ reported' \in {reported, reported \cup {round}}
      /\ faults' = 0 => faults = 0
      /\ Punctual' => /\ reported' = reported \cup {round}
                      /\ events' = Append(events, Message("METRICS", "EXECUTING", NoCode, round))
  BY <1>1, <1>3, <1>4, <1>5, MetricsKeep DEF IInv
<1>7. FitOK'
  <2>1. reported' \subseteq 1..worker.trained
    BY <1>3, <1>6, Numbers DEF IInv
  <2>2. round \in 0..worker.trained /\ pump.stop \in BOOLEAN
    BY PumpFacts DEF IInv, round
  <2> QED
    BY <1>1, <1>2, <2>1, <2>2, FewerRounds DEF IInv
<1>8. WayOut' /\ PumpPlace' /\ MadeUp' /\ PhaseKnown' /\ CauseFits'
  <2>1. ~late => current' = current
    BY <1>5, <1>6
  <2>2. pump'.at # "off" /\ reported \subseteq reported'
    BY <1>2, <1>6
  <2> QED
    BY <1>1, <1>5, <1>6, <2>1, <2>2, MainRests
<1>9. RoundsInOrder'
  <2>1. pump'.at # "publish"
    BY <1>2
  <2>2. ASSUME Punctual'
        PROVE  /\ Punctual /\ round = Seen + 1
               /\ Len(queue') = Len(queue) + Held - 1
               /\ \A i \in 1..Len(queue') : queue'[i] = Seen + 1 + i
               /\ main'.at \notin {"first", "last"}
    <3>1. Punctual
      BY <1>1, <1>6, <2>2 DEF Punctual
    <3>2. \A i \in 1..Len(queue) : queue[i] = Seen + Held + i
      BY <3>1, OrderFacts DEF IInv, ThreadsOK
    <3>3. main.at \notin {"first", "last"}
      BY <1>5, <3>1 DEF Punctual
    <3>4. Len(queue) \in Nat /\ Seen \in Int
      BY Numbers DEF IInv
    <3> HIDE DEF Seen, Held
    <3>5. /\ Len(queue') = Len(queue) + Held - 1
          /\ \A i \in 1..Len(queue') : queue'[i] = Seen + 1 + i
      BY <1>1, <1>3, <3>2, <3>4
    <3> QED
      BY <1>1, <1>4, <3>1, <3>3, <3>5
  <2> QED
    BY <1>1, <1>6, <2>1, <2>2, OneMore
<1> QED
  BY <1>1, <1>6, <1>7, <1>8, <1>9 DEF IInv, TypeOK, MainOK, ThreadsOK

\* The pump ends when it has been asked to and finds nothing.
LEMMA PumpEndsKeeps ==
  ASSUME IInv, PumpEnds
  PROVE  IInv'
<1>1. /\ pump.at = "get" /\ pump' = [pump EXCEPT !.at = "dead"]
      /\ UNCHANGED <<main, worker, stop, late, queue, reported, current, events, faults>>
  BY DEF PumpEnds, PumpLocal, Quiet
<1>2. pump' = [at |-> "dead", round |-> pump.round, stop |-> pump.stop]
  <2>1. pump = [at |-> pump.at, round |-> pump.round, stop |-> pump.stop]
    BY PumpFacts DEF IInv
  <2> QED
    BY <1>1, <2>1
<1>3. FitOK'
  <2>1. reported' \subseteq 1..worker.trained
    BY <1>1, Numbers DEF IInv
  <2>2. pump.round \in 0..worker.trained /\ pump.stop \in BOOLEAN
    BY PumpFacts DEF IInv
  <2> QED
    BY <1>1, <1>2, <2>1, <2>2, FewerRounds DEF IInv
<1>4. OutputOK' /\ EventsOK'
  <2>1. /\ late' \in BOOLEAN /\ worker'.trained \in Nat /\ faults' \in Nat
        /\ worker.trained <= worker'.trained
    BY <1>1, EventFacts DEF IInv, TypeOK, OutputOK
  <2> QED
    BY <1>1, <2>1, SilentKeeps
<1>5. WayOut' /\ PumpPlace' /\ MadeUp' /\ PhaseKnown' /\ CauseFits'
  BY <1>1, <1>2, MainRests DEF Alive
<1>6. RoundsInOrder'
  <2>1. Punctual' => Punctual
    BY <1>1 DEF Punctual
  <2>2. Punctual => (main.at \in {"first", "last"} => queue = <<>>)
    BY OrderFacts DEF IInv, ThreadsOK
  <2>3. pump'.round = pump.round /\ pump'.at # "publish" /\ pump.at # "publish"
    BY <1>1, <1>2
  <2> QED
    BY <1>1, <2>1, <2>2, <2>3, RoundsRest DEF IInv, ThreadsOK
<1> QED
  BY <1>1, <1>3, <1>4, <1>5, <1>6 DEF IInv, TypeOK, MainOK, ThreadsOK

-----------------------------------------------------------------------------
(* finish() *)

\* In finish() after the join the pump is not at work, unless it is late.
LEMMA AfterTheJoin ==
  ASSUME IInv, main.at \in {"drain", "first", "last"}
  PROVE  /\ Alive => late
         /\ Punctual => Held = 0 /\ pump.at # "publish"
         /\ main.at \in {"fit"} \cup InFinish
BY DEF IInv, ThreadsOK, PumpPlace, Alive, Punctual, Held, InFinish

\* The metrics that finish() leaves as they are, but for the pump's event.
LEMMA FinishLeaves ==
  ASSUME IInv, UNCHANGED <<worker, queue, reported>>,
         UNCHANGED pump \/ pump' = [pump EXCEPT !.stop = TRUE]
  PROVE  FitOK' /\ pump'.at = pump.at /\ pump'.round = pump.round
<1>1. pump = [at |-> pump.at, round |-> pump.round, stop |-> pump.stop]
  BY PumpFacts DEF IInv
<1> DEFINE asked == pump'.stop
<1>2. /\ pump' = [at |-> pump.at, round |-> pump.round, stop |-> asked]
      /\ asked \in BOOLEAN
  <2>1. CASE UNCHANGED pump
    BY <1>1, <2>1, PumpFacts DEF IInv
  <2>2. CASE pump' = [pump EXCEPT !.stop = TRUE]
    BY <1>1, <2>2
  <2> QED
    BY <2>1, <2>2
<1> HIDE DEF asked
<1>3. reported' \subseteq 1..worker.trained
  BY Numbers DEF IInv
<1>4. /\ pump.at \in {"off", "get", "publish", "dead"} /\ pump.round \in 0..worker.trained
      /\ pump.at = "publish" => pump.round > 0
  BY PumpFacts DEF IInv
<1>5. FitOK'
  BY <1>2, <1>3, <1>4, FewerRounds DEF IInv
<1> QED
  BY <1>2, <1>5

\* finish() sets the pump's event.
LEMMA FinishStopKeeps ==
  ASSUME IInv, FinishStop
  PROVE  IInv'
<1>1. /\ main.at = "finish" /\ main.at \in InFinish /\ Goto("join")
      /\ pump' = [pump EXCEPT !.stop = TRUE]
      /\ UNCHANGED <<worker, queue, reported, current, late, stop, events, faults>>
  BY DEF FinishStop, Finishing, Quiet, InFinish
<1>2. /\ MainOK' /\ main'.at = "join" /\ main'.stage = main.stage
      /\ main'.cause = main.cause
  <2>1. "join" \in MainPlaces
    BY DEF MainPlaces
  <2> QED
    BY <1>1, <2>1, GotoFacts DEF IInv
<1>3. FitOK' /\ pump'.at = pump.at /\ pump'.round = pump.round
  BY <1>1, FinishLeaves
<1>4. OutputOK' /\ EventsOK'
  <2>1. /\ late' \in BOOLEAN /\ worker'.trained \in Nat /\ faults' \in Nat
        /\ worker.trained <= worker'.trained
    BY <1>1, EventFacts DEF IInv, TypeOK, OutputOK
  <2> QED
    BY <1>1, <2>1, SilentKeeps
<1>5. RoundsInOrder'
  <2>1. Punctual' => Punctual
    BY <1>1 DEF Punctual
  <2> QED
    BY <1>1, <1>2, <1>3, <2>1, RoundsRest DEF IInv, ThreadsOK
<1>6. ~late' => current' = "TRAINING"
  BY <1>1, FitFacts
<1>7. main'.at \in InFinish
  BY <1>2 DEF InFinish
<1> QED
  BY <1>1, <1>2, <1>3, <1>4, <1>5, <1>6, <1>7, FinishMoves

\* The main thread waits for the pump, or gives up on it while it publishes.
LEMMA JoinKeeps ==
  ASSUME IInv, Join
  PROVE  IInv'
<1>1. /\ main.at = "join" /\ main.at \in InFinish /\ Goto("drain") /\ pump.at # "get"
      /\ late' = (late \/ pump.at = "publish")
      /\ UNCHANGED <<worker, queue, pump, reported, current, stop, events, faults>>
  BY DEF Join, Finishing, Quiet, InFinish
<1>2. /\ MainOK' /\ main'.at = "drain" /\ main'.stage = main.stage
      /\ main'.cause = main.cause
  <2>1. "drain" \in MainPlaces
    BY DEF MainPlaces
  <2> QED
    BY <1>1, <2>1, GotoFacts DEF IInv
<1>3. FitOK' /\ pump'.at = pump.at /\ pump'.round = pump.round
  BY <1>1, FinishLeaves
<1>4. late' \in BOOLEAN /\ (late => late')
  BY <1>1 DEF IInv, TypeOK, OutputOK
<1>5. OutputOK' /\ EventsOK'
  <2>1. /\ worker'.trained \in Nat /\ faults' \in Nat
        /\ worker.trained <= worker'.trained
    BY <1>1, EventFacts DEF IInv, TypeOK, OutputOK
  <2> QED
    BY <1>1, <1>4, <2>1, SilentKeeps
<1>6. RoundsInOrder'
  <2>1. Punctual' => Punctual
    BY <1>1, <1>4 DEF Punctual
  <2> QED
    BY <1>1, <1>2, <1>3, <2>1, RoundsRest DEF IInv, ThreadsOK
<1>7. ~late' => current' = "TRAINING"
  BY <1>1, <1>4, FitFacts
<1>8. main'.at \in InFinish
  BY <1>2 DEF InFinish
<1>9. ~(Alive /\ ~late')
  BY <1>1 DEF Alive
<1> QED
  BY <1>1, <1>2, <1>3, <1>4, <1>5, <1>6, <1>7, <1>8, <1>9, FinishMoves

\* A round that is left in the queue is dropped if it has been reported, else it
\* is reported; the first failure ends it.
LEMMA DrainKeeps ==
  ASSUME IInv, Drain
  PROVE  IInv'
<1> DEFINE round == Head(queue)
<1>1. /\ main.at = "drain" /\ main.at \in InFinish /\ UNCHANGED <<worker, stop, pump, late>>
      /\ Alive => late
      /\ Punctual => Held = 0 /\ pump.at # "publish"
      /\ ~Closed /\ (~late => current = "TRAINING")
  <2>1. main.at = "drain" /\ UNCHANGED <<worker, stop, pump, late>>
    BY DEF Drain, Finishing
  <2>2. main.at \in InFinish
    BY <2>1 DEF InFinish
  <2> QED
    BY <2>1, <2>2, AfterTheJoin, FitFacts
<1>2. ASSUME queue = <<>>, Goto("first"), UNCHANGED <<queue, reported, current>>, Quiet
      PROVE  IInv'
  <2>1. /\ MainOK' /\ main'.at = "first" /\ main'.stage = main.stage
        /\ main'.cause = main.cause
    <3>1. "first" \in MainPlaces
      BY DEF MainPlaces
    <3> QED
      BY <1>2, <3>1, GotoFacts DEF IInv
  <2>2. FitOK' /\ UNCHANGED <<events, faults>>
    BY <1>1, <1>2, FinishLeaves DEF Quiet
  <2>3. OutputOK' /\ EventsOK'
    <3>1. /\ worker'.trained \in Nat /\ faults' \in Nat /\ late' \in BOOLEAN
          /\ worker.trained <= worker'.trained
      BY <1>1, <2>2, EventFacts DEF IInv, TypeOK, OutputOK
    <3> QED
      BY <1>1, <1>2, <2>2, <3>1, SilentKeeps
  <2>4. RoundsInOrder'
    <3>1. Punctual' => Punctual
      BY <1>1, <2>2 DEF Punctual
    <3> QED
      BY <1>1, <1>2, <2>2, <3>1, RoundsRest DEF IInv, ThreadsOK
  <2>5. main'.at \in InFinish
    BY <2>1 DEF InFinish
  <2> QED
    BY <1>1, <1>2, <2>1, <2>2, <2>3, <2>4, <2>5, FinishMoves
<1>3. ASSUME queue # <<>>, queue' = Tail(queue)
      PROVE  /\ round \in 1..worker.trained
             /\ Punctual => /\ round = Seen + 1 /\ round \notin reported
                            /\ \A i \in 1..Len(events) : events[i].round < round
                            /\ Len(queue') = Len(queue) + Held - 1
                            /\ \A i \in 1..Len(queue') : queue'[i] = Seen + 1 + i
  <2>1. /\ round \in 1..worker.trained
        /\ Len(queue) >= 1 /\ Len(queue') = Len(queue) - 1
        /\ Punctual => /\ round = Seen + Held + 1
                       /\ \A i \in 1..Len(queue') : queue'[i] = Seen + Held + 1 + i
    BY <1>3, NextRound DEF IInv, ThreadsOK
  <2>2. Punctual => /\ reported = 1..Seen /\ Held = 0
                    /\ \A i \in 1..Len(events) : events[i].round <= Seen
    BY <1>1, OrderFacts DEF IInv, ThreadsOK
  <2>3. /\ Seen \in Int /\ Len(queue) \in Nat
        /\ \A i \in 1..Len(events) : events[i].round \in Nat
    BY Numbers, EventFacts DEF IInv
  <2> HIDE DEF Seen, Held, Punctual, round
  <2>4. ASSUME Punctual
        PROVE  round = Seen + 1 /\ round \notin reported
               /\ Len(queue') = Len(queue) + Held - 1
    BY <2>1, <2>2, <2>3, <2>4
  <2>5. ASSUME Punctual
        PROVE  \A i \in 1..Len(events) : events[i].round < round
    BY <2>2, <2>3, <2>4, <2>5
  <2>6. ASSUME Punctual
        PROVE  \A i \in 1..Len(queue') : queue'[i] = Seen + 1 + i
    BY <2>1, <2>2, <2>3, <2>6
  <2> QED
    BY <2>1, <2>4, <2>5, <2>6
<1>4. ASSUME queue # <<>>, queue' = Tail(queue), round \in reported,
             UNCHANGED <<main, reported, current>>, Quiet
      PROVE  IInv'
  <2>1. UNCHANGED <<events, faults>> /\ ~Punctual
    BY <1>3, <1>4 DEF Quiet
  <2>2. FitOK'
    <3>1. /\ pump = [at |-> pump.at, round |-> pump.round, stop |-> pump.stop]
          /\ pump.at \in {"off", "get", "publish", "dead"}
          /\ pump.round \in 0..worker.trained /\ pump.stop \in BOOLEAN
          /\ pump.at = "publish" => pump.round > 0
      BY PumpFacts DEF IInv
    <3>2. reported' \subseteq 1..worker.trained
      BY <1>4, Numbers DEF IInv
    <3> QED
      BY <1>1, <1>4, <3>1, <3>2, FewerRounds DEF IInv
  <2>3. OutputOK' /\ EventsOK'
    <3>1. /\ worker'.trained \in Nat /\ faults' \in Nat /\ late' \in BOOLEAN
          /\ worker.trained <= worker'.trained
      BY <1>1, <2>1, EventFacts DEF IInv, TypeOK, OutputOK
    <3> QED
      BY <1>1, <1>4, <2>1, <3>1, SilentKeeps
  <2>4. RoundsInOrder'
    <3>1. ~Punctual'
      BY <1>1, <2>1 DEF Punctual
    <3> QED
      BY <1>1, <2>1, <3>1, RoundsRest DEF IInv, ThreadsOK
  <2>5. MainOK'
    BY <1>4 DEF IInv, TypeOK, MainOK
  <2> QED
    BY <1>1, <1>4, <2>1, <2>2, <2>3, <2>4, <2>5, FinishMoves
<1>5. ASSUME queue # <<>>, queue' = Tail(queue), round \notin reported,
             \/ Metrics(round) /\ UNCHANGED main
             \/ MetricsRaise(round) /\ Goto("first")
      PROVE  IInv'
  <2>1. /\ OutputOK' /\ EventsOK'
        /\ ~late => current' = "TRAINING"
        /\ reported' \in {reported, reported \cup {round}}
        /\ faults' = 0 => faults = 0
        /\ Punctual' => /\ reported' = reported \cup {round}
                        /\ events' = Append(events,
                                            Message("METRICS", "EXECUTING", NoCode, round))
    BY <1>1, <1>3, <1>5, MetricsKeep DEF IInv
  <2>2. FitOK'
    <3>1. /\ pump = [at |-> pump.at, round |-> pump.round, stop |-> pump.stop]
          /\ pump.at \in {"off", "get", "publish", "dead"}
          /\ pump.round \in 0..worker.trained /\ pump.stop \in BOOLEAN
          /\ pump.at = "publish" => pump.round > 0
      BY PumpFacts DEF IInv
    <3>2. reported' \subseteq 1..worker.trained
      BY <1>3, <1>5, <2>1, Numbers DEF IInv
    <3> QED
      BY <1>1, <1>5, <3>1, <3>2, FewerRounds DEF IInv
  <2>3. /\ MainOK' /\ main'.at \in {"drain", "first"} /\ main'.stage = main.stage
        /\ main'.cause = main.cause
        /\ Punctual' => main'.at = "drain"
    <3>1. CASE Metrics(round) /\ UNCHANGED main
      BY <1>1, <3>1 DEF IInv, TypeOK, MainOK
    <3>2. CASE MetricsRaise(round) /\ Goto("first")
      <4>1. ~Punctual'
        BY <1>5, <2>1, <3>2 DEF MetricsRaise
      <4>2. "first" \in MainPlaces
        BY DEF MainPlaces
      <4> QED
        BY <3>2, <4>1, <4>2, GotoFacts DEF IInv
    <3> QED
      BY <1>5, <3>1, <3>2
  <2>4. RoundsInOrder'
    <3>1. Punctual' => Punctual
      BY <1>1, <2>1 DEF Punctual
    <3>2. CASE Punctual'
      <4>1. pump'.at # "publish" /\ main'.at \notin {"first", "last"}
        BY <1>1, <2>3, <3>1, <3>2
      <4> QED
        BY <1>1, <1>3, <1>5, <2>1, <3>1, <4>1, OneMore
    <3>3. CASE ~Punctual'
      BY <1>1, <2>1, <3>3, RoundsRest DEF IInv, ThreadsOK
    <3> QED
      BY <3>2, <3>3
  <2>5. main'.at \in InFinish /\ main'.at \notin {"last", "evidence"}
    BY <2>3 DEF InFinish
  <2>6. reported \subseteq reported'
    BY <2>1
  <2> QED
    BY <1>1, <2>1, <2>2, <2>3, <2>4, <2>5, <2>6, FinishMoves
<1> QED
  BY <1>2, <1>4, <1>5 DEF Drain

\* As long as all is punctual finish() has nothing to make up for.
LEMMA NothingNeeded ==
  ASSUME IInv, main.at \in {"first", "last"}, Punctual,
         NEW round \in {1, worker.trained}
  PROVE  ~Needed(round) /\ queue = <<>>
<1>1. queue = <<>> /\ Held = 0 /\ reported = 1..Seen
  BY AfterTheJoin, OrderFacts DEF IInv, ThreadsOK
<1>2. Seen = worker.trained - Len(queue) - Held /\ worker.trained \in Nat
  BY Numbers, EventFacts DEF IInv
<1>3. Len(queue) = 0
  BY <1>1
<1> HIDE DEF Seen, Held
<1>4. reported = 1..worker.trained
  BY <1>1, <1>2, <1>3
<1>5. main.stage # "fit" => worker.trained > 0
  BY DEF IInv, ThreadsOK, MadeUp, InFinish
<1>6. main.stage # "fit" => round \in reported
  BY <1>2, <1>4, <1>5
<1> QED
  BY <1>1, <1>6 DEF Needed

\* A number is not greater than itself.
LEMMA SameNumber ==
  ASSUME NEW m, NEW n \in Nat, m = n
  PROVE  m \in Nat /\ n <= m
OBVIOUS

\* The first round and the last are rounds.
LEMMA OneOrLast ==
  ASSUME NEW last \in Nat, last > 0, NEW round \in {1, last}
  PROVE  round \in 1..last
OBVIOUS

\* Where finish() leads to.
LEMMA AfterFinishIs ==
  /\ AfterFinish \in {"evidence", "classify", "report"} /\ AfterFinish \in MainPlaces
  /\ AfterFinish = "evidence" => main.cause = ""
  /\ AfterFinish = "report" => main.cause = "control"
  /\ AfterFinish = "classify" => main.cause # ""
BY DEF AfterFinish, MainPlaces

\* The first or the last round is made up for, where it has to be.
LEMMA MakeUpKeeps ==
  ASSUME IInv, main.at \in {"first", "last"}, NEW round \in {1, worker.trained},
         NEW to \in {"last", "evidence", "classify", "report"}, MakeUp(round, to),
         to = "evidence" => main.cause = "" /\ main.at = "last" /\ round = worker.trained,
         to = "last" => main.at = "first" /\ round = 1,
         to = "report" => main.cause = "control",
         to = "classify" => main.cause # "",
         UNCHANGED <<worker, stop, pump, late>>, queue' \in {queue, <<>>}
  PROVE  IInv'
<1>1. /\ main.at \in InFinish /\ (Alive => late) /\ ~Closed
      /\ ~late => current = "TRAINING"
      /\ main.stage # "fit" => worker.trained > 0
      /\ main.stage = "fit" => main.cause # ""
  <2>1. main.at \in InFinish
    BY DEF InFinish
  <2> QED
    BY <2>1, AfterTheJoin, FitFacts DEF IInv, ThreadsOK, MadeUp, WayOut
<1>2. to \in MainPlaces
  BY DEF MainPlaces
<1>3. Needed(round) => round \in 1..worker.trained /\ main.stage # "fit"
  <2>1. worker.trained \in Nat
    BY EventFacts DEF IInv
  <2>2. worker.trained > 0 => round \in 1..worker.trained
    BY <2>1, OneOrLast
  <2>3. Needed(round) => main.stage # "fit"
    BY DEF Needed
  <2> QED
    BY <1>1, <2>2, <2>3
<1>4. /\ OutputOK' /\ EventsOK' /\ reported \subseteq reported'
      /\ reported' \subseteq 1..worker.trained
      /\ ~late => current' = "TRAINING"
      /\ faults' = 0 => faults = 0
      /\ ~Needed(round) => UNCHANGED <<reported, events>>
  <2>1. CASE Needed(round)
    <3>1. Metrics(round) \/ MetricsRaise(round)
      BY <2>1 DEF MakeUp
    <3>2. ~Punctual
      BY <2>1, NothingNeeded
    <3>3. /\ OutputOK' /\ EventsOK'
          /\ ~late => current' = "TRAINING"
          /\ reported' \in {reported, reported \cup {round}}
          /\ faults' = 0 => faults = 0
      BY <1>1, <1>3, <2>1, <3>1, <3>2, MetricsKeep DEF IInv
    <3>4. reported \subseteq 1..worker.trained
      BY Numbers DEF IInv
    <3> QED
      BY <1>3, <2>1, <3>3, <3>4
  <2>2. CASE ~Needed(round)
    <3>1. UNCHANGED <<reported, current, events, faults>>
      BY <2>2 DEF MakeUp, Quiet
    <3>2. /\ worker'.trained \in Nat /\ faults' \in Nat /\ late' \in BOOLEAN
          /\ worker.trained <= worker'.trained
      <4>1. worker.trained \in Nat /\ worker' = worker /\ late' = late /\ faults' = faults
        BY <3>1, EventFacts DEF IInv
      <4>2. faults \in Nat /\ late \in BOOLEAN
        BY DEF IInv, TypeOK, OutputOK
      <4>3. worker'.trained = worker.trained
        BY <4>1
      <4>4. worker'.trained \in Nat /\ worker.trained <= worker'.trained
        BY <4>1, <4>3, SameNumber, Zenon
      <4> QED
        BY <4>1, <4>2, <4>4, Zenon
    <3>3. OutputOK' /\ EventsOK'
      BY <1>1, <3>1, <3>2, SilentKeeps
    <3>4. reported \subseteq 1..worker.trained
      BY Numbers DEF IInv
    <3> QED
      BY <1>1, <2>2, <3>1, <3>3, <3>4
  <2> QED
    BY <2>1, <2>2
<1>5. FitOK'
  <2>1. /\ pump = [at |-> pump.at, round |-> pump.round, stop |-> pump.stop]
        /\ pump.at \in {"off", "get", "publish", "dead"}
        /\ pump.round \in 0..worker.trained /\ pump.stop \in BOOLEAN
        /\ pump.at = "publish" => pump.round > 0
    BY PumpFacts DEF IInv
  <2> QED
    BY <1>4, <2>1, FewerRounds DEF IInv
<1>6. RoundsInOrder'
  <2>1. Punctual' => Punctual
    BY <1>4 DEF Punctual
  <2>2. Punctual => ~Needed(round) /\ queue = <<>>
    BY NothingNeeded
  <2>3. Punctual' => Punctual /\ UNCHANGED <<queue, reported, events>> /\ queue = <<>>
    BY <1>4, <2>1, <2>2
  <2> QED
    BY <1>4, <2>3, RoundsRest DEF IInv, ThreadsOK
<1>7. CASE Goto(to) /\ (~Needed(round) \/ Metrics(round))
  <2>1. /\ MainOK' /\ main'.at = to /\ main'.stage = main.stage
        /\ main'.cause = main.cause
    BY <1>2, <1>7, GotoFacts DEF IInv
  <2>2. main.stage # "fit" => round \in reported'
    BY <1>4, <1>7 DEF Needed, Metrics
  <2>3. to \in {"last", "evidence"} /\ main'.stage # "fit" => 1 \in reported'
    <3>1. main.at = "last" /\ main.stage # "fit" => 1 \in reported
      BY DEF IInv, ThreadsOK, MadeUp
    <3> QED
      BY <1>4, <2>1, <2>2, <3>1
  <2>4. to = "evidence" => worker.trained \in reported'
    BY <1>1, <2>2
  <2>5. "last" \in InFinish /\ main.at # "fit"
    BY DEF InFinish
  <2> QED
    BY <1>1, <1>4, <1>5, <1>6, <2>1, <2>3, <2>4, <2>5, FinishMoves
<1>8. CASE Needed(round) /\ MetricsRaise(round)
           /\ (IF MayGoOn THEN LeaveFinish("redis")
               ELSE RaiseControl(IF main.cause = "" THEN "finish" ELSE "report", "TRAINING"))
  <2>1. /\ MainOK' /\ main'.stage = main.at
        /\ \/ main'.at = "finish" /\ main'.cause # ""
           \/ main'.at = "classify" /\ main'.cause # ""
           \/ main'.at = "report" /\ main'.cause = "control"
        /\ main'.cause = "control" \/ faults' # 0
    <3>0. {"finish", "classify", "report"} \subseteq MainPlaces /\ "redis" \in Causes
          /\ "TRAINING" \in Phases
      BY PhasesAre DEF MainPlaces, Causes
    <3>1. CASE MayGoOn
      <4>1. faults' # 0
        BY <1>8, <3>1, FaultFacts DEF MetricsRaise, Unpublished, IInv
      <4>2. \E place \in {"finish", "classify"} : Raise(place, "redis")
        BY <1>8, <3>1 DEF LeaveFinish
      <4> QED
        BY <3>0, <4>1, <4>2, RaiseFacts DEF IInv
    <3>2. CASE ~MayGoOn /\ main.cause = ""
      BY <1>8, <3>0, <3>2, ControlFacts DEF IInv
    <3>3. CASE ~MayGoOn /\ main.cause # ""
      BY <1>8, <3>0, <3>3, ControlFacts DEF IInv
    <3> QED
      BY <3>1, <3>2, <3>3
  <2>2. "finish" \in InFinish /\ main.stage # "fit" /\ main.at # "fit"
    BY <1>3, <1>8 DEF InFinish
  <2> QED
    BY <1>1, <1>4, <1>5, <1>6, <2>1, <2>2, FinishMoves
<1> QED
  BY <1>7, <1>8 DEF MakeUp

\* The first round is made up for.
LEMMA FirstRoundKeeps ==
  ASSUME IInv, FirstRound
  PROVE  IInv'
<1>1. /\ main.at = "first" /\ MakeUp(1, "last")
      /\ UNCHANGED <<worker, stop, pump, late>> /\ queue' \in {queue, <<>>}
  BY DEF FirstRound, Finishing
<1> QED
  BY <1>1, MakeUpKeeps

\* The last round is made up for, and the queue is shut down.
LEMMA LastRoundKeeps ==
  ASSUME IInv, LastRound
  PROVE  IInv'
<1>1. /\ main.at = "last" /\ MakeUp(worker.trained, AfterFinish)
      /\ UNCHANGED <<worker, stop, pump, late>> /\ queue' \in {queue, <<>>}
  BY DEF LastRound, Finishing
<1> QED
  BY <1>1, AfterFinishIs, MakeUpKeeps

-----------------------------------------------------------------------------
(* The whole run *)

\* The run is asked to stop.
LEMMA RequestStopKeeps ==
  ASSUME IInv, RequestStop
  PROVE  IInv'
<1>1. /\ UNCHANGED <<main, worker, queue, pump, reported, late, events, current, faults>>
      /\ stop' \in StopCodes
  BY DEF RequestStop, metrics, StopCodes
<1>2. OutputOK'
  BY <1>1 DEF IInv, TypeOK, OutputOK
<1>3. EventsOK'
  <2>1. Position(current) <= Position(current')
    BY <1>1, EventFacts, Positions DEF IInv
  <2>2. current' \in Phases
    BY <1>1, EventFacts DEF IInv
  <2> QED
    BY <1>1, <2>1, <2>2, EventsStill DEF IInv
<1>4. ~Punctual'
  BY <1>1 DEF Punctual, StopCodes, TimeoutCode, NoCode, op
<1>5. RoundsInOrder'
  BY <1>1, <1>4, RoundsRest DEF IInv, ThreadsOK
<1>6. WayOut' /\ PumpPlace' /\ MadeUp' /\ PhaseKnown' /\ CauseFits'
  BY <1>1 DEF IInv, ThreadsOK, WayOut, PumpPlace, MadeUp, PhaseKnown, CauseFits, Alive
<1>7. MainOK' /\ FitOK'
  BY <1>1 DEF IInv, TypeOK, MainOK, FitOK
<1> QED
  BY <1>2, <1>3, <1>5, <1>6, <1>7 DEF IInv, TypeOK, ThreadsOK

\* The run starts in the invariant.
LEMMA InitIInv ==
  Init => IInv
<1> SUFFICES ASSUME Init PROVE IInv
  OBVIOUS
<1>1. InitialPhase(op) = "QUEUED"
  BY DEF InitialPhase, op
<1>2. /\ main = [at |-> "config", stage |-> "", cause |-> "", code |-> NoCode,
                 phase |-> NoPhase]
      /\ worker = [trained |-> 0, missed |-> FALSE]
      /\ queue = <<>> /\ pump = [at |-> "off", round |-> 0, stop |-> FALSE]
      /\ reported = {} /\ events = <<>> /\ current = "QUEUED"
      /\ stop = NoCode /\ late = FALSE /\ faults = 0
  BY <1>1 DEF Init
<1>3. MainOK
  BY <1>2 DEF MainOK, MainPlaces
<1>4. FitOK
  <2>1. 0 \in 0..Rounds /\ 0 \in 0..0
    BY RunAssumption
  <2>2. worker \in [trained : 0..Rounds, missed : BOOLEAN] /\ worker.trained = 0
    BY <1>2, <2>1
  <2>3. queue \in Seq(1..worker.trained) /\ reported \subseteq 1..worker.trained
    <3> DEFINE S == 1..worker.trained
    <3>1. queue = <<>> /\ reported = {}
      BY <1>2
    <3> HIDE DEF S
    <3>2. queue \in Seq(S) /\ reported \subseteq S
      BY <3>1
    <3> QED
      BY <3>2 DEF S
  <2>4. /\ pump.at = "off"
        /\ pump \in [at : {"off", "get", "publish", "dead"}, round : 0..worker.trained,
                     stop : BOOLEAN]
    BY <1>2, <2>1, <2>2
  <2> QED
    BY <2>2, <2>3, <2>4 DEF FitOK
<1>5. OutputOK
  <2>0. events = <<>>
    BY <1>2
  <2>1. events \in Seq(WireEvents) /\ Len(events) = 0
    BY <2>0
  <2>2. \A i \in 1..Len(events) : events[i].round <= worker.trained
    BY <2>1
  <2>3. current \in Phases
    BY <1>2, PhasesAre
  <2> QED
    BY <1>2, <2>1, <2>2, <2>3 DEF OutputOK
<1>6. "config" \notin InFinish \cup AfterFit \cup {"fit", "classify", "report"}
  BY DEF InFinish, AfterFit
<1>7. WayOut /\ PumpPlace /\ MadeUp /\ PhaseKnown /\ CauseFits
  BY <1>2, <1>6 DEF WayOut, PumpPlace, MadeUp, PhaseKnown, CauseFits, PhaseAt, Alive, InFinish
<1>8. RoundsInOrder
  <2>1. Held = 0 /\ Len(queue) = 0 /\ Len(events) = 0
    BY <1>2 DEF Held
  <2>2. Seen = 0 - Len(queue) - Held
    BY <1>2 DEF Seen
  <2> HIDE DEF Seen, Held
  <2>3. Seen = 0
    BY <2>1, <2>2
  <2>4. /\ Seen >= 0 /\ 1..Seen = {}
        /\ \A i \in 1..Len(queue) : queue[i] = Seen + Held + i
        /\ \A i \in 1..Len(events) : events[i].round <= Seen
    BY <2>1, <2>3
  <2> QED
    BY <1>2, <2>4 DEF RoundsInOrder
<1>9. EventsOK
  <2>0. events = <<>>
    BY <1>2
  <2>1. ~Closed /\ DOMAIN events = {} /\ 1..Len(events) = {}
    BY <2>0 DEF Closed
  <2> QED
    BY <1>2, <2>1 DEF EventsOK, OutcomeIsLast, ReportedIsTrue, PhasesReached, Ended,
                      FirstAndLastReported, RoundsMoveForward, PhasesMoveForward,
                      FailureNamesStage
<1> QED
  BY <1>3, <1>4, <1>5, <1>7, <1>8, <1>9 DEF IInv, TypeOK, ThreadsOK

\* Every step keeps the invariant.
LEMMA NextIInv ==
  IInv /\ [Next]_vars => IInv'
<1> SUFFICES ASSUME IInv, [Next]_vars PROVE IInv'
  OBVIOUS
<1>1. CASE Main
  BY <1>1, ConfigKeeps, ControlKeeps, PrepareKeeps, AutoTuningKeeps, LoadKeeps, RowsKeeps,
     SplitKeeps, DivideKeeps, ExecuteKeeps, FitEndsKeeps, FitFailsKeeps, FinishStopKeeps,
     JoinKeeps, DrainKeeps, FirstRoundKeeps, LastRoundKeeps, EvidenceKeeps,
     MaterializeKeeps, EvaluateKeeps, ExportKeeps, CompleteKeeps, ClassifyKeeps,
     ReportKeeps, Zenon DEF Main
<1>2. CASE TrainRound
  BY <1>2, TrainRoundKeeps
<1>3. CASE Pump
  BY <1>3, PumpGetKeeps, PumpPublishKeeps, PumpEndsKeeps DEF Pump
<1>4. CASE RequestStop
  BY <1>4, RequestStopKeeps
<1>5. CASE UNCHANGED vars
  <2>1. UNCHANGED <<main, worker, queue, pump, reported, late, events, current, stop, faults>>
    BY <1>5 DEF vars, metrics
  <2>2. OutputOK' /\ MainOK' /\ FitOK'
    BY <2>1 DEF IInv, TypeOK, OutputOK, MainOK, FitOK
  <2>3. EventsOK'
    <3>1. current' \in Phases /\ Position(current) <= Position(current')
      BY <2>1, EventFacts, Positions DEF IInv
    <3> QED
      BY <2>1, <3>1, EventsStill DEF IInv
  <2>4. RoundsInOrder'
    <3>1. Punctual' => Punctual
      BY <2>1 DEF Punctual
    <3>2. Punctual => (main.at \in {"first", "last"} => queue = <<>>)
      BY OrderFacts DEF IInv, ThreadsOK
    <3> QED
      BY <2>1, <3>1, <3>2, RoundsRest DEF IInv, ThreadsOK
  <2>5. WayOut' /\ PumpPlace' /\ MadeUp' /\ PhaseKnown' /\ CauseFits'
    BY <2>1 DEF IInv, ThreadsOK, WayOut, PumpPlace, MadeUp, PhaseKnown, CauseFits, Alive
  <2> QED
    BY <2>2, <2>3, <2>4, <2>5 DEF IInv, TypeOK, ThreadsOK
<1> QED
  BY <1>1, <1>2, <1>3, <1>4, <1>5 DEF Next

\* IInv holds throughout every run, with any number of rounds and however many
\* publications fail.
THEOREM Inductive == Spec => []IInv
<1> QED
  BY InitIInv, NextIInv, PTL DEF Spec

\* Every variable keeps its type; only KnoVa's phases and codes reach the wire.
THEOREM TypeCorrect == Spec => []TypeOK
<1>1. IInv => TypeOK
  BY DEF IInv
<1> QED
  BY <1>1, Inductive, PTL

\* A training that is reported as completed has reported its first and its last
\* round, whatever got lost in the queue or on the way to Redis.
THEOREM FirstAndLastAreSeen == Spec => []FirstAndLastReported
<1>1. IInv => FirstAndLastReported
  BY DEF IInv, EventsOK
<1> QED
  BY <1>1, Inductive, PTL

\* Two threads publish, and yet a reader sees the rounds and the phases go
\* forward, as long as nothing fails and the pump ends in time.
THEOREM NeverBackwards == Spec => []ReaderGoesForward
<1>1. IInv => ReaderGoesForward
  BY DEF IInv, EventsOK, ReaderGoesForward
<1> QED
  BY <1>1, Inductive, PTL

\* A failure is reported with the code of the stage in which it was raised.
THEOREM StageIsNamed == Spec => []FailureNamesStage
<1>1. IInv => FailureNamesStage
  BY DEF IInv, EventsOK
<1> QED
  BY <1>1, Inductive, PTL
=============================================================================
