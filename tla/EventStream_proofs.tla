------------------------- MODULE EventStream_proofs -------------------------
(***************************************************************************)
(* Proofs about EventStream, for every operation type, any number of       *)
(* reporters, threads and call sites, and every MAXLEN.                    *)
(***************************************************************************)
EXTENDS EventStream, EventScript_proofs

-----------------------------------------------------------------------------
(* Type correctness *)

\* The initial state is well-typed.
LEMMA InitTypeOK == Init => TypeOK
<1> SUFFICES ASSUME Init PROVE TypeOK
  OBVIOUS
<1>1. InitialPhase(OpType) \in ProtocolPhases(OpType)
  BY DEF InitialPhase, ProtocolPhases
<1>2. Blank \in Reporter(OpType)
  BY <1>1 DEF Blank, Reporter, NoRows
<1>3. stream \in Seq(Event(OpType)) /\ Len(stream) <= MaxLen
  BY MaxLenAssumption DEF Init
<1> QED
  BY <1>2, <1>3 DEF Init, TypeOK, Call

\* Every step of a reporter, of the script and of a crash keeps the types.
LEMMA NextTypeOK ==
  ASSUME TypeOK, [Next]_vars
  PROVE  TypeOK'
<1> USE DEF TypeOK
<1>a. OpType \in OperationTypes /\ ReporterOf \in [Threads -> Reporters]
  BY StreamAssumption
<1>b. Blank \in Reporter(OpType)
  BY DEF Blank, Reporter, NoRows, InitialPhase, ProtocolPhases
<1>1. ASSUME NEW r \in Reporters, Construct(r) PROVE TypeOK'
  BY <1>1, <1>a, RestoredType DEF Construct
<1>2. ASSUME NEW r \in Reporters, Crash(r) PROVE TypeOK'
  BY <1>2, <1>b DEF Crash, Call
<1>3. ASSUME NEW t \in Threads, NEW phase \in Phases, CheckControl(t, phase)
      PROVE  TypeOK'
  <2>1. MapPhase(OpType, phase) \in ProtocolPhases(OpType)
    BY <1>a, MapPhaseType, StreamAssumption
  <2> QED
    BY <1>3, <1>a, <2>1 DEF CheckControl, Reporter
<1>4. ASSUME NEW site \in CallSites, Build(site) PROVE TypeOK'
  <2> DEFINE m == memory[ReporterOf[site.by]]
             event == EventOf(OpType, site.call, site.phase, site.code,
                              site.rows, m.phase, m.rows)
  <2>1. /\ site.by \in Threads
        /\ site.call \in CallTypes
        /\ site.phase \in PhaseArgs(OpType) \cup {NoPhase}
        /\ site.rows \in Int
    BY StreamAssumption
  <2>2. m.phase \in ProtocolPhases(OpType) /\ m.rows \in Int
    BY <1>a, <2>1 DEF Reporter
  <2>3. event \in Event(OpType)
    BY <1>a, <2>1, <2>2, EventOfType
  <2>4. calls' = [calls EXCEPT ![site.by] = Built(event)]
    BY <1>4 DEF Build
  <2> HIDE DEF event
  <2>5. Built(event) \in Call
    BY <2>3 DEF Built, Call
  <2>6. calls' \in [Threads -> Call]
    BY <2>4, <2>5
  <2> QED
    BY <1>4, <2>6 DEF Build
<1>5. ASSUME NEW t \in Threads, Eval(t) PROVE TypeOK'
  <2> DEFINE event == calls[t].event
             reply == Reply(stream, event)
  <2>1. event \in Event(OpType)
    BY <1>5 DEF Eval, Call, Idle
  <2>2. reply \in {"added", "late", "refused"}
    BY ReplyType
  <2>3. /\ stream' = Stored(stream, event)
        /\ appended' = IF reply = "added" THEN appended + 1 ELSE appended
        /\ calls' = [calls EXCEPT ![t] = Sent(event, reply)]
        /\ UNCHANGED <<up, memory, stop>>
    BY <1>5 DEF Eval
  <2>4. stream' \in Seq(Event(OpType)) /\ Len(stream') <= MaxLen
    <3> HIDE DEF event
    <3>1. CASE reply = "added"
      BY <2>1, <2>3, <3>1, StoredShape, MaxLenAssumption
    <3>2. CASE reply # "added"
      BY <2>3, <3>2 DEF Stored
    <3> QED
      BY <3>1, <3>2
  <2> HIDE DEF event, reply
  <2>5. Sent(event, reply) \in Call
    BY <2>1, <2>2 DEF Sent, Call
  <2> QED
    BY <2>3, <2>4, <2>5
<1>6. ASSUME NEW t \in Threads, Settle(t) PROVE TypeOK'
  <2>1. calls[t].event \in Event(OpType)
    BY <1>6 DEF Settle, Call, Idle
  <2>2. memory[ReporterOf[t]] \in Reporter(OpType)
    BY <1>a
  <2>3. Settled(memory[ReporterOf[t]], calls[t].event, calls[t].reply)
          \in Reporter(OpType)
    BY <2>1, <2>2, SettledType
  <2> QED
    BY <1>6, <1>a, <2>3 DEF Settle, Call
<1>7. ASSUME NEW t \in Threads, Fail(t) PROVE TypeOK'
  BY <1>7 DEF Fail, Call
<1>8. CASE RaiseStop
  BY <1>8 DEF RaiseStop
<1>9. CASE UNCHANGED vars
  BY <1>9 DEF vars
<1> QED
  BY <1>1, <1>2, <1>3, <1>4, <1>5, <1>6, <1>7, <1>8, <1>9 DEF Next

\* What an event carries and a reporter remembers is KnoVa's vocabulary.
THEOREM TypeCorrect == Spec => []TypeOK
<1>1. TypeOK /\ [Next]_vars => TypeOK'
  BY NextTypeOK
<1> QED
  BY <1>1, InitTypeOK, PTL DEF Spec

-----------------------------------------------------------------------------
(* One terminal event, and nothing after it *)

\* The script keeps a closed stream as it is, and closes it with a terminal
\* event that it adds.
LEMMA StoredClosed ==
  ASSUME NEW S, NEW s \in Seq(S), NEW e \in S, Len(s) <= MaxLen
  PROVE  /\ Closed(s) => Stored(s, e) = s
         /\ Reply(s, e) = "refused" => Closed(s)
         /\ Reply(s, e) = "added" /\ IsTerminal(e) => Closed(Stored(s, e))
<1>1. Closed(s) => Stored(s, e) = s
  BY DEF Stored, Reply
<1>2. Reply(s, e) = "refused" => Closed(s)
  BY DEF Reply
<1>3. ASSUME Reply(s, e) = "added", IsTerminal(e) PROVE Closed(Stored(s, e))
  <2> DEFINE n == Stored(s, e)
  <2>1. n \in Seq(S) /\ Len(n) \in 1..MaxLen /\ n[Len(n)] = e
    BY <1>3, StoredShape
  <2> HIDE DEF n
  <2>2. n # <<>>
    BY <2>1, MaxLenAssumption
  <2> QED
    BY <1>3, <2>1, <2>2 DEF Closed, n
<1> QED
  BY <1>1, <1>2, <1>3

\* Under SingleTerminal, a terminal event anywhere closes the stream.
LEMMA TerminalCloses ==
  ASSUME NEW S, stream \in Seq(S), SingleTerminal,
         NEW i \in 1..Len(stream), IsTerminal(stream[i])
  PROVE  Closed(stream)
BY DEF SingleTerminal, Closed

\* The invariant holds of the empty stream and of reporters not yet made.
LEMMA InitIInv == Init => IInv
BY InitTypeOK
   DEF Init, IInv, SingleTerminal, BeliefSound, RepliesSound, AdmissionFirst,
       Blank, Idle

\* Every step keeps the invariant: one step of the proof per action.
LEMMA NextIInv ==
  ASSUME IInv, [Next]_vars
  PROVE  IInv'
<1>a. TypeOK /\ TypeOK'
  BY NextTypeOK DEF IInv
<1>b. ReporterOf \in [Threads -> Reporters]
  BY StreamAssumption
\* A step that leaves the stream alone disturbs only the beliefs and replies.
<1>c. ASSUME UNCHANGED <<stream, appended>>
      PROVE  /\ SingleTerminal' /\ AdmissionFirst'
             /\ (stream = <<>> => appended = 0)'
             /\ Closed(stream)' = Closed(stream)
  BY <1>c DEF IInv, SingleTerminal, AdmissionFirst, Closed
<1>1. ASSUME NEW r \in Reporters, Construct(r) PROVE IInv'
  <2>1. UNCHANGED <<stream, appended, calls>>
    BY <1>1 DEF Construct
  <2>2. memory' = [memory EXCEPT ![r] = Restored(OpType, stream)]
    BY <1>1 DEF Construct
  <2>3. Restored(OpType, stream).terminal => Closed(stream)
    BY <1>a, TerminalCloses DEF Restored, IInv, TypeOK
  <2>4. BeliefSound'
    BY <1>a, <1>c, <2>1, <2>2, <2>3 DEF BeliefSound, IInv, TypeOK
  <2>5. RepliesSound'
    BY <1>c, <2>1 DEF RepliesSound, IInv
  <2> QED
    BY <1>a, <1>c, <2>1, <2>4, <2>5 DEF IInv
<1>2. ASSUME NEW r \in Reporters, Crash(r) PROVE IInv'
  <2>1. UNCHANGED <<stream, appended>>
    BY <1>2 DEF Crash
  <2>2. BeliefSound'
    BY <1>2, <1>a, <1>c, <2>1 DEF Crash, BeliefSound, Blank, IInv, TypeOK
  <2>3. \A t \in Threads : calls'[t] = Idle \/ calls'[t] = calls[t]
    BY <1>2 DEF Crash
  <2>4. RepliesSound'
    BY <1>c, <2>1, <2>3 DEF RepliesSound, Idle, IInv
  <2> QED
    BY <1>a, <1>c, <2>1, <2>2, <2>4 DEF IInv
<1>3. ASSUME NEW t \in Threads, NEW phase \in Phases, CheckControl(t, phase)
      PROVE  IInv'
  <2>1. UNCHANGED <<stream, appended, calls>>
    BY <1>3 DEF CheckControl
  <2>2. \A r \in Reporters : memory'[r].terminal = memory[r].terminal
    BY <1>3, <1>a, <1>b DEF CheckControl, TypeOK, Reporter
  <2> QED
    BY <1>a, <1>c, <2>1, <2>2 DEF IInv, BeliefSound, RepliesSound
<1>4. ASSUME NEW site \in CallSites, Build(site) PROVE IInv'
  <2>1. UNCHANGED <<stream, appended, memory>>
    BY <1>4 DEF Build
  <2>2. \A t \in Threads : calls'[t].at = "built" \/ calls'[t] = calls[t]
    BY <1>4, <1>a DEF Build, Built, TypeOK
  <2> QED
    BY <1>a, <1>c, <2>1, <2>2 DEF IInv, BeliefSound, RepliesSound
<1>5. ASSUME NEW t \in Threads, Eval(t) PROVE IInv'
  <2> DEFINE event == calls[t].event
             reply == Reply(stream, event)
  <2>1. event \in Event(OpType)
    BY <1>5, <1>a DEF Eval, Call, Idle, TypeOK
  <2>2. /\ stream' = Stored(stream, event)
        /\ appended' = IF reply = "added" THEN appended + 1 ELSE appended
        /\ calls' = [calls EXCEPT ![t] = Sent(event, reply)]
        /\ UNCHANGED memory
    BY <1>5 DEF Eval
  <2>3. /\ Closed(stream) => stream' = stream
        /\ reply = "refused" => Closed(stream)
        /\ reply = "added" /\ IsTerminal(event) => Closed(stream')
    BY <1>a, <2>1, <2>2, StoredClosed DEF TypeOK
  <2>4. Closed(stream) => Closed(stream')
    BY <2>3
  <2>5. CASE reply # "added"
    <3>1. UNCHANGED <<stream, appended>>
      BY <2>2, <2>5 DEF Stored
    <3>2. BeliefSound'
      BY <2>2, <3>1 DEF BeliefSound, Closed, IInv
    <3>3. RepliesSound'
      BY <2>2, <2>3, <2>4, <2>5, <3>1, <1>a
         DEF RepliesSound, Sent, Closed, IInv, TypeOK
    <3> QED
      BY <1>a, <1>c, <3>1, <3>2, <3>3 DEF IInv
  <2>6. CASE reply = "added"
    <3> DEFINE shift == Len(stream) + 1 - Len(stream')
    <3>1. /\ Len(stream') \in 1..MaxLen
          /\ shift \in {0, 1}
          /\ stream'[Len(stream')] = event
          /\ \A i \in 1..(Len(stream') - 1) : stream'[i] = stream[i + shift]
      <4>1. stream \in Seq(Event(OpType)) /\ Len(stream) <= MaxLen
        BY <1>a DEF TypeOK
      <4> HIDE DEF event
      <4>2. LET n == Stored(stream, event)
            IN  /\ n \in Seq(Event(OpType))
                /\ Len(n) \in 1..MaxLen
                /\ Len(n) \in {Len(stream), Len(stream) + 1}
                /\ n[Len(n)] = event
                /\ \A i \in 1..(Len(n) - 1) :
                      n[i] = stream[i + (Len(stream) + 1 - Len(n))]
        BY <2>1, <2>6, <4>1, StoredShape
      <4>3. /\ Len(stream') \in 1..MaxLen
            /\ Len(stream') \in {Len(stream), Len(stream) + 1}
            /\ stream'[Len(stream')] = event
            /\ \A i \in 1..(Len(stream') - 1) : stream'[i] = stream[i + shift]
        BY <2>2, <4>2
      <4>4. Len(stream) \in Nat /\ Len(stream') \in Nat
        BY <1>a DEF TypeOK
      <4>5. shift \in {0, 1}
        BY <4>3, <4>4
      <4> QED
        BY <4>3, <4>5
    <3>2. ~Closed(stream)
      BY <2>6 DEF Reply
    <3>3. event.call = "ACCEPTED" => stream = <<>>
      BY <2>6 DEF Reply
    <3>4. appended' = appended + 1
      BY <2>2, <2>6
    <3> HIDE DEF event, reply
    <3>5. /\ Len(stream) \in Nat /\ Len(stream') \in Nat /\ appended \in Nat
          /\ stream \in Seq(Event(OpType))
      BY <1>a DEF TypeOK
    <3> HIDE DEF shift
    <3>6. \A i \in 1..(Len(stream') - 1) : i + shift \in 1..Len(stream)
      BY <3>1, <3>5 DEF shift
    <3>7. SingleTerminal'
      <4> SUFFICES ASSUME NEW i \in 1..Len(stream'), IsTerminal(stream'[i])
                   PROVE  i = Len(stream')
        BY DEF SingleTerminal
      <4>1. CASE i # Len(stream')
        <5>1. i \in 1..(Len(stream') - 1)
          BY <4>1, <3>5
        <5>2. IsTerminal(stream[i + shift])
          BY <3>1, <5>1
        <5> QED
          BY <3>2, <3>5, <3>6, <5>1, <5>2, TerminalCloses DEF IInv
      <4> QED
        BY <4>1
    <3>8. AdmissionFirst'
      <4> SUFFICES ASSUME NEW i \in 1..Len(stream'),
                          stream'[i].call = "ACCEPTED"
                   PROVE  appended' - Len(stream') + i = 1
        BY DEF AdmissionFirst
      <4>1. CASE i = Len(stream')
        <5>1. stream = <<>>
          BY <3>1, <3>3, <4>1
        <5>2. appended = 0
          BY <5>1 DEF IInv
        <5> QED
          BY <3>4, <3>5, <4>1, <5>2
      <4>2. CASE i # Len(stream')
        <5>1. i \in 1..(Len(stream') - 1)
          BY <4>2, <3>5
        <5>2. stream[i + shift].call = "ACCEPTED"
          BY <3>1, <5>1
        <5>3. appended - Len(stream) + (i + shift) = 1
          BY <3>6, <5>1, <5>2 DEF IInv, AdmissionFirst
        <5> QED
          BY <3>4, <3>5, <5>3 DEF shift
      <4> QED
        BY <4>1, <4>2
    <3>9. BeliefSound'
      BY <2>2, <3>2 DEF BeliefSound, IInv
    <3>10. RepliesSound'
      <4> SUFFICES ASSUME NEW x \in Threads, calls'[x].at = "sent",
                          \/ calls'[x].reply = "refused"
                          \/ /\ calls'[x].reply = "added"
                             /\ IsTerminal(calls'[x].event)
                   PROVE  Closed(stream)'
        BY DEF RepliesSound
      <4>1. CASE x = t
        <5>1. calls'[x] = Sent(event, reply)
          BY <1>a, <2>2, <4>1 DEF TypeOK
        <5> QED
          BY <2>3, <2>6, <5>1 DEF Sent, Closed
      <4>2. CASE x # t
        <5>1. calls'[x] = calls[x]
          BY <1>a, <2>2, <4>2 DEF TypeOK
        <5> QED
          BY <3>2, <5>1 DEF RepliesSound, IInv
      <4> QED
        BY <4>1, <4>2
    <3>11. stream' # <<>>
      BY <3>1, MaxLenAssumption
    <3> QED
      BY <1>a, <3>7, <3>8, <3>9, <3>10, <3>11 DEF IInv
  <2> QED
    BY <2>5, <2>6
<1>6. ASSUME NEW t \in Threads, Settle(t) PROVE IInv'
  <2> DEFINE m == memory[ReporterOf[t]]
             n == Settled(m, calls[t].event, calls[t].reply)
  <2>1. /\ calls[t].at = "sent"
        /\ memory' = [memory EXCEPT ![ReporterOf[t]] = n]
        /\ calls' = [calls EXCEPT ![t] = Idle]
        /\ UNCHANGED <<stream, appended>>
    BY <1>6 DEF Settle
  <2>2. m \in Reporter(OpType) /\ ReporterOf[t] \in Reporters
    BY <1>a, <1>b DEF TypeOK
  <2>3. /\ calls[t].event \in Event(OpType)
        /\ calls[t].reply \in {"added", "late", "refused"}
    BY <1>a, <2>1 DEF TypeOK, Call, Idle
  <2>4. n.terminal =>
          \/ m.terminal
          \/ calls[t].reply = "refused"
          \/ calls[t].reply = "added" /\ IsTerminal(calls[t].event)
    BY <2>2, <2>3, SettledTerminal
  <2> HIDE DEF m, n
  <2>5. n.terminal => Closed(stream)
    BY <2>1, <2>2, <2>4 DEF IInv, BeliefSound, RepliesSound, m
  <2>6. BeliefSound'
    BY <1>a, <1>c, <2>1, <2>2, <2>5 DEF BeliefSound, IInv, TypeOK
  <2>7. RepliesSound'
    BY <1>a, <1>c, <2>1 DEF RepliesSound, Idle, IInv, TypeOK
  <2> QED
    BY <1>a, <1>c, <2>1, <2>6, <2>7 DEF IInv
<1>7. ASSUME NEW t \in Threads, Fail(t) PROVE IInv'
  <2>1. UNCHANGED <<stream, appended, memory>>
    BY <1>7 DEF Fail
  <2>2. RepliesSound'
    BY <1>7, <1>a, <1>c, <2>1 DEF Fail, RepliesSound, Idle, IInv, TypeOK
  <2> QED
    BY <1>a, <1>c, <2>1, <2>2 DEF IInv, BeliefSound
<1>8. CASE RaiseStop \/ UNCHANGED vars
  <2>1. UNCHANGED <<stream, appended, memory, calls>>
    BY <1>8 DEF RaiseStop, vars
  <2> QED
    BY <1>a, <1>c, <2>1 DEF IInv, BeliefSound, RepliesSound
<1> QED
  BY <1>1, <1>2, <1>3, <1>4, <1>5, <1>6, <1>7, <1>8 DEF Next

\* The inductive invariant: the stream's shape, what each reporter believes of it
\* and what the answers still on their way say of it agree in every state.
THEOREM Inductive == Spec => []IInv
<1>1. IInv /\ [Next]_vars => IInv'
  BY NextIInv
<1> QED
  BY <1>1, InitIInv, PTL DEF Spec

\* An operation has one terminal event and nothing follows it, no reporter is
\* wrong in believing it over, and admission is only ever the first event.
THEOREM StreamSafe == Spec => [](SingleTerminal /\ BeliefSound /\ AdmissionFirst)
<1>1. IInv => SingleTerminal /\ BeliefSound /\ AdmissionFirst
  BY DEF IInv
<1> QED
  BY <1>1, Inductive, PTL

-----------------------------------------------------------------------------
(* A closed stream is frozen, and the stream keeps the promise of its reader *)

\* Who may still write to the stream does not matter once it is closed.
LEMMA StepFrozen ==
  ASSUME IInv, [Next]_vars, Closed(stream)
  PROVE  UNCHANGED <<stream, appended>>
<1>1. ASSUME NEW t \in Threads, Eval(t) PROVE UNCHANGED <<stream, appended>>
  BY <1>1 DEF Eval, Stored, Reply
<1> QED
  BY <1>1 DEF Next, Construct, Crash, CheckControl, Build, Settle, Fail,
              RaiseStop, vars

\* A closed stream never changes again.
THEOREM Frozen == Spec => ClosedIsFrozen
<1>1. IInv /\ [Next]_vars => [Closed(stream) => UNCHANGED <<stream, appended>>]_vars
  BY StepFrozen
<1> QED
  BY <1>1, Inductive, PTL DEF Spec, ClosedIsFrozen

\* Under the invariant every step is a step of TerminalOnce or a stutter.
LEMMA StepPromise ==
  ASSUME IInv, [Next]_vars
  PROVE  [Promise!Next]_(Promise!vars)
<1> USE DEF Promise!Next, Promise!vars, Promise!Report, Promise!Close, Promise!Open
<1>1. ASSUME NEW t \in Threads, Eval(t) PROVE [Promise!Next]_(Promise!vars)
  <2> DEFINE event == calls[t].event
             reply == Reply(stream, event)
  <2>1. event \in Event(OpType) /\ TypeOK
    BY <1>1 DEF Eval, Call, Idle, TypeOK, IInv
  <2>2. /\ stream' = Stored(stream, event)
        /\ appended' = IF reply = "added" THEN appended + 1 ELSE appended
    BY <1>1 DEF Eval
  <2>3. CASE reply # "added"
    <3>1. UNCHANGED <<stream, appended>>
      BY <2>2, <2>3 DEF Stored
    <3> QED
      BY <3>1 DEF Closed
  <2>4. CASE reply = "added"
    <3>1. ~Closed(stream) /\ appended' = appended + 1
      BY <2>2, <2>4 DEF Reply
    <3>2. stream' # <<>> /\ stream'[Len(stream')] = event
      <4> HIDE DEF event
      <4>1. Stored(stream, event) # <<>>
            /\ Stored(stream, event)[Len(Stored(stream, event))] = event
        BY <2>1, <2>4, StoredShape, MaxLenAssumption DEF TypeOK
      <4> QED
        BY <2>2, <4>1
    <3>3. CASE IsTerminal(event)
      BY <3>1, <3>2, <3>3 DEF Closed, IsTerminal
    <3>4. CASE ~IsTerminal(event)
      BY <3>1, <3>2, <3>4 DEF Closed
    <3> QED
      BY <3>3, <3>4
  <2> QED
    BY <2>3, <2>4
<1>2. ASSUME UNCHANGED <<stream, appended>> PROVE [Promise!Next]_(Promise!vars)
  BY <1>2 DEF Closed
<1> QED
  BY <1>1, <1>2 DEF Next, Construct, Crash, CheckControl, Build, Settle, Fail,
                   RaiseStop, vars

\* Every behaviour of the reporters and the script is, seen by a reader of the
\* stream, one of TerminalOnce: events while open, one outcome, then nothing.
THEOREM Refinement == Spec => KeepsPromise
<1>1. Init => Promise!Init
  BY DEF Init, Promise!Init, Promise!Open, Closed
<1>2. IInv /\ [Next]_vars => [Promise!Next]_(Promise!vars)
  BY StepPromise
<1> QED
  BY <1>1, <1>2, Inductive, PTL DEF Spec, KeepsPromise, Promise!Spec
=============================================================================
