------------------------- MODULE EventScript_proofs -------------------------
(***************************************************************************)
(* Facts about the event builders of both protocols, the script and a      *)
(* reporter's memory, for every call and every stream: what the proofs     *)
(* about EventStream and Lifecycle have in common.                         *)
(***************************************************************************)
EXTENDS EventScript, TLAPS, WellFoundedInduction

-----------------------------------------------------------------------------
(* The event builders *)

\* A phase a caller may name is mapped into the operation's protocol.
LEMMA MapPhaseType ==
  ASSUME NEW op \in OperationTypes, NEW phase \in PhaseArgs(op)
  PROVE  MapPhase(op, phase) \in ProtocolPhases(op)
<1>1. CASE op = "training"
  BY <1>1 DEF MapPhase, PhaseTable, TrainingPhases, PhaseArgs, BrokerPhases,
              ProtocolPhases
<1>2. CASE op = "batch_inference"
  BY <1>2 DEF MapPhase, PhaseTable, InferencePhases, PhaseArgs, BrokerPhases,
              ProtocolPhases
<1> QED
  BY <1>1, <1>2 DEF OperationTypes

\* The phase of an event is in the operation's protocol.
LEMMA EventPhaseType ==
  ASSUME NEW op \in OperationTypes, NEW call \in CallTypes,
         NEW phase \in PhaseArgs(op) \cup {NoPhase},
         NEW current \in ProtocolPhases(op)
  PROVE  EventPhase(op, call, phase, current) \in ProtocolPhases(op)
<1> DEFINE asked == RequestedPhase(call, phase, current)
<1>1. asked \in PhaseArgs(op) \cup {NoPhase}
  BY DEF RequestedPhase, PhaseArgs
<1>2. asked # NoPhase => MapPhase(op, asked) \in ProtocolPhases(op)
  BY <1>1, MapPhaseType
<1>3. /\ op = "training" => {"COMPLETED", "QUEUED"} \subseteq ProtocolPhases(op)
      /\ op # "training" => "CLEANUP" \in ProtocolPhases(op)
  BY DEF ProtocolPhases
<1> HIDE DEF asked
<1>4. EventPhase(op, call, phase, current)
        = IF call = "COMPLETED"
          THEN IF op = "training" THEN "COMPLETED" ELSE "CLEANUP"
          ELSE IF call = "ACCEPTED" /\ op = "training" THEN "QUEUED"
          ELSE IF asked = NoPhase THEN current
          ELSE MapPhase(op, asked)
  BY DEF EventPhase, asked
<1> QED
  BY <1>2, <1>3, <1>4

\* Whatever code a caller passes, the code of a failure is one the operation's
\* protocol lists.
LEMMA ErrorCodeType ==
  ASSUME NEW op \in OperationTypes, NEW code, NEW phase
  PROVE  ErrorCode(op, code, phase) \in ProtocolCodes(op)
<1>1. CodeOfPhase(op, phase) \in ProtocolCodes(op)
  BY DEF CodeOfPhase, ProtocolCodes, TrainingCodes, InferenceCodes
<1>2. /\ {"INVALID_PAYLOAD", "UNKNOWN"} \subseteq ProtocolCodes(op)
      /\ op = "training" => "TRAINING_TIMEOUT" \in ProtocolCodes(op)
  BY DEF ProtocolCodes, TrainingCodes, InferenceCodes
<1> QED
  BY <1>1, <1>2 DEF ErrorCode

\* The type of an event is one the operation's wire protocol has.
LEMMA EventTypeType ==
  ASSUME NEW op \in OperationTypes, NEW call \in CallTypes
  PROVE  EventType(op, call) \in WireTypes(op)
<1>1. CASE op = "training"
  BY <1>1 DEF EventType, CallTypes, TerminalTypes, WireTypes
<1>2. CASE op = "batch_inference"
  BY <1>2 DEF EventType, CallTypes, TerminalTypes, WireTypes
<1> QED
  BY <1>1, <1>2 DEF OperationTypes

\* The row counts of an event are those given, or none.
LEMMA EventRowsType ==
  ASSUME NEW op \in OperationTypes, NEW call \in CallTypes,
         NEW given \in Int, NEW known \in Int
  PROVE  EventRows(op, call, given, known) \in Int
BY DEF EventRows, NoRows

\* publish() builds a well-typed event from any call, phase, code and memory.
LEMMA EventOfType ==
  ASSUME NEW op \in OperationTypes, NEW call \in CallTypes,
         NEW phase \in PhaseArgs(op) \cup {NoPhase}, NEW code,
         NEW given \in Int, NEW current \in ProtocolPhases(op),
         NEW known \in Int
  PROVE  EventOf(op, call, phase, code, given, current, known) \in Event(op)
<1> DEFINE shown == EventPhase(op, call, phase, current)
           given_code == IF call = "FAILED" THEN ErrorCode(op, code, shown)
                         ELSE NoCode
<1>1. shown \in ProtocolPhases(op)
  BY EventPhaseType
<1>2. given_code \in ProtocolCodes(op) \cup {NoCode}
  BY ErrorCodeType
<1>3. EventType(op, call) \in WireTypes(op)
  BY EventTypeType
<1>4. EventRows(op, call, given, known) \in Int
  BY EventRowsType
<1>5. EventOf(op, call, phase, code, given, current, known)
        = [type |-> EventType(op, call), phase |-> shown, code |-> given_code,
           rows |-> EventRows(op, call, given, known), call |-> call]
  BY DEF EventOf
<1> HIDE DEF shown, given_code
<1> QED
  BY <1>1, <1>2, <1>3, <1>4, <1>5 DEF Event

-----------------------------------------------------------------------------
(* The script and the reporter's memory *)

\* What XADD with an exact MAXLEN leaves: the new event last, and before it the
\* events that were there, but for the oldest one when the stream was full.
LEMMA StoredShape ==
  ASSUME NEW S, NEW s \in Seq(S), NEW e \in S, Len(s) <= MaxLen,
         Reply(s, e) = "added"
  PROVE  LET n == Stored(s, e)
         IN  /\ n \in Seq(S)
             /\ Len(n) \in 1..MaxLen
             /\ Len(n) \in {Len(s), Len(s) + 1}
             /\ n[Len(n)] = e
             /\ \A i \in 1..(Len(n) - 1) : n[i] = s[i + (Len(s) + 1 - Len(n))]
<1> USE MaxLenAssumption
<1>1. CASE Len(s) < MaxLen
  <2>1. Stored(s, e) = Append(s, e)
    BY <1>1 DEF Stored
  <2> QED
    BY <1>1, <2>1
<1>2. CASE ~(Len(s) < MaxLen)
  <2>1. Stored(s, e) = Append(Tail(s), e)
    BY <1>2 DEF Stored
  <2>2. Len(s) = MaxLen /\ s # <<>>
    BY <1>2
  <2>3. /\ Tail(s) \in Seq(S)
        /\ Len(Tail(s)) = Len(s) - 1
        /\ \A i \in 1..(Len(s) - 1) : Tail(s)[i] = s[i + 1]
    BY <2>2
  <2> QED
    BY <2>1, <2>2, <2>3
<1> QED
  BY <1>1, <1>2

\* The script answers with a verdict that settling a publication can read.
LEMMA ReplyType ==
  ASSUME NEW s, NEW e
  PROVE  Reply(s, e) \in {"added", "late", "refused"}
BY DEF Reply

\* A finite, non-empty set of positions has a last one.
LEMMA LastCarrier ==
  ASSUME NEW n \in Nat, NEW C \in SUBSET (1..n), C # {}
  PROVE  \E i \in C : \A j \in C : j <= i
<1> DEFINE D == {n - i : i \in C}
<1>1. D \subseteq Nat /\ D # {}
  OBVIOUS
<1>2. PICK d \in D : \A x \in D : ~(<<x, d>> \in OpToRel(<, Nat))
  <2>1. IsWellFoundedOn(OpToRel(<, Nat), Nat)
    BY NatLessThanWellFounded
  <2> QED
    BY <1>1, <2>1, WFMin
<1>3. ASSUME NEW x \in D PROVE d <= x
  <2>1. x \in Nat /\ d \in Nat
    BY <1>1, <1>2
  <2> HIDE DEF D
  <2>2. ~(x < d)
    BY <1>2, <2>1 DEF OpToRel
  <2> QED
    BY <2>1, <2>2
<1>4. PICK i \in C : d = n - i
  BY <1>2
<1>5. ASSUME NEW j \in C PROVE j <= i
  <2>1. n - j \in D /\ i \in Nat /\ j \in Nat
    OBVIOUS
  <2>2. d <= n - j
    BY <1>3, <2>1
  <2> QED
    BY <1>4, <2>1, <2>2
<1> QED
  BY <1>5

\* The progress restored from a stream of events is a pair of row counts.
LEMMA NewestRowsType ==
  ASSUME NEW op \in OperationTypes, NEW s \in Seq(Event(op))
  PROVE  NewestRows(s) \in Int
<1>1. ASSUME NEW i \in 1..Len(s) PROVE s[i].rows \in Int
  <2>1. s[i] \in Event(op)
    OBVIOUS
  <2> QED
    BY <2>1 DEF Event
<1>2. CASE Carriers(s) = {}
  BY <1>2 DEF NewestRows, NoRows
<1>3. CASE Carriers(s) # {}
  <2> DEFINE k == CHOOSE i \in Carriers(s) : \A j \in Carriers(s) : j <= i
  <2>1. Carriers(s) \in SUBSET (1..Len(s)) /\ Len(s) \in Nat
    BY DEF Carriers
  <2>2. \E i \in Carriers(s) : \A j \in Carriers(s) : j <= i
    BY <1>3, <2>1, LastCarrier
  <2>3. k \in 1..Len(s)
    BY <2>1, <2>2
  <2>4. NewestRows(s) = s[k].rows
    BY <1>3 DEF NewestRows
  <2> QED
    BY <1>1, <2>3, <2>4
<1> QED
  BY <1>2, <1>3

\* A reporter constructed on any stream of events has a well-typed memory.
LEMMA RestoredType ==
  ASSUME NEW op \in OperationTypes, NEW s \in Seq(Event(op))
  PROVE  Restored(op, s) \in Reporter(op)
<1>1. NewestRows(s) \in Int
  BY NewestRowsType
<1>2. InitialPhase(op) \in ProtocolPhases(op)
  BY DEF InitialPhase, ProtocolPhases
<1>3. s # <<>> => s[Len(s)].phase \in ProtocolPhases(op)
  <2>1. ASSUME s # <<>> PROVE s[Len(s)] \in Event(op)
    BY <2>1
  <2> QED
    BY <2>1 DEF Event
<1> QED
  BY <1>1, <1>2, <1>3 DEF Restored, Reporter

\* Taking an answer into account keeps a reporter's memory well-typed.
LEMMA SettledType ==
  ASSUME NEW op, NEW m \in Reporter(op), NEW e \in Event(op), NEW reply
  PROVE  Settled(m, e, reply) \in Reporter(op)
BY DEF Settled, Reporter, Event

\* publish() ends a reporter only on a refusal or its own terminal event.
LEMMA SettledTerminal ==
  ASSUME NEW op, NEW m \in Reporter(op), NEW e \in Event(op),
         NEW reply \in {"added", "late", "refused"},
         Settled(m, e, reply).terminal
  PROVE  \/ m.terminal
         \/ reply = "refused"
         \/ reply = "added" /\ IsTerminal(e)
<1> SUFFICES ASSUME reply = "late" \/ (reply = "added" /\ ~IsTerminal(e))
             PROVE  Settled(m, e, reply).terminal = m.terminal
  OBVIOUS
<1>1. CASE reply = "late"
  BY <1>1 DEF Settled
<1>2. CASE reply = "added" /\ ~IsTerminal(e)
  <2>1. Settled(m, e, reply)
          = [m EXCEPT !.phase = e.phase, !.known = TRUE,
                      !.rows = IF e.rows = NoRows THEN @ ELSE e.rows]
    BY <1>2 DEF Settled
  <2> QED
    BY <2>1 DEF Reporter
<1> QED
  BY <1>1, <1>2
=============================================================================
