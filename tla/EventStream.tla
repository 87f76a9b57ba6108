---------------------------- MODULE EventStream ----------------------------
(***************************************************************************)
(* One operation's event stream and the reporters that write to it: the    *)
(* admission's, the lifecycle watcher's and the driver's.  They live in    *)
(* different processes, each remembers the stream as it last saw it, and   *)
(* one reporter may serve several threads (the driver and its progress     *)
(* pump).  A publish() is three steps, because a thread can be preempted,  *)
(* or its process die, between any two of them: the event is built from    *)
(* the reporter's memory, the script runs in Redis, the memory is updated. *)
(***************************************************************************)
EXTENDS EventScript

CONSTANTS
  OpType,       \* the operation_type of the stream's operation
  Reporters,    \* reporter instances
  Threads,      \* threads that call publish()
  ReporterOf,   \* the reporter each thread uses
  Controlled,   \* the reporters that have a cancel key and a deadline
  CallSites,    \* [by, call, phase, code, rows]: the calls each thread makes
  Phases,       \* the phases threads name to check_control()
  MaxEvents     \* bound: no event is built once this many were appended

ASSUME StreamAssumption ==
  /\ OpType \in OperationTypes
  /\ ReporterOf \in [Threads -> Reporters]
  /\ Controlled \subseteq Reporters
  /\ CallSites \subseteq [by : Threads, call : CallTypes,
                          phase : PhaseArgs(OpType) \cup {NoPhase},
                          code : STRING, rows : Int]
  /\ Phases \subseteq PhaseArgs(OpType)
  /\ MaxEvents \in Nat

VARIABLES
  stream,     \* the events Redis holds
  appended,   \* how many events were ever appended
  up,         \* up[r]: the process that holds reporter r is alive
  memory,     \* memory[r]: what reporter r remembers
  calls,      \* calls[t]: the publish() thread t is in
  stop        \* the cancel key exists or the deadline has passed

vars == <<stream, appended, up, memory, calls, stop>>

Idle == [at |-> "idle"]

Built(event)       == [at |-> "built", event |-> event]
Sent(event, reply) == [at |-> "sent", event |-> event, reply |-> reply]

Blank == [terminal |-> FALSE, phase |-> InitialPhase(OpType),
          known |-> FALSE, rows |-> NoRows]

Init ==
  /\ stream = <<>>
  /\ appended = 0
  /\ up = [r \in Reporters |-> FALSE]
  /\ memory = [r \in Reporters |-> Blank]
  /\ calls = [t \in Threads |-> Idle]
  /\ stop = FALSE

-----------------------------------------------------------------------------

\* __init__: the constructor reads the stream back.
Construct(r) ==
  /\ ~up[r]
  /\ up' = [up EXCEPT ![r] = TRUE]
  /\ memory' = [memory EXCEPT ![r] = Restored(OpType, stream)]
  /\ UNCHANGED <<stream, appended, calls, stop>>

\* The process of a reporter dies, with whatever its threads were doing.
Crash(r) ==
  /\ up[r]
  /\ up' = [up EXCEPT ![r] = FALSE]
  /\ memory' = [memory EXCEPT ![r] = Blank]
  /\ calls' = [t \in Threads |-> IF ReporterOf[t] = r THEN Idle ELSE calls[t]]
  /\ UNCHANGED <<stream, appended, stop>>

\* check_control(phase) takes the phase over before it looks at anything else.
CheckControl(t, phase) ==
  LET r == ReporterOf[t]
  IN  /\ up[r]
      /\ calls[t] = Idle
      /\ memory' = [memory EXCEPT ![r].phase = MapPhase(OpType, phase)]
      /\ UNCHANGED <<stream, appended, up, calls, stop>>

\* check_control() of a reporter that has something to check and still may.
Raises(r) == r \in Controlled /\ stop /\ ~memory[r].terminal

\* publish(), up to the call to Redis.  A COMPLETED checks the control first.
Build(site) ==
  LET t     == site.by
      r     == ReporterOf[t]
      event == EventOf(OpType, site.call, site.phase, site.code, site.rows,
                       memory[r].phase, memory[r].rows)
  IN  /\ up[r]
      /\ calls[t] = Idle
      /\ appended < MaxEvents
      /\ site.call = "COMPLETED" => ~Raises(r)
      /\ Sends(memory[r], event)
      /\ calls' = [calls EXCEPT ![t] = Built(event)]
      /\ UNCHANGED <<stream, appended, up, memory, stop>>

\* The script runs.
Eval(t) ==
  LET event == calls[t].event
      reply == Reply(stream, event)
  IN  /\ calls[t].at = "built"
      /\ stream' = Stored(stream, event)
      /\ appended' = IF reply = "added" THEN appended + 1 ELSE appended
      /\ calls' = [calls EXCEPT ![t] = Sent(event, reply)]
      /\ UNCHANGED <<up, memory, stop>>

\* publish() has the reply and updates the reporter.
Settle(t) ==
  /\ calls[t].at = "sent"
  /\ memory' = [memory EXCEPT
       ![ReporterOf[t]] = Settled(@, calls[t].event, calls[t].reply)]
  /\ calls' = [calls EXCEPT ![t] = Idle]
  /\ UNCHANGED <<stream, appended, up, stop>>

\* The connection fails before the script ran or before its answer arrived:
\* publish() raises and the memory stays as it was.
Fail(t) ==
  /\ calls[t] # Idle
  /\ calls' = [calls EXCEPT ![t] = Idle]
  /\ UNCHANGED <<stream, appended, up, memory, stop>>

RaiseStop ==
  /\ ~stop
  /\ stop' = TRUE
  /\ UNCHANGED <<stream, appended, up, memory, calls>>

Next ==
  \/ \E r \in Reporters : Construct(r) \/ Crash(r)
  \/ \E t \in Threads : Eval(t) \/ Settle(t) \/ Fail(t)
  \/ \E t \in Threads, phase \in Phases : CheckControl(t, phase)
  \/ \E site \in CallSites : Build(site)
  \/ RaiseStop

Spec == Init /\ [][Next]_vars

-----------------------------------------------------------------------------

Call == {Idle}
          \cup [at : {"built"}, event : Event(OpType)]
          \cup [at : {"sent"}, event : Event(OpType),
                reply : {"added", "late", "refused"}]

\* What an event carries and a reporter remembers is KnoVa's vocabulary: no
\* broker phase or broker error code reaches the wire, whoever passed it.
TypeOK ==
  /\ stream \in Seq(Event(OpType))
  /\ Len(stream) <= MaxLen
  /\ appended \in Nat
  /\ up \in [Reporters -> BOOLEAN]
  /\ memory \in [Reporters -> Reporter(OpType)]
  /\ calls \in [Threads -> Call]
  /\ stop \in BOOLEAN

\* An operation has one terminal event, and nothing follows it: whichever of
\* the reporters closes the stream, the late ones are refused by the script.
SingleTerminal ==
  \A i \in 1..Len(stream) : IsTerminal(stream[i]) => i = Len(stream)

\* A reporter that believes the operation is over is right.  publish() drops
\* every event silently once _terminal is set, so a wrong belief would lose
\* the operation's outcome.
BeliefSound == \A r \in Reporters : memory[r].terminal => Closed(stream)

\* Admission never rolls a phase back: the event of an ACCEPTED call is the
\* first one the stream ever had, also after MAXLEN has trimmed the stream.
AdmissionFirst ==
  \A i \in 1..Len(stream) :
    stream[i].call = "ACCEPTED" => appended - Len(stream) + i = 1

\* An answer still on its way to its thread is as good as one received: it
\* says "closed" only of a closed stream.
RepliesSound ==
  \A t \in Threads :
    /\ calls[t].at = "sent"
    /\ \/ calls[t].reply = "refused"
       \/ calls[t].reply = "added" /\ IsTerminal(calls[t].event)
    => Closed(stream)

\* The inductive invariant: the above, and that an empty stream is a new one.
IInv ==
  /\ TypeOK
  /\ SingleTerminal
  /\ BeliefSound
  /\ RepliesSound
  /\ AdmissionFirst
  /\ stream = <<>> => appended = 0

\* A closed stream never changes again, so a reader may stop at the first
\* terminal event it sees.
ClosedIsFrozen == [][Closed(stream) => UNCHANGED <<stream, appended>>]_vars

\* The stream and its script implement the promise of TerminalOnce.
Promise == INSTANCE TerminalOnce WITH
  Outcomes <- TerminalTypes,
  outcome  <- IF Closed(stream) THEN stream[Len(stream)].type ELSE "open",
  count    <- appended

\* Seen by a reader, the reporters and the script do what TerminalOnce allows.
KeepsPromise == Promise!Spec
=============================================================================
