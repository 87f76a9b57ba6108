---------------------------- MODULE EventScript ----------------------------
(***************************************************************************)
(* What one call to an event stream does: the Lua script that appends an   *)
(* event, and the memory a KnovaRedisEventReporter keeps of the stream.    *)
(* A stream is the sequence of the events Redis still holds, oldest first. *)
(***************************************************************************)
EXTENDS KnovaProtocol, Sequences

CONSTANT MaxLen     \* max_stream_length, the MAXLEN of XADD

ASSUME MaxLenAssumption == MaxLen \in Nat \ {0}

Closed(stream) == stream # <<>> /\ IsTerminal(stream[Len(stream)])

-----------------------------------------------------------------------------
(* _ATOMIC_EVENT_XADD_LUA *)

\* Mutant: no look at the newest entry.
Reply_Unguarded(stream, event) ==
  IF event.call = "ACCEPTED" /\ stream # <<>> THEN "late" ELSE "added"

\* Mutant: no special treatment of an admission event.
Reply_LateAdmission(stream, event) ==
  IF Closed(stream) THEN "refused" ELSE "added"

\* What the script answers: false, -1 or the identifier of the new entry.
Reply(stream, event) ==
  IF Closed(stream) THEN "refused"
  ELSE IF event.call = "ACCEPTED" /\ stream # <<>> THEN "late"
  ELSE "added"

\* The stream the script leaves.
Stored(stream, event) ==
  IF Reply(stream, event) # "added" THEN stream
  ELSE IF Len(stream) < MaxLen THEN Append(stream, event)
  ELSE Append(Tail(stream), event)

-----------------------------------------------------------------------------
(* The reporter's memory: _terminal, _current_phase, whether _snapshot holds *)
(* anything, and the progress number in it.                                  *)

Reporter(op) ==
  [terminal : BOOLEAN, phase : ProtocolPhases(op), known : BOOLEAN, rows : Int]

\* The positions whose event has the progress number.
Carriers(stream) == {i \in 1..Len(stream) : stream[i].rows # NoRows}

NewestRows(stream) ==
  IF Carriers(stream) = {} THEN NoRows
  ELSE stream[CHOOSE i \in Carriers(stream) :
                \A j \in Carriers(stream) : j <= i].rows

\* Mutant: a new reporter does not read the stream.
Restored_Blank(op, stream) ==
  [terminal |-> FALSE, phase |-> InitialPhase(op), known |-> FALSE, rows |-> NoRows]

\* A new reporter, after _restore_snapshot has read the stream.
Restored(op, stream) ==
  [terminal |-> \E i \in 1..Len(stream) : IsTerminal(stream[i]),
   phase    |-> IF stream = <<>> THEN InitialPhase(op)
                ELSE stream[Len(stream)].phase,
   known    |-> stream # <<>>,
   rows     |-> NewestRows(stream)]

\* Does publish() reach Redis at all?
Sends(reporter, event) ==
  ~reporter.terminal /\ ~(event.call = "ACCEPTED" /\ reporter.known)

\* Mutant: a late admission event is taken for a closed stream.
Settled_LateIsOver(reporter, event, reply) ==
  IF reply # "added" \/ IsTerminal(event)
  THEN [reporter EXCEPT !.terminal = TRUE]
  ELSE [reporter EXCEPT !.phase = event.phase,
                        !.known = TRUE,
                        !.rows  = IF event.rows = NoRows THEN @ ELSE event.rows]

\* The memory publish() leaves once the script has answered.
Settled(reporter, event, reply) ==
  IF reply = "late" THEN reporter
  ELSE IF reply = "refused" \/ IsTerminal(event)
  THEN [reporter EXCEPT !.terminal = TRUE]
  ELSE [reporter EXCEPT !.phase = event.phase,
                        !.known = TRUE,
                        !.rows  = IF event.rows = NoRows THEN @ ELSE event.rows]
=============================================================================
