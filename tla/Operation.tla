----------------------------- MODULE Operation -----------------------------
(***************************************************************************)
(* What KnoVa promises about one operation, whatever component speaks for  *)
(* it: its results are written at most once and never after the outcome is *)
(* known, it has one outcome, COMPLETED means the results are there,       *)
(* CANCELLED means someone asked for it, and a timeout is only reported    *)
(* once the deadline has passed.                                           *)
(***************************************************************************)

CONSTANTS Failures, Timeout   \* outcomes other than COMPLETED and CANCELLED

VARIABLES asked, late, written, outcome

vars == <<asked, late, written, outcome>>

Init == ~asked /\ ~late /\ ~written /\ outcome = "open"

Ask == ~asked /\ asked' = TRUE /\ UNCHANGED <<late, written, outcome>>

Expire == ~late /\ late' = TRUE /\ UNCHANGED <<asked, written, outcome>>

Write == /\ outcome = "open" /\ ~written
         /\ written' = TRUE
         /\ UNCHANGED <<asked, late, outcome>>

Close(o) == /\ outcome = "open"
            /\ o = "COMPLETED" => written
            /\ o = "CANCELLED" => asked
            /\ o = Timeout => late
            /\ outcome' = o
            /\ UNCHANGED <<asked, late, written>>

Next == \/ Ask \/ Expire \/ Write
        \/ \E o \in {"COMPLETED", "CANCELLED", Timeout} \cup Failures : Close(o)

Spec == Init /\ [][Next]_vars
=============================================================================
