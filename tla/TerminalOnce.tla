---------------------------- MODULE TerminalOnce ----------------------------
(***************************************************************************)
(* What the event channel of an operation promises its reader: events come *)
(* while the operation is open, one of them closes it with an outcome, and *)
(* after that nothing is ever added and the outcome never changes.         *)
(***************************************************************************)
EXTENDS Naturals

CONSTANT Outcomes

VARIABLES outcome, count

vars == <<outcome, count>>

Open == "open"

Init == outcome = Open /\ count = 0

Report == /\ outcome = Open
          /\ count' = count + 1
          /\ UNCHANGED outcome

Close == /\ outcome = Open
         /\ outcome' \in Outcomes
         /\ count' = count + 1

Next == Report \/ Close

Spec == Init /\ [][Next]_vars
=============================================================================
