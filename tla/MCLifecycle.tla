---------------------------- MODULE MCLifecycle ----------------------------
(***************************************************************************)
(* Instances of Lifecycle for TLC: one delivery, or two of the operation,  *)
(* with a well-formed request, with a malformed one, or with either.       *)
(***************************************************************************)
EXTENDS Lifecycle

CONSTANTS d1, d2

One == {d1}
Two == {d1, d2}

Either    == {{}, One}
WellFormed == {One}
BothWellFormed == {Two}
=============================================================================
