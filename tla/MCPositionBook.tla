--------------------------- MODULE MCPositionBook ---------------------------
(***************************************************************************)
(* Instances of PositionBook for TLC: the modes of broker and client.      *)
(***************************************************************************)
EXTENDS PositionBook

\* What the code expects: position updates before order statuses, orders
\* modified in place.
Expected == [replaces |-> FALSE, execsFirst |-> TRUE]
Smoothly == {Expected}

\* One expectation fails, or (with more behaviours than any other mode) both.
StatusFirst == {[Expected EXCEPT !.execsFirst = FALSE]}
Replacing == {[Expected EXCEPT !.replaces = TRUE]}
Rough == {[replaces |-> TRUE, execsFirst |-> FALSE]}
=============================================================================
