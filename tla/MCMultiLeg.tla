----------------------------- MODULE MCMultiLeg -----------------------------
(***************************************************************************)
(* Model values for MultiLeg: a straddle.                                  *)
(***************************************************************************)
EXTENDS MultiLeg, TLC

CONSTANTS call, put

Straddle == {call, put}

\* xsp_short_straddle sizes call and put each by its own margin.
OneEach == [l \in Straddle |-> 1]
TwoCalls == [l \in Straddle |-> IF l = call THEN 2 ELSE 1]
TwoEach == [l \in Straddle |-> 2]

\* The legs of a straddle of equal sizes are treated alike.
Swap == Permutations(Straddle)
=============================================================================
