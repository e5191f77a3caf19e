------------------------------ MODULE MCRiskGate ------------------------------
(* RiskGate for TLC: strategies that sell a straddle each. *)
EXTENDS RiskGate, TLC

CONSTANTS a, b, c, call, put

Three == {a, b, c}
Two == {a, b}
Straddle == {call, put}
OneLeg == {call}
Quantities == 1 .. 6
Premiums == 0 .. 9
Even == {0}
Losing == {-1}
Swap == Permutations({a, b, c}) \cup Permutations({call, put})
=============================================================================
