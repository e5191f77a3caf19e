------------------------------- MODULE MCFiveEma -------------------------------
(***************************************************************************)
(* Instances of FiveEma for TLC: the variants that run.                    *)
(***************************************************************************)
EXTENDS FiveEma

CONSTANTS base, trail

OneBase == {base}
OneTrailing == {trail}
Both == {base, trail}
NoneTrailing == {}
TwoLevels == 1..2
ThreeLevels == 1..3
=============================================================================
