---------------------------- MODULE MCAttribution ----------------------------
(***************************************************************************)
(* Instances of Attribution for TLC.                                       *)
(***************************************************************************)
EXTENDS Attribution

CONSTANTS late, early, put, call

Straddles == {late, early}
Put == {put}
PutAndCall == {put, call}
Swap == Permutations(PutAndCall)

\* Straddles are sold; or one strategy sells and the other one buys.
Sold == [s \in Straddles |-> {FALSE}]
SoldAndBought == [s \in Straddles |-> {s = early}]

\* One strategy may re-enter; the other one may be fired by hand.
Early == {early}
Late == {late}

\* The configuration stays as it is, or a strategy is removed from it.
Unchanged == {Straddles}
OneRemoved == {Straddles, {late}}
=============================================================================
