--------------------------- MODULE MCOrderManager ---------------------------
(***************************************************************************)
(* Model values for OrderManager and OrderChains.  The bounds are in the   *)
(* .cfg files; every configuration has at least                            *)
(* MaxIntents * (1 + MaxAttempts) order identities, so that no repricer is *)
(* ever stopped for want of one.                                           *)
(***************************************************************************)
EXTENDS OrderChains

CONSTANTS o1, o2, o3, call

ThreeOrders == {o1, o2, o3}
TwoOrders == {o1, o2}
OneLeg == {call}
=============================================================================
