---------------------------- MODULE MCControlPlane ----------------------------
(* ControlPlane for TLC: which commands a run considers. *)
EXTENDS ControlPlane

Mixed == {"pause", "resume", "update", "fire", "restart", "shutdown"}
Claimed == {"exit", "flatten", "fire", "pause", "mixed", "restart"}
=============================================================================
