-------------------------- MODULE MCHeartbeatWheel --------------------------
(* Instances of HeartbeatWheel for TLC.                                     *)
EXTENDS HeartbeatWheel, TLC

Symmetric == Permutations(Slots)
=============================================================================
