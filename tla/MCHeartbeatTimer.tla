-------------------------- MODULE MCHeartbeatTimer --------------------------
(* Instances of HeartbeatTimer for TLC. *)
EXTENDS HeartbeatTimer
=============================================================================
