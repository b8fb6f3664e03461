------------------------- MODULE MCConnectionManager -------------------------
(* An instance of ConnectionManager for TLC. *)
EXTENDS ConnectionManager
=============================================================================
