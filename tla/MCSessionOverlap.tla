-------------------------- MODULE MCSessionOverlap --------------------------
(* Instances of SessionOverlap for TLC. *)
EXTENDS SessionOverlap

In(type, seq, arg) ==
  [type |-> type, seq |-> seq, possdup |-> FALSE, arg |-> arg, end |-> 0]

\* A Logon response, a Logout, and what an actor still takes after that: a
\* frame ahead that opens a gap, and the one that closes it.
LateFrames ==
  {In("A", 1, HeartBtInt), In("5", 2, 0), In("0", 3, 0), In("2", 4, 1)}

\* A venue that answers the Logon with a Logout, twice over.
LogoutFirst ==
  {In("A", 1, HeartBtInt), In("5", 1, 0), In("1", 2, 1)}
=============================================================================
