----------------------------- MODULE MCFixLink ------------------------------
(* Instances of FixLink for TLC. *)
EXTENDS FixLink

\* Every frame the venue can send within the bounds.
VenueFrames ==
  [type : AdminTypes \cup {"4", "8"}, seq : 1..20, possdup : BOOLEAN,
   arg : 0..21, end : {0}]
=============================================================================
