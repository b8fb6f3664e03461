---------------------------- MODULE MCFixSession ----------------------------
(* Instances of FixSession for TLC: which frames the counterparty may send   *)
(* in each run.                                                              *)
EXTENDS FixSession, TLC

In(type, seq, arg) ==
  [type |-> type, seq |-> seq, possdup |-> FALSE, arg |-> arg, end |-> 0]
PossDup(type, seq, arg) == [In(type, seq, arg) EXCEPT !.possdup = TRUE]

\* A request to replay the numbers from begin to end.
Resend(seq, begin, end) == [In("2", seq, begin) EXCEPT !.end = end]

\* What exercises the sending side: a Logon, and requests to replay: all there
\* is, up to a number that was not used yet, and an empty range.
SendingFrames ==
  {In("A", n, HeartBtInt) : n \in 1..2}
  \cup {Resend(2, 1, 0), Resend(2, 1, 2), Resend(3, 1, 9), Resend(3, 2, 1)}

\* What exercises the receiving side: a Logon, executions and their replays,
\* gap fills, a TestRequest and a Logout, at numbers around next_in.
ReceivingFrames ==
  {In("A", n, HeartBtInt) : n \in 1..2} \cup {In("8", n, 1) : n \in 1..3}
  \cup {PossDup("8", n, 1) : n \in 1..3} \cup {PossDup("4", n, 3) : n \in 1..2}
  \cup {In("0", 3, 2), In("1", 2, 1), In("2", 3, 1), In("5", 3, 0)}

\* Both.
SessionFrames == SendingFrames \cup ReceivingFrames

\* What a session meets in each epoch of the numbers.
ResetFrames ==
  {In("A", 1, HeartBtInt), In("8", 2, 1)}

\* Nothing distinguishes one fingerprint, or one request, from another.
Symmetry == Permutations(Requests) \cup Permutations(Fingerprints)
=============================================================================
