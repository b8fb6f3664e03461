---------------------------- MODULE SessionLife -----------------------------
(***************************************************************************)
(* The life of one session actor as its users see it: SessionPhase and     *)
(* whether the task still runs.  It is what FixSession promises to         *)
(* run_connection_manager and to ControlService, and what ConnectionManager*)
(* assumes of a session; FixSession is checked to implement it.            *)
(***************************************************************************)
VARIABLES alive, phase

lifeVars == <<alive, phase>>

\* set_phase while the task runs: from each phase, the phases that follow it.
\* A frame ahead of next_in leads to Recovering from every phase but
\* Connecting, even after the Logout of either side.
Follows == [
  Connecting   |-> {"LogonSent"},
  LogonSent    |-> {"Established", "Recovering", "LogoutSent", "Disconnected"},
  Established  |-> {"Recovering", "LogoutSent", "Disconnected"},
  Recovering   |-> {"Established", "LogoutSent", "Disconnected"},
  LogoutSent   |-> {"Recovering", "Disconnected"},
  Disconnected |-> {"Recovering"}]

\* The phases a stopped session may be left in by its own run.
Ended == {"Disconnected", "Blocked"}

Init == ~alive /\ phase = "Disconnected"

Start == ~alive /\ alive' /\ phase' = "Connecting"

Move == alive /\ alive' /\ phase' \in Follows[phase]

End == alive /\ ~alive' /\ phase' \in Ended

Next == Start \/ Move \/ End

Spec == Init /\ [][Next]_lifeVars
=============================================================================
