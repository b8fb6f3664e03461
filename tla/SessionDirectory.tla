-------------------------- MODULE SessionDirectory --------------------------
(***************************************************************************)
(* What ControlService may expect of the sessions it finds in SessionSlot, *)
(* whatever run_connection_manager and the sessions are busy with: a slot  *)
(* that names the latest session or none, and sessions that are open for   *)
(* orders or not, work off their mailbox in its order, and stop at any     *)
(* time.  A handle keeps its session, also when the slot has moved on.     *)
(*                                                                         *)
(* ConnectionManager is checked to implement it, and ControlPlane is built *)
(* on it.                                                                  *)
(***************************************************************************)
EXTENDS Integers, Sequences

CONSTANTS
  Clients,      \* tasks of the accept loop, one for each client slot
  MaxSessions   \* bound: sessions that are started

VARIABLES
  latest,   \* the last session that was started, 0 before the first one
  watched,  \* the session the manager holds a handle of, 0 if none
  slot,     \* SessionSlot: the session a new request gets, 0 if none
  session,  \* by number: stage, alive, mail, writing
  handle    \* the session whose handle a client holds, 0 if none

directory == <<latest, watched, slot>>
directoryVars == <<directory, session, handle>>

Sessions == 1..MaxSessions

\* SessionPhase as far as it matters to a command: "open" takes orders, "up"
\* and "open" may be logged out.
Stages == {"down", "up", "open"}

NewSession == [stage |-> "down", alive |-> TRUE, mail |-> <<>>, writing |-> FALSE]
Stopped == [stage |-> "down", alive |-> FALSE, mail |-> <<>>, writing |-> FALSE]

Init ==
  /\ latest = 0 /\ watched = 0 /\ slot = 0
  /\ session = [g \in Sessions |-> Stopped]
  /\ handle = [c \in Clients |-> 0]

(***************************************************************************)
(* The manager's side.                                                     *)
(***************************************************************************)
Start ==
  /\ watched = 0 /\ latest < MaxSessions
  /\ latest' = latest + 1
  /\ watched' = latest + 1
  /\ session' = [session EXCEPT ![latest + 1] = NewSession]
  /\ UNCHANGED <<slot, handle>>

Publish ==
  /\ watched # 0 /\ slot = 0
  /\ slot' = watched
  /\ UNCHANGED <<latest, watched, session, handle>>

Retire ==
  /\ slot # 0
  /\ slot' = 0 /\ watched' = 0
  /\ UNCHANGED <<latest, session, handle>>

(***************************************************************************)
(* A session by itself.                                                    *)
(***************************************************************************)
ChangesStage(g, stage) ==
  /\ session[g].alive /\ ~session[g].writing
  /\ stage # session[g].stage
  /\ ~(session[g].stage = "down" /\ stage = "open")
  /\ session' = [session EXCEPT ![g].stage = stage]
  /\ UNCHANGED <<directory, handle>>

\* The end of the stream, or an error of the session's own.
Stops(g) ==
  /\ session[g].alive /\ ~session[g].writing
  /\ session' = [session EXCEPT ![g] = Stopped]
  /\ UNCHANGED <<directory, handle>>

\* No handle is left.
Abandoned(g) ==
  /\ session[g].alive /\ ~session[g].writing
  /\ watched # g /\ slot # g /\ \A c \in Clients : handle[c] # g
  /\ session' = [session EXCEPT ![g] = Stopped]
  /\ UNCHANGED <<directory, handle>>

(***************************************************************************)
(* The commands of clients.                                                *)
(***************************************************************************)
\* SessionSlot::current.
Takes(c) ==
  /\ handle' = [handle EXCEPT ![c] = slot]
  /\ UNCHANGED <<directory, session>>

Drops(c) ==
  /\ handle' = [handle EXCEPT ![c] = 0]
  /\ UNCHANGED <<directory, session>>

\* commands.send fails when the session has stopped, and only then: the
\* mailbox holds more commands than there are clients.
Calls(c) ==
  /\ handle[c] # 0 /\ session[handle[c]].alive
  /\ session' = [session EXCEPT ![handle[c]].mail = Append(@, c)]
  /\ UNCHANGED <<directory, handle>>

IsNext(g, c) ==
  /\ session[g].alive /\ session[g].mail # <<>>
  /\ Head(session[g].mail) = c

\* A command is answered and the session is in this stage then.
Answers(g, c, stage) ==
  /\ IsNext(g, c)
  /\ session' = [session EXCEPT ![g].mail = Tail(@), ![g].writing = FALSE,
                                ![g].stage = stage]
  /\ UNCHANGED <<directory, handle>>

\* An order takes until its write returns.
BeginsOrder(g, c) ==
  /\ IsNext(g, c) /\ ~session[g].writing /\ session[g].stage = "open"
  /\ session' = [session EXCEPT ![g].writing = TRUE]
  /\ UNCHANGED <<directory, handle>>

\* A fatal error: the command is answered, then the session stops.
AnswersAndStops(g, c) ==
  /\ IsNext(g, c)
  /\ session' = [session EXCEPT ![g] = Stopped]
  /\ UNCHANGED <<directory, handle>>

Next ==
  \/ Start \/ Publish \/ Retire
  \/ \E g \in Sessions :
       \/ \E stage \in Stages : ChangesStage(g, stage)
       \/ Stops(g) \/ Abandoned(g)
       \/ \E c \in Clients :
            \/ BeginsOrder(g, c) \/ AnswersAndStops(g, c)
            \/ Answers(g, c, session[g].stage)
            \/ ~session[g].writing /\ session[g].stage # "down" /\ Answers(g, c, "down")
  \/ \E c \in Clients : Takes(c) \/ Drops(c) \/ Calls(c)

Spec == Init /\ [][Next]_directoryVars
=============================================================================
