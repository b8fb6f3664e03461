------------------------- MODULE ConnectionManager --------------------------
(***************************************************************************)
(* run_connection_manager of fixd, and the sessions it starts as their     *)
(* users see them: a phase, a task that lives or not, and a mailbox.       *)
(*                                                                         *)
(* The manager learns of the end of a session from three sources, none of  *)
(* which is enough alone: the events it subscribed to after the actor was  *)
(* spawned, the status it polls through the actor's own mailbox, and the   *)
(* error of that poll.  A session whose handles are all gone ends by       *)
(* itself; until then it lives on next to its successor.                   *)
(*                                                                         *)
(* Abstractions: one write of a session may take any time (writing); what  *)
(* a session does between two phases is its SessionLife; RecvError::Closed *)
(* cannot happen, because the manager's own handle holds a sender.         *)
(***************************************************************************)
EXTENDS Integers, Sequences

CONSTANTS
  Clients,           \* tasks of the accept loop, one for each client slot
  MaxSessions,       \* bound: connections the manager may make
  EventCap,          \* capacity of the broadcast channel
  ReconnectInitial,  \* reconnect_initial_ms
  ReconnectMax       \* reconnect_max_ms

ASSUME ManagerConstants ==
  /\ MaxSessions \in Nat \ {0}
  /\ EventCap \in Nat \ {0}
  /\ ReconnectInitial \in Nat /\ ReconnectMax \in Nat
  /\ ReconnectInitial <= ReconnectMax
  /\ "manager" \notin Clients

VARIABLES
  mgr,          \* what run_connection_manager awaits
  latest,       \* the last session it started, 0 before the first one
  slot,         \* SessionSlot: the session new requests get, 0 if none
  session,      \* the sessions, by number
  handle,       \* the session whose handle a client holds, 0 if none
  events,       \* what the manager's receiver has not read yet
  established,  \* an Established event was read for the latest session
  delay         \* reconnect_delay

vars == <<mgr, latest, slot, session, handle, events, established, delay>>

Sessions == 1..MaxSessions

Life(g) == INSTANCE SessionLife WITH
  alive <- session[g].alive, phase <- session[g].phase

Phases == {"Connecting", "LogonSent", "Established", "Recovering",
           "LogoutSent", "Disconnected", "Blocked"}

\* The manager has a handle of the latest session.
Holding == mgr \in {"spawned", "watching", "polling", "ending"}

(***************************************************************************)
(* A session.                                                              *)
(***************************************************************************)
\* events.send reaches the manager's receiver; a full one loses its oldest.
Broadcast(g, phase) ==
  events' = IF g = latest /\ mgr \in {"watching", "polling", "ending"}
            THEN (IF Len(events) < EventCap THEN events ELSE Tail(events))
                 \o <<phase>>
            ELSE events

\* Nothing is being written: the session selects.
Selects(g) == session[g].alive /\ session[g].writing = "no"

\* set_phase, as SessionLife has it.
Moves(g, phase) ==
  /\ Selects(g) /\ phase \in Life(g)!Follows[session[g].phase]
  /\ session' = [session EXCEPT ![g].phase = phase]
  /\ Broadcast(g, phase)
  /\ UNCHANGED <<mgr, latest, slot, handle, established, delay>>

\* A write of the session's own (heartbeat, answer, replay) takes its time.
StartsWriting(g) ==
  /\ Selects(g)
  /\ session' = [session EXCEPT ![g].writing = "admin"]
  /\ UNCHANGED <<mgr, latest, slot, handle, events, established, delay>>

EndsWriting(g) ==
  /\ session[g].alive /\ session[g].writing = "admin"
  /\ session' = [session EXCEPT ![g].writing = "no"]
  /\ UNCHANGED <<mgr, latest, slot, handle, events, established, delay>>

Stopped(phase) == [phase |-> phase, alive |-> FALSE, mail |-> <<>>, writing |-> "no"]

\* run returns: the stream is at its end, or an error came up, also one of
\* the command at hand.  What waits in the mailbox is dropped with it.
Ends(g, phase) ==
  /\ session[g].alive /\ phase \in Life(g)!Ended
  /\ phase = "Disconnected" => Selects(g)
  /\ session' = [session EXCEPT ![g] = Stopped(phase)]
  /\ Broadcast(g, phase)
  /\ UNCHANGED <<mgr, latest, slot, handle, established, delay>>

\* Mutant: a copy of the handle is kept until there is a successor.
AbandonedWhenReplaced(g) ==
  /\ Selects(g) /\ session[g].mail = <<>>
  /\ g # latest /\ slot # g /\ \A c \in Clients : handle[c] # g
  /\ session' = [session EXCEPT ![g] = Stopped(@.phase)]
  /\ UNCHANGED <<mgr, latest, slot, handle, events, established, delay>>

\* commands.recv() is None: no handle is left.
Abandoned(g) ==
  /\ Selects(g) /\ session[g].mail = <<>>
  /\ ~(Holding /\ g = latest) /\ slot # g /\ \A c \in Clients : handle[c] # g
  /\ session' = [session EXCEPT ![g] = Stopped(@.phase)]
  /\ UNCHANGED <<mgr, latest, slot, handle, events, established, delay>>

\* handle_command: a status or an order is answered in the same phase, a
\* Logout ends in LogoutSent; an order is written first.
IsNext(g, caller) ==
  session[g].alive /\ session[g].mail # <<>> /\ Head(session[g].mail) = caller

ServesClient(g, c) ==
  /\ IsNext(g, c) /\ session[g].writing # "admin"
  /\ \/ /\ session' = [session EXCEPT ![g].mail = Tail(@), ![g].writing = "no"]
        /\ UNCHANGED events
     \/ /\ Selects(g) /\ "LogoutSent" \in Life(g)!Follows[session[g].phase]
        /\ session' = [session EXCEPT ![g].mail = Tail(@), ![g].phase = "LogoutSent"]
        /\ Broadcast(g, "LogoutSent")
     \/ /\ Selects(g) /\ session[g].phase = "Established"
        /\ session' = [session EXCEPT ![g].writing = "order"]
        /\ UNCHANGED events
  /\ UNCHANGED <<mgr, latest, slot, handle, established, delay>>

(***************************************************************************)
(* The clients of ControlService, as far as they keep a session alive.     *)
(***************************************************************************)
Waits(c) == \E g \in Sessions : \E i \in DOMAIN session[g].mail : session[g].mail[i] = c

TakesHandle(c) ==
  /\ handle[c] = 0 /\ slot # 0
  /\ handle' = [handle EXCEPT ![c] = slot]
  /\ UNCHANGED <<mgr, latest, slot, session, events, established, delay>>

Calls(c) ==
  /\ handle[c] # 0 /\ session[handle[c]].alive /\ ~Waits(c)
  /\ session' = [session EXCEPT ![handle[c]].mail = Append(@, c)]
  /\ UNCHANGED <<mgr, latest, slot, handle, events, established, delay>>

DropsHandle(c) ==
  /\ handle[c] # 0 /\ ~Waits(c)
  /\ handle' = [handle EXCEPT ![c] = 0]
  /\ UNCHANGED <<mgr, latest, slot, session, events, established, delay>>

(***************************************************************************)
(* run_connection_manager.                                                 *)
(***************************************************************************)
ConnectFails ==
  /\ mgr = "connecting"
  /\ mgr' = "sleeping"
  /\ UNCHANGED <<latest, slot, session, handle, events, established, delay>>

\* spawn_initiator_logged: the actor may run before the manager goes on.
Spawn ==
  /\ mgr = "connecting" /\ latest < MaxSessions
  /\ latest' = latest + 1
  /\ session' = [session EXCEPT ![latest + 1] =
                   [phase |-> "Connecting", alive |-> TRUE, mail |-> <<>>, writing |-> "no"]]
  /\ mgr' = "spawned"
  /\ UNCHANGED <<slot, handle, events, established, delay>>

Subscribe ==
  /\ mgr = "spawned"
  /\ slot' = latest
  /\ events' = <<>>
  /\ established' = FALSE
  /\ mgr' = "watching"
  /\ UNCHANGED <<latest, session, handle, delay>>

TakeEvent ==
  /\ mgr = "watching" /\ events # <<>>
  /\ events' = Tail(events)
  /\ established' = (established \/ Head(events) = "Established")
  /\ delay' = IF Head(events) = "Established" THEN ReconnectInitial ELSE delay
  /\ mgr' = IF Head(events) \in {"Disconnected", "Blocked"} THEN "ending" ELSE mgr
  /\ UNCHANGED <<latest, slot, session, handle>>

Asks ==
  /\ session[latest].alive
  /\ session' = [session EXCEPT ![latest].mail = Append(@, "manager")]
  /\ mgr' = "polling"

\* Mutant: a poll that is not answered is no news.
PollIgnoringErrors ==
  /\ mgr = "watching" /\ Asks
  /\ UNCHANGED <<latest, slot, handle, events, established, delay>>

\* A second without an event: ask the session, through its mailbox.
Poll ==
  /\ mgr = "watching"
  /\ \/ Asks
     \/ ~session[latest].alive /\ UNCHANGED session /\ mgr' = "ending"
  /\ UNCHANGED <<latest, slot, handle, events, established, delay>>

PollAnswered(g) ==
  /\ IsNext(g, "manager") /\ session[g].writing = "no"
  /\ session' = [session EXCEPT ![g].mail = Tail(@)]
  /\ mgr' = IF session[g].phase \in Life(g)!Ended THEN "ending" ELSE "watching"
  /\ UNCHANGED <<latest, slot, handle, events, established, delay>>

\* The session stops with the poll in its mailbox.
PollDropped ==
  /\ mgr = "polling" /\ ~session[latest].alive
  /\ mgr' = "ending"
  /\ UNCHANGED <<latest, slot, session, handle, events, established, delay>>

\* Mutant: the slot keeps the session until the next one replaces it.
EndWatchKeeping ==
  /\ mgr = "ending"
  /\ events' = <<>>
  /\ delay' = IF established THEN ReconnectInitial ELSE delay
  /\ mgr' = "sleeping"
  /\ UNCHANGED <<latest, slot, session, handle, established>>

\* sessions.clear(), and the manager's own handle goes.
EndWatch ==
  /\ mgr = "ending"
  /\ slot' = 0
  /\ events' = <<>>
  /\ delay' = IF established THEN ReconnectInitial ELSE delay
  /\ mgr' = "sleeping"
  /\ UNCHANGED <<latest, session, handle, established>>

\* Mutant: the back-off has no limit.
WakeUnlimited ==
  /\ mgr = "sleeping"
  /\ delay' = 2 * delay
  /\ mgr' = "connecting"
  /\ UNCHANGED <<latest, slot, session, handle, events, established>>

Wake ==
  /\ mgr = "sleeping"
  /\ delay' = IF 2 * delay < ReconnectMax THEN 2 * delay ELSE ReconnectMax
  /\ mgr' = "connecting"
  /\ UNCHANGED <<latest, slot, session, handle, events, established>>

Init ==
  /\ mgr = "connecting"
  /\ latest = 0 /\ slot = 0
  /\ session = [g \in Sessions |-> Stopped("Disconnected")]
  /\ handle = [c \in Clients |-> 0]
  /\ events = <<>>
  /\ established = FALSE
  /\ delay = ReconnectInitial

Manager ==
  \/ ConnectFails \/ Spawn \/ Subscribe \/ TakeEvent \/ Poll
  \/ PollDropped \/ EndWatch \/ Wake

Serves(g) == PollAnswered(g) \/ \E c \in Clients : ServesClient(g, c)

Next ==
  \/ Manager
  \/ \E g \in Sessions :
       \/ \E phase \in Phases : Moves(g, phase) \/ Ends(g, phase)
       \/ StartsWriting(g) \/ EndsWriting(g)
       \/ Serves(g) \/ Abandoned(g)
  \/ \E c \in Clients : TakesHandle(c) \/ Calls(c) \/ DropsHandle(c)

Spec == Init /\ [][Next]_vars

\* The runtime runs every task that can run; a session's select! picks at
\* random among what is ready, so that its mailbox is read however busy the
\* stream is; execute makes one call with a handle and drops it.  Nothing is
\* asked of the counterparty.
FairSpec ==
  /\ Spec
  /\ WF_vars(Manager)
  /\ \A g \in Sessions : SF_vars(Serves(g)) /\ SF_vars(Abandoned(g))
  /\ \A c \in Clients : SF_vars(DropsHandle(c))

(***************************************************************************)
(* Properties.                                                             *)
(***************************************************************************)
\* The manager and its sessions are well typed; the delay never leaves the
\* configured range, however many connections fail.
ManagerTypeOK ==
  /\ mgr \in {"connecting", "spawned", "watching", "polling", "ending", "sleeping"}
  /\ latest \in 0..MaxSessions
  /\ slot \in {0, latest}
  /\ session \in [Sessions -> [phase : Phases, alive : BOOLEAN,
                               mail : Seq(Clients \cup {"manager"}),
                               writing : {"no", "admin", "order"}]]
  /\ handle \in [Clients -> 0..latest]
  /\ events \in Seq(Phases) /\ Len(events) <= EventCap
  /\ established \in BOOLEAN
  /\ delay \in ReconnectInitial..ReconnectMax

\* run_connection_manager and its sessions are to ControlService what
\* SessionDirectory says: the slot never names a session that was let go of,
\* and a session nobody let go of only stops by itself.
StageOf(phase) ==
  CASE phase = "Established" -> "open"
    [] phase \in {"LogonSent", "Recovering"} -> "up"
    [] OTHER -> "down"

\* A mailbox as clients see it, without the one poll that may be in it.
WithoutPoll(mail) ==
  LET Polls(n) == \E i \in 1..n : mail[i] = "manager"
  IN  IF Polls(Len(mail))
      THEN [i \in 1..(Len(mail) - 1) |-> IF Polls(i) THEN mail[i + 1] ELSE mail[i]]
      ELSE mail

View(s) ==
  [stage |-> IF s.alive THEN StageOf(s.phase) ELSE "down", alive |-> s.alive,
   mail |-> WithoutPoll(s.mail), writing |-> s.writing = "order"]

Seen == [g \in Sessions |-> View(session[g])]
Watched == IF Holding THEN latest ELSE 0

Directory == INSTANCE SessionDirectory WITH watched <- Watched, session <- Seen

KeepsTheDirectory == Directory!Spec

\* No write to the counterparty blocks for ever.
WritesEnd ==
  \A g \in Sessions : []<>(session[g].alive => session[g].writing = "no")

\* The manager notices the end of every session, also of one whose events it
\* missed: new requests do not get it any more.
EndedSessionLeavesSlot ==
  \A g \in Sessions : latest = g /\ ~session[g].alive ~> slot # g

\* A session that the manager has let go of does not stay behind next to its
\* successor: its task ends once the requests it still holds are answered,
\* provided no write to the counterparty blocks for ever.
AbandonedSessionsEnd ==
  WritesEnd => \A g \in Sessions :
    session[g].alive /\ slot # g /\ ~(Holding /\ latest = g) ~> ~session[g].alive
=============================================================================
