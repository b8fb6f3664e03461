------------------------- MODULE ControlPlaneProofs -------------------------
(***************************************************************************)
(* Theorems about ControlPlane, for any clients, requests and sessions:    *)
(* what execute submits is new to the journal (SubmitsNew), and what it    *)
(* answers about an order agrees with the journal (AnswersTrue).           *)
(*                                                                         *)
(* Neither is inductive.  SubmitsAreNew lasts because only one client at a *)
(* time is between the gate and its answer (GateHeld), because the session *)
(* that journals an order took it from a mailbox, where only clients wait  *)
(* that hold that session (MailHeld, HandlesHeld), and because a session   *)
(* that is writing has journaled the order at the head of its mailbox      *)
(* (OrderAtHand).  The answers to orders then are what RepliesTrue says.   *)
(* IInv is all of this.                                                    *)
(*                                                                         *)
(* The theorems about the limits rest on it, and stand in the second part. *)
(***************************************************************************)
EXTENDS ControlPlane, FiniteSetTheorems, WellFoundedInduction, TLAPS

IsApp(c) == IsApplication(doing[c].command)

\* The client is between the gate and its answer.
Admitted(c) ==
  at[c] = "looking up" \/ (at[c] \in {"calling", "waiting", "replied"} /\ IsApp(c))

Places == {"idle", "queued", "looking up", "calling", "waiting", "replied", "answering"}

SessionRecords == [stage : {"down", "up", "open"}, alive : BOOLEAN,
                   mail : Seq(Clients), writing : BOOLEAN]

Typed ==
  /\ latest \in 0..MaxSessions /\ watched \in 0..MaxSessions /\ slot \in 0..MaxSessions
  /\ session \in [Sessions -> SessionRecords]
  /\ handle \in [Clients -> 0..MaxSessions]
  /\ at \in [Clients -> Places]
  /\ doing \in [Clients -> Requests \cup {NoRequest}]
  /\ answer = [c \in Clients |-> answer[c]]
  /\ gate \in Seq(Clients)

\* Whoever calls a session has its handle.
HandlesHeld == \A c \in Clients : at[c] \in {"calling", "waiting"} => handle[c] # 0

\* Only the head of the queue is past the gate.
GateHeld == \A c \in Clients : Admitted(c) => gate # <<>> /\ Head(gate) = c

\* What a mailbox holds waits for that session, once; a session that is not
\* running has an empty one.
MailOf(g) ==
  /\ \A i \in 1..Len(session[g].mail) :
       at[session[g].mail[i]] = "waiting" /\ handle[session[g].mail[i]] = g
  /\ \A i, k \in 1..Len(session[g].mail) :
       session[g].mail[i] = session[g].mail[k] => i = k
  /\ ~session[g].alive => session[g].mail = <<>> /\ ~session[g].writing
  /\ session[g].alive => g <= latest

MailHeld == \A g \in Sessions : MailOf(g)

\* The order that a session is writing is the one the journal holds.
IsJournaled(c) == IsApp(c) /\ ~IsNew(Id(c)) /\ journal[Id(c)] = Fingerprint(doing[c])

OrderOf(g) ==
  session[g].writing => session[g].mail # <<>> /\ IsJournaled(Head(session[g].mail))

OrderAtHand == \A g \in Sessions : OrderOf(g)

Base == Typed /\ HandlesHeld /\ GateHeld

\* What the client of an order was answered agrees with the journal.
Truthful(c) ==
  \/ answer[c] \in {"STORE_UNAVAILABLE", "TRANSPORT_ERROR"}
  \/ answer[c] = "ok" /\ ~IsNew(Id(c)) /\ journal[Id(c)] = Fingerprint(doing[c])
  \/ answer[c] \in {"SESSION_NOT_ESTABLISHED", "INVALID_REQUEST"} /\ IsNew(Id(c))

RepliesTrue == \A c \in Clients : at[c] = "replied" /\ IsApp(c) => Truthful(c)

-----------------------------------------------------------------------------
\* What the steps of SessionDirectory do to the session at hand; the others
\* they leave as they are.
OnlyAt(g) == /\ session' \in [Sessions -> SessionRecords]
             /\ \A h \in Sessions : h # g => session'[h] = session[h]

\* A call goes to the end of the mailbox.
LEMMA CallsSession ==
  ASSUME session \in [Sessions -> SessionRecords], handle \in [Clients -> 0..MaxSessions],
         NEW c \in Clients, Directory!Calls(c)
  PROVE  LET g == handle[c]
         IN  /\ g \in Sessions /\ OnlyAt(g)
             /\ session[g].alive
             /\ session'[g].mail = Append(session[g].mail, c)
             /\ session'[g].alive = session[g].alive
             /\ session'[g].writing = session[g].writing
             /\ UNCHANGED <<latest, watched, slot, handle>>
<1>1. handle[c] \in Sessions
  BY ControlConstants DEF Directory!Calls, Sessions, Directory!Sessions
<1>2. Append(session[handle[c]].mail, c) \in Seq(Clients)
  BY <1>1 DEF SessionRecords
<1>3. session' = [session EXCEPT ![handle[c]].mail = Append(session[handle[c]].mail, c)]
  BY DEF Directory!Calls
<1>4. [session[handle[c]] EXCEPT !.mail = Append(session[handle[c]].mail, c)] \in SessionRecords
  BY <1>1, <1>2 DEF SessionRecords
<1>5. OnlyAt(handle[c])
  BY <1>1, <1>3, <1>4 DEF OnlyAt
<1>6. QED
  BY <1>1, <1>3, <1>5 DEF Directory!Calls, Directory!directory, SessionRecords

\* An answer takes the head off it and ends the write, if there was one.
LEMMA AnswersSession ==
  ASSUME session \in [Sessions -> SessionRecords],
         NEW g \in Sessions, NEW c \in Clients, NEW stage \in {"down", "up", "open"},
         Directory!Answers(g, c, stage)
  PROVE  /\ OnlyAt(g)
         /\ session[g].alive /\ session[g].mail # <<>> /\ Head(session[g].mail) = c
         /\ session'[g].mail = Tail(session[g].mail)
         /\ session'[g].alive = session[g].alive
         /\ session'[g].writing = FALSE
         /\ UNCHANGED <<latest, watched, slot, handle>>
<1>1. session[g].mail \in Seq(Clients) /\ session[g].mail # <<>>
  BY DEF Directory!Answers, Directory!IsNext, SessionRecords
<1>2. Tail(session[g].mail) \in Seq(Clients)
  BY <1>1
<1>3. session' = [session EXCEPT ![g] =
                    [session[g] EXCEPT !.mail = Tail(session[g].mail),
                                       !.writing = FALSE, !.stage = stage]]
  BY DEF Directory!Answers
<1>4. [session[g] EXCEPT !.mail = Tail(session[g].mail),
                         !.writing = FALSE, !.stage = stage] \in SessionRecords
  BY <1>2 DEF SessionRecords
<1>5. OnlyAt(g)
  BY <1>3, <1>4 DEF OnlyAt
<1>6. /\ session'[g].mail = Tail(session[g].mail)
      /\ session'[g].alive = session[g].alive
      /\ session'[g].writing = FALSE
  BY <1>3 DEF SessionRecords
<1>7. QED
  BY <1>5, <1>6 DEF Directory!Answers, Directory!IsNext, Directory!directory

\* A session that stops drops its mailbox.
LEMMA StopsSession ==
  ASSUME session \in [Sessions -> SessionRecords], NEW g \in Sessions,
         session' = [session EXCEPT ![g] = Directory!Stopped]
  PROVE  /\ OnlyAt(g)
         /\ session'[g].mail = <<>> /\ ~session'[g].alive /\ ~session'[g].writing
  BY DEF OnlyAt, SessionRecords, Directory!Stopped

\* The order at hand stays at the head while it is written.
LEMMA BeginsSession ==
  ASSUME session \in [Sessions -> SessionRecords],
         NEW g \in Sessions, NEW c \in Clients, Directory!BeginsOrder(g, c)
  PROVE  /\ OnlyAt(g)
         /\ session[g].alive /\ session[g].mail # <<>> /\ Head(session[g].mail) = c
         /\ session'[g].mail = session[g].mail
         /\ session'[g].alive = session[g].alive
         /\ session'[g].writing = TRUE
         /\ UNCHANGED <<latest, watched, slot, handle>>
  BY DEF OnlyAt, SessionRecords, Directory!BeginsOrder, Directory!IsNext, Directory!directory

\* A change of the phase is no more than that.
LEMMA ChangesSession ==
  ASSUME session \in [Sessions -> SessionRecords],
         NEW g \in Sessions, NEW stage \in Directory!Stages, Directory!ChangesStage(g, stage)
  PROVE  /\ OnlyAt(g)
         /\ session'[g].mail = session[g].mail
         /\ session'[g].alive = session[g].alive
         /\ session'[g].writing = session[g].writing
         /\ UNCHANGED <<latest, watched, slot, handle>>
  BY DEF OnlyAt, SessionRecords, Directory!ChangesStage, Directory!Stages, Directory!directory

\* A new session has an empty mailbox.
LEMMA StartsSession ==
  ASSUME Typed, Directory!Start
  PROVE  /\ latest + 1 \in Sessions /\ OnlyAt(latest + 1)
         /\ latest' = latest + 1 /\ watched' = latest + 1
         /\ session'[latest + 1].mail = <<>>
         /\ session'[latest + 1].writing = FALSE
         /\ UNCHANGED <<slot, handle>>
  BY ControlConstants
  DEF Typed, Sessions, Directory!Sessions, OnlyAt, SessionRecords, Directory!Start,
      Directory!NewSession

-----------------------------------------------------------------------------
\* The three things a session does with the command at hand: answer it, answer
\* it and stop, or begin to write the order it holds.
HasHead(g, c) ==
  session[g].alive /\ session[g].mail # <<>> /\ Head(session[g].mail) = c

IsReplied(c) ==
  /\ Goes(c, "replied")
  /\ \E code : answer' = [answer EXCEPT ![c] = code]

Answered(g, c) ==
  /\ HasHead(g, c) /\ IsReplied(c)
  /\ session'[g].mail = Tail(session[g].mail)
  /\ session'[g].alive = session[g].alive /\ ~session'[g].writing

AnsweredLast(g, c) ==
  /\ HasHead(g, c) /\ IsReplied(c)
  /\ session'[g].mail = <<>>
  /\ ~session'[g].alive /\ ~session'[g].writing

Begun(g, c) ==
  /\ HasHead(g, c) /\ UNCHANGED <<at, answer>>
  /\ session'[g].mail = session[g].mail
  /\ session'[g].alive = session[g].alive /\ session'[g].writing

\* Every answer of a session is one of them.
LEMMA SessionServes ==
  ASSUME Typed, NEW g \in Sessions, NEW c \in Clients,
         \/ ServeStatus(g, c) \/ ServeLogout(g, c) \/ ServeOrder(g, c)
         \/ OrderWritten(g, c) \/ OrderFails(g, c)
  PROVE  /\ OnlyAt(g)
         /\ Answered(g, c) \/ AnsweredLast(g, c) \/ Begun(g, c)
         /\ UNCHANGED <<latest, watched, slot, handle, doing, gate>>
<1>1. session[g].stage \in {"down", "up", "open"} /\ "down" \in {"down", "up", "open"}
  BY DEF Typed, SessionRecords
<1>2. ASSUME NEW code, NEW stage \in {"down", "up", "open"},
             Directory!Answers(g, c, stage), Replies(c, code)
      PROVE  OnlyAt(g) /\ Answered(g, c) /\ UNCHANGED <<latest, watched, slot, handle, doing, gate>>
  BY <1>2, AnswersSession DEF Typed, Answered, HasHead, IsReplied, Replies
<1>3. ASSUME NEW code, Directory!AnswersAndStops(g, c), Replies(c, code)
      PROVE  OnlyAt(g) /\ AnsweredLast(g, c) /\ UNCHANGED <<latest, watched, slot, handle, doing, gate>>
  BY <1>3, StopsSession
  DEF Typed, AnsweredLast, HasHead, IsReplied, Replies, Directory!AnswersAndStops,
      Directory!IsNext, Directory!directory
<1>4. ASSUME Directory!BeginsOrder(g, c), UNCHANGED <<clients, gate>>
      PROVE  OnlyAt(g) /\ Begun(g, c) /\ UNCHANGED <<latest, watched, slot, handle, doing, gate>>
  BY <1>4, BeginsSession DEF Typed, Begun, HasHead, clients
<1>5. CASE ServeStatus(g, c)
  BY <1>1, <1>2, <1>5 DEF ServeStatus
<1>6. CASE ServeLogout(g, c)
  BY <1>1, <1>2, <1>3, <1>6 DEF ServeLogout
<1>7. CASE ServeOrder(g, c)
  BY <1>1, <1>2, <1>3, <1>4, <1>7 DEF ServeOrder
<1>8. CASE OrderWritten(g, c)
  BY <1>1, <1>2, <1>8 DEF OrderWritten
<1>9. CASE OrderFails(g, c)
  BY <1>3, <1>9 DEF OrderFails
<1>10. QED
  BY <1>5, <1>6, <1>7, <1>8, <1>9

\* What a session or the manager does by itself leaves every mailbox as it is,
\* or empties that of a session which is not writing.
LEMMA SessionAlone ==
  ASSUME Typed, Elsewhere
  PROVE  /\ UNCHANGED <<handle, at, doing, answer, gate, journal>>
         /\ latest' \in 0..MaxSessions /\ watched' \in 0..MaxSessions /\ slot' \in 0..MaxSessions
         /\ \/ UNCHANGED <<latest, session>>
            \/ \E g \in Sessions :
                 /\ OnlyAt(g) /\ UNCHANGED latest
                 /\ \/ /\ session'[g].mail = session[g].mail
                       /\ session'[g].alive = session[g].alive
                       /\ session'[g].writing = session[g].writing
                    \/ /\ session'[g].mail = <<>> /\ ~session'[g].alive
                       /\ ~session[g].writing /\ ~session'[g].writing
            \/ /\ latest + 1 \in Sessions /\ latest' = latest + 1 /\ OnlyAt(latest + 1)
               /\ session'[latest + 1].mail = <<>> /\ ~session'[latest + 1].writing
<1> USE DEF Typed
<1>1. UNCHANGED <<at, doing, answer, gate, journal>>
  BY DEF Elsewhere, clients
<1>2. CASE Directory!Start
  <2>1. /\ latest + 1 \in Sessions /\ OnlyAt(latest + 1)
        /\ latest' = latest + 1 /\ watched' = latest + 1
        /\ session'[latest + 1].mail = <<>>
        /\ ~session'[latest + 1].writing
        /\ UNCHANGED <<slot, handle>>
    BY <1>2, StartsSession
  <2>2. latest + 1 \in 0..MaxSessions
    BY <2>1, ControlConstants DEF Sessions, Directory!Sessions
  <2>3. QED
    BY <1>1, <2>1, <2>2
<1>3. CASE Directory!Publish \/ Directory!Retire
  BY <1>1, <1>3, ControlConstants DEF Directory!Publish, Directory!Retire
<1>4. ASSUME NEW g \in Sessions, NEW stage \in Directory!Stages, Directory!ChangesStage(g, stage)
      PROVE  /\ OnlyAt(g) /\ UNCHANGED <<latest, watched, slot, handle>>
             /\ session'[g].mail = session[g].mail
             /\ session'[g].alive = session[g].alive
             /\ session'[g].writing = session[g].writing
  BY <1>4, ChangesSession
<1>5. ASSUME NEW g \in Sessions, Directory!Stops(g) \/ Directory!Abandoned(g)
      PROVE  /\ OnlyAt(g) /\ UNCHANGED <<latest, watched, slot, handle>>
             /\ session'[g].mail = <<>> /\ ~session'[g].alive
             /\ ~session[g].writing /\ ~session'[g].writing
  BY <1>5, StopsSession DEF Directory!Stops, Directory!Abandoned, Directory!directory
<1>6. QED
  BY <1>1, <1>2, <1>3, <1>4, <1>5 DEF Elsewhere

\* The head of the queue leaves the gate: nobody else was past it.
LEMMA HeadLeaves ==
  ASSUME Base, NEW c \in Clients, Admitted(c)
  PROVE  /\ Tail(gate) \in Seq(Clients)
         /\ \A d \in Clients : Admitted(d) => d = c
  BY DEF Base, Typed, GateHeld

\* Who comes last at the gate does not change who is first.
LEMMA LastWaits ==
  ASSUME NEW s \in Seq(Clients), NEW c \in Clients
  PROVE  /\ Append(s, c) \in Seq(Clients) /\ Append(s, c) # <<>>
         /\ s # <<>> => Head(Append(s, c)) = Head(s)
<1>1. /\ Len(s) \in Nat /\ Append(s, c) \in Seq(Clients)
      /\ Len(Append(s, c)) = Len(s) + 1
      /\ \A i \in 1..Len(s) : Append(s, c)[i] = s[i]
  OBVIOUS
<1>2. s # <<>> => Len(s) >= 1 /\ Head(s) = s[1] /\ Head(Append(s, c)) = Append(s, c)[1]
  BY <1>1
<1>3. Append(s, c) # <<>>
  BY <1>1
<1>4. QED
  BY <1>1, <1>2, <1>3

\* The command at hand is that of a client who waits for this session.
LEMMA HeadWaits ==
  ASSUME Typed, MailHeld, NEW g \in Sessions, session[g].mail # <<>>
  PROVE  /\ Head(session[g].mail) \in Clients
         /\ at[Head(session[g].mail)] = "waiting"
         /\ handle[Head(session[g].mail)] = g
<1>1. session[g].mail \in Seq(Clients)
  BY DEF Typed, SessionRecords
<1>2. 1 \in 1..Len(session[g].mail) /\ Head(session[g].mail) = session[g].mail[1]
      /\ session[g].mail[1] \in Clients
  BY <1>1
<1>3. QED
  BY <1>2 DEF MailHeld, MailOf

\* Everything keeps its type, clients call only sessions they hold, and one
\* client at a time is past the gate.
LEMMA BaseKept ==
  ASSUME Base, MailHeld, [Next]_vars
  PROVE  Base'
<1> USE DEF Base
<1>1. ASSUME NEW c \in Clients, NEW r \in Requests, Execute(c, r)
      PROVE  Base'
  <2>1. /\ Append(gate, c) \in Seq(Clients) /\ Append(gate, c) # <<>>
        /\ gate # <<>> => Head(Append(gate, c)) = Head(gate)
    BY LastWaits DEF Typed
  <2>2. /\ at[c] = "idle" /\ doing' = [doing EXCEPT ![c] = r]
        /\ UNCHANGED <<latest, watched, slot, session>>
        /\ \/ Goes(c, "answering") /\ UNCHANGED <<handle, gate>>
           \/ /\ Goes(c, "calling") /\ slot # 0 /\ handle' = [handle EXCEPT ![c] = slot]
              /\ ~IsApplication(r.command) /\ UNCHANGED gate
           \/ Goes(c, "queued") /\ gate' = Append(gate, c) /\ UNCHANGED handle
        /\ \/ UNCHANGED answer
           \/ \E code : answer' = [answer EXCEPT ![c] = code]
    BY <1>1 DEF Execute, IsTold, Directory!Takes, Directory!directory, sessions
  <2>3. Typed'
    BY <2>1, <2>2 DEF Typed, Places, Goes
  <2>4. HandlesHeld'
    BY <2>2 DEF Typed, HandlesHeld, Goes
  <2>5. \A d \in Clients : Admitted(d)' => Admitted(d)
    BY <2>2 DEF Typed, Admitted, IsApp, Goes
  <2>6. GateHeld'
    BY <2>1, <2>2, <2>5 DEF GateHeld
  <2>. QED
    BY <2>3, <2>4, <2>6
<1>2. ASSUME NEW c \in Clients, EnterGate(c)
      PROVE  Base'
  <2>1. /\ at[c] = "queued" /\ gate # <<>> /\ Head(gate) = c /\ Goes(c, "looking up")
        /\ handle' = [handle EXCEPT ![c] = slot]
        /\ UNCHANGED <<latest, watched, slot, session, doing, answer, gate>>
    BY <1>2 DEF EnterGate, Directory!Takes, Directory!directory
  <2>2. Typed'
    BY <2>1 DEF Typed, Places, Goes
  <2>3. HandlesHeld'
    BY <2>1 DEF Typed, HandlesHeld, Goes
  <2>4. GateHeld'
    BY <2>1 DEF Typed, GateHeld, Admitted, IsApp, Goes
  <2>. QED
    BY <2>2, <2>3, <2>4
<1>3. ASSUME NEW c \in Clients, LookUp(c)
      PROVE  Base'
  <2>1. at[c] = "looking up" /\ UNCHANGED doing
    BY <1>3 DEF LookUp
  <2>2. \/ /\ Goes(c, "answering") /\ gate' = Tail(gate)
           /\ handle' = [handle EXCEPT ![c] = 0]
           /\ \E code : answer' = [answer EXCEPT ![c] = code]
           /\ UNCHANGED <<latest, watched, slot, session>>
        \/ /\ Goes(c, "calling") /\ handle[c] # 0
           /\ UNCHANGED <<answer, gate, latest, watched, slot, session, handle>>
    BY <1>3 DEF LookUp, IsTold, Directory!Drops, Directory!directory, sessions, LeavesGate
  <2>3. /\ Tail(gate) \in Seq(Clients)
        /\ \A d \in Clients : Admitted(d) => d = c
    BY <2>1, HeadLeaves DEF Admitted
  <2>4. Typed'
    <3>1. 0 \in 0..MaxSessions
      BY ControlConstants
    <3>2. handle' \in [Clients -> 0..MaxSessions] /\ gate' \in Seq(Clients)
      BY <2>2, <2>3, <3>1 DEF Typed
    <3>3. QED
      BY <2>1, <2>2, <3>2 DEF Typed, Places, Goes
  <2>5. HandlesHeld'
    BY <2>2 DEF Typed, HandlesHeld, Goes
  <2>6. GateHeld'
    BY <2>1, <2>2, <2>3 DEF Typed, GateHeld, Admitted, IsApp, Goes
  <2>. QED
    BY <2>4, <2>5, <2>6
<1>4. ASSUME NEW c \in Clients, Call(c)
      PROVE  Base'
  <2>1. /\ at[c] = "calling" /\ Goes(c, "waiting")
        /\ session' \in [Sessions -> SessionRecords]
        /\ UNCHANGED <<latest, watched, slot, handle, doing, answer, gate>>
    BY <1>4, CallsSession DEF Call, OnlyAt, Typed
  <2>2. Typed'
    BY <2>1 DEF Typed, Places, Goes
  <2>3. HandlesHeld' /\ GateHeld'
    BY <2>1 DEF Typed, HandlesHeld, GateHeld, Admitted, IsApp, Goes
  <2>. QED
    BY <2>2, <2>3
<1>5. ASSUME NEW c \in Clients, Resume(c)
      PROVE  Base'
  <2>1. /\ at[c] \in {"calling", "waiting", "replied"} /\ Goes(c, "answering")
        /\ IF IsApp(c) THEN gate' = Tail(gate) ELSE UNCHANGED gate
        /\ \E code : answer' = [answer EXCEPT ![c] = code]
        /\ handle' = [handle EXCEPT ![c] = 0]
        /\ UNCHANGED <<latest, watched, slot, session, doing>>
    BY <1>5 DEF Resume, IsTold, Directory!Drops, Directory!directory, LeavesGate, IsApp
  <2>2. IsApp(c) => /\ Tail(gate) \in Seq(Clients)
                    /\ \A d \in Clients : Admitted(d) => d = c
    BY <2>1, HeadLeaves DEF Admitted
  <2>3. Typed'
    <3>1. 0 \in 0..MaxSessions
      BY ControlConstants
    <3>2. handle' \in [Clients -> 0..MaxSessions] /\ gate' \in Seq(Clients)
      BY <2>1, <2>2, <3>1 DEF Typed
    <3>3. QED
      BY <2>1, <3>2 DEF Typed, Places, Goes
  <2>4. HandlesHeld'
    BY <2>1 DEF Typed, HandlesHeld, Goes
  <2>5. GateHeld'
    BY <2>1, <2>2 DEF Typed, GateHeld, Admitted, IsApp, Goes
  <2>. QED
    BY <2>3, <2>4, <2>5
<1>6. ASSUME NEW c \in Clients, Respond(c)
      PROVE  Base'
  BY <1>6 DEF Respond, Typed, Places, HandlesHeld, GateHeld, Admitted, IsApp, Goes, sessions
<1>7. ASSUME NEW g \in Sessions, Serves(g) \/ Writing(g)
      PROVE  Base'
  <2>1. PICK c \in Clients : ServeStatus(g, c) \/ ServeLogout(g, c) \/ ServeOrder(g, c)
                               \/ OrderWritten(g, c) \/ OrderFails(g, c)
    BY <1>7 DEF Serves, Writing
  <2>2. /\ session' \in [Sessions -> SessionRecords]
        /\ UNCHANGED <<latest, watched, slot, handle, doing, gate>>
        /\ \/ UNCHANGED <<at, answer>>
           \/ HasHead(g, c) /\ IsReplied(c)
    BY <2>1, SessionServes DEF OnlyAt, Answered, AnsweredLast, Begun
  <2>5. HasHead(g, c) => at[c] = "waiting"
    BY HeadWaits DEF HasHead, Typed
  <2>3. Typed'
    BY <2>2 DEF Typed, Places, Goes, IsReplied
  <2>4. HandlesHeld' /\ GateHeld'
    BY <2>2, <2>5 DEF Typed, HandlesHeld, GateHeld, Admitted, IsApp, Goes, IsReplied
  <2>. QED
    BY <2>3, <2>4
<1>8. ASSUME Elsewhere
      PROVE  Base'
  <2>1. /\ session' \in [Sessions -> SessionRecords]
        /\ latest' \in 0..MaxSessions /\ watched' \in 0..MaxSessions /\ slot' \in 0..MaxSessions
        /\ UNCHANGED <<handle, at, doing, answer, gate>>
    BY <1>8, SessionAlone DEF OnlyAt, Typed
  <2>. QED
    BY <2>1 DEF Typed, HandlesHeld, GateHeld, Admitted, IsApp
<1>9. CASE Tick
  BY <1>9 DEF Tick, sessions, clients, Typed, HandlesHeld, GateHeld, Admitted, IsApp
<1>10. CASE UNCHANGED vars
  BY <1>10 DEF vars, sessions, clients, Typed, HandlesHeld, GateHeld, Admitted, IsApp
<1>11. QED
  BY <1>1, <1>2, <1>3, <1>4, <1>5, <1>6, <1>7, <1>8, <1>9, <1>10
  DEF Next, GoesOn

-----------------------------------------------------------------------------
\* What a step of a client's task leaves alone.
SameFor(d) ==
  at'[d] = at[d] /\ doing'[d] = doing[d] /\ answer'[d] = answer[d] /\ handle'[d] = handle[d]

InNoMail(c) ==
  \A g \in Sessions : \A i \in 1..Len(session[g].mail) : session[g].mail[i] # c

\* A client that does not wait is in no mailbox.
LEMMA NotWaiting ==
  ASSUME MailHeld, NEW c \in Clients, at[c] # "waiting"
  PROVE  InNoMail(c)
  BY DEF MailHeld, MailOf, InNoMail

\* Nor is one whose session has stopped.
LEMMA NobodyHome ==
  ASSUME Typed, MailHeld, NEW c \in Clients, handle[c] # 0, ~session[handle[c]].alive
  PROVE  InNoMail(c)
<1>1. handle[c] \in Sessions
  BY ControlConstants DEF Typed, Sessions, Directory!Sessions
<1>2. session[handle[c]].mail = <<>>
  BY <1>1 DEF MailHeld, MailOf
<1>3. QED
  BY <1>1, <1>2 DEF MailHeld, MailOf, InNoMail

\* A task changes only its own fields.  It leaves the mailboxes as they are,
\* and is in none of them, unless it calls.
LEMMA ClientSteps ==
  ASSUME Base, MailHeld, NEW c \in Clients,
         GoesOn(c) \/ \E r \in Requests : Execute(c, r)
  PROVE  /\ \A d \in Clients : d # c => SameFor(d)
         /\ UNCHANGED <<latest, journal>>
         /\ at'[c] # "replied" /\ InNoMail(c)
         /\ at'[c] = "calling" => ~IsApp(c)' \/ IsNew(Id(c))'
         /\ \/ UNCHANGED session /\ at'[c] # "waiting"
            \/ Call(c) /\ UNCHANGED <<doing, answer, handle>>
<1> USE DEF Base, Typed, SameFor, Goes, IsTold, Directory!directory
<1>1. ASSUME NEW r \in Requests, Execute(c, r)
      PROVE  /\ \A d \in Clients : d # c => SameFor(d)
             /\ UNCHANGED <<latest, journal, session>>
             /\ at[c] = "idle" /\ at'[c] \in {"answering", "calling", "queued"}
             /\ at'[c] = "calling" => ~IsApp(c)'
  BY <1>1 DEF Execute, IsApp, Directory!Takes, sessions
<1>2. CASE EnterGate(c)
  <2>1. /\ \A d \in Clients : d # c => SameFor(d)
        /\ UNCHANGED <<latest, journal, session>>
        /\ at[c] = "queued" /\ at'[c] = "looking up"
    BY <1>2 DEF EnterGate, Directory!Takes
  <2>. QED  BY <2>1, NotWaiting
<1>3. CASE LookUp(c)
  <2>1. /\ \A d \in Clients : d # c => SameFor(d)
        /\ UNCHANGED <<latest, journal, session>>
        /\ at[c] = "looking up" /\ at'[c] \in {"answering", "calling"}
        /\ at'[c] = "calling" => IsNew(Id(c))'
    BY <1>3 DEF LookUp, Directory!Drops, sessions, IsNew, Id
  <2>. QED  BY <2>1, NotWaiting
<1>4. CASE Call(c)
  <2>1. /\ \A d \in Clients : d # c => SameFor(d)
        /\ UNCHANGED <<latest, journal, doing, answer, handle>>
        /\ at[c] = "calling" /\ at'[c] = "waiting"
    BY <1>4 DEF Call, Directory!Calls
  <2>. QED  BY <1>4, <2>1, NotWaiting
<1>5. CASE Resume(c)
  <2>1. /\ \A d \in Clients : d # c => SameFor(d)
        /\ UNCHANGED <<latest, journal, session>>
        /\ at'[c] = "answering"
        /\ \/ at[c] = "replied"
           \/ at[c] \in {"calling", "waiting"} /\ ~session[handle[c]].alive
    BY <1>5 DEF Resume, Directory!Drops
  <2>2. InNoMail(c)
    BY <2>1, NotWaiting, NobodyHome DEF HandlesHeld
  <2>. QED  BY <2>1, <2>2
<1>6. CASE Respond(c)
  <2>1. /\ \A d \in Clients : d # c => SameFor(d)
        /\ UNCHANGED <<latest, journal, session>>
        /\ at[c] = "answering" /\ at'[c] = "idle"
    BY <1>6 DEF Respond, sessions
  <2>. QED  BY <2>1, NotWaiting
<1>7. QED
  BY <1>1, <1>2, <1>3, <1>4, <1>5, <1>6, NotWaiting DEF GoesOn

\* Mailboxes hold the clients that wait for their session, step after step.
LEMMA MailKept ==
  ASSUME Base, MailHeld, [Next]_vars
  PROVE  MailHeld'
<1> USE DEF Base
<1>1. ASSUME NEW c \in Clients, GoesOn(c) \/ \E r \in Requests : Execute(c, r)
      PROVE  MailHeld'
  <2>1. /\ \A d \in Clients : d # c => SameFor(d)
        /\ UNCHANGED <<latest, journal>> /\ InNoMail(c)
        /\ \/ UNCHANGED session /\ at'[c] # "waiting"
           \/ Call(c) /\ UNCHANGED <<doing, answer, handle>>
    BY <1>1, ClientSteps
  <2>2. CASE UNCHANGED session
    <3>1. ASSUME NEW g \in Sessions, NEW i \in 1..Len(session[g].mail)
          PROVE  session[g].mail[i] \in Clients /\ session[g].mail[i] # c
      BY <2>1 DEF InNoMail, Typed, SessionRecords
    <3>2. QED
      BY <2>1, <2>2, <3>1 DEF MailHeld, MailOf, SameFor
  <2>3. CASE Call(c) /\ UNCHANGED <<doing, answer, handle>>
    <3>0. handle[c] \in Sessions
      BY <2>3, CallsSession DEF Call, Typed
    <3>. PICK g \in Sessions : g = handle[c]
      BY <3>0
    <3>1. /\ OnlyAt(g) /\ session[g].alive
          /\ session'[g].mail = Append(session[g].mail, c)
          /\ session'[g].alive = session[g].alive
          /\ session[g].mail \in Seq(Clients)
      BY <2>3, CallsSession DEF Call, Typed, SessionRecords
    <3>2. at'[c] = "waiting" /\ handle'[c] = g
      BY <2>3 DEF Call, Goes, Typed
    <3>3. ASSUME NEW h \in Sessions, NEW i \in 1..Len(session[h].mail)
          PROVE  session[h].mail[i] \in Clients /\ session[h].mail[i] # c
      BY <2>1 DEF InNoMail, Typed, SessionRecords
    <3>4. ASSUME NEW h \in Sessions, NEW i \in 1..Len(session[h].mail)
          PROVE  at'[session[h].mail[i]] = "waiting" /\ handle'[session[h].mail[i]] = h
      BY <2>1, <3>3 DEF MailHeld, MailOf, SameFor
    <3>5. /\ Len(session'[g].mail) = Len(session[g].mail) + 1
          /\ \A i \in 1..Len(session[g].mail) : session'[g].mail[i] = session[g].mail[i]
          /\ session'[g].mail[Len(session[g].mail) + 1] = c
          /\ Len(session[g].mail) \in Nat
      BY <3>1
    <3>6. \A i \in 1..Len(session'[g].mail) :
             \/ i \in 1..Len(session[g].mail)
             \/ i = Len(session[g].mail) + 1
      BY <3>5
    <3>7. \A i \in 1..Len(session'[g].mail) :
             at'[session'[g].mail[i]] = "waiting" /\ handle'[session'[g].mail[i]] = g
      BY <3>1, <3>2, <3>4, <3>5, <3>6
    <3>8. ASSUME NEW i \in 1..Len(session'[g].mail), NEW k \in 1..Len(session'[g].mail),
                 session'[g].mail[i] = session'[g].mail[k]
          PROVE  i = k
      <4>1. CASE i \in 1..Len(session[g].mail) /\ k \in 1..Len(session[g].mail)
        <5>1. session[g].mail[i] = session[g].mail[k]
          BY <3>5, <3>8, <4>1
        <5>2. QED
          BY <4>1, <5>1 DEF MailHeld, MailOf
      <4>2. CASE i = Len(session[g].mail) + 1 /\ k \in 1..Len(session[g].mail)
        BY <3>3, <3>5, <3>8, <4>2
      <4>3. CASE k = Len(session[g].mail) + 1 /\ i \in 1..Len(session[g].mail)
        BY <3>3, <3>5, <3>8, <4>3
      <4>4. QED
        BY <3>6, <4>1, <4>2, <4>3
    <3>9. MailOf(g)'
      BY <2>1, <3>1, <3>7, <3>8 DEF MailHeld, MailOf
    <3>10. ASSUME NEW h \in Sessions, h # g
           PROVE  MailOf(h)'
      BY <2>1, <3>1, <3>4, <3>10 DEF MailHeld, MailOf, OnlyAt
    <3>11. QED
      BY <3>9, <3>10 DEF MailHeld, MailOf
  <2>4. QED
    BY <2>1, <2>2, <2>3
<1>2. ASSUME NEW g \in Sessions, Serves(g) \/ Writing(g)
      PROVE  MailHeld'
  <2>1. PICK c \in Clients : ServeStatus(g, c) \/ ServeLogout(g, c) \/ ServeOrder(g, c)
                               \/ OrderWritten(g, c) \/ OrderFails(g, c)
    BY <1>2 DEF Serves, Writing
  <2>2. /\ OnlyAt(g)
        /\ Answered(g, c) \/ AnsweredLast(g, c) \/ Begun(g, c)
        /\ UNCHANGED <<latest, handle>>
        /\ HasHead(g, c)
    BY <2>1, SessionServes DEF Answered, AnsweredLast, Begun
  <2>3. CASE Begun(g, c)
    <3>1. /\ UNCHANGED at /\ session'[g].mail = session[g].mail
          /\ session'[g].alive = session[g].alive /\ session[g].alive
      BY <2>3 DEF Begun, HasHead
    <3>2. MailOf(g)'
      BY <2>2, <3>1 DEF MailHeld, MailOf
    <3>3. ASSUME NEW h \in Sessions, h # g
          PROVE  MailOf(h)'
      BY <2>2, <3>1, <3>3 DEF MailHeld, MailOf, OnlyAt
    <3>4. QED
      BY <3>2, <3>3 DEF MailHeld, MailOf
  <2>4. CASE Answered(g, c) \/ AnsweredLast(g, c)
    <3>1. /\ session[g].mail \in Seq(Clients) /\ session[g].mail # <<>>
          /\ session[g].mail[1] = c /\ session[g].alive
      BY <2>2 DEF HasHead, Typed, SessionRecords
    <3>2. Len(session[g].mail) \in Nat \ {0} /\ 1 \in 1..Len(session[g].mail)
      BY <3>1
    <3>3. at[c] = "waiting" /\ handle[c] = g
      BY <3>1, <3>2 DEF MailHeld, MailOf
    <3>4. \A d \in Clients : d # c => at'[d] = at[d]
      BY <2>4 DEF Answered, AnsweredLast, IsReplied, Goes, Typed
    <3>5. ASSUME NEW h \in Sessions, h # g, NEW i \in 1..Len(session[h].mail)
          PROVE  session[h].mail[i] \in Clients /\ session[h].mail[i] # c
      BY <3>3, <3>5 DEF MailHeld, MailOf, Typed, SessionRecords
    <3>6. ASSUME NEW i \in 2..Len(session[g].mail)
          PROVE  session[g].mail[i] \in Clients /\ session[g].mail[i] # c
                 /\ i \in 1..Len(session[g].mail)
      <4>1. i \in 1..Len(session[g].mail) /\ i # 1
        BY <3>2
      <4>2. QED
        BY <3>1, <3>2, <4>1 DEF MailHeld, MailOf
    <3>7. \A i \in 2..Len(session[g].mail) :
             at'[session[g].mail[i]] = "waiting" /\ handle'[session[g].mail[i]] = g
      BY <2>2, <3>4, <3>6 DEF MailHeld, MailOf
    <3>8. ASSUME Answered(g, c)
          PROVE  MailOf(g)'
      <4>1. /\ session'[g].mail = Tail(session[g].mail)
            /\ session'[g].alive = session[g].alive /\ ~session'[g].writing
        BY <3>8 DEF Answered
      <4>2. /\ Len(session'[g].mail) = Len(session[g].mail) - 1
            /\ \A i \in 1..Len(session'[g].mail) :
                  i + 1 \in 2..Len(session[g].mail) /\ session'[g].mail[i] = session[g].mail[i + 1]
        BY <3>1, <3>2, <4>1
      <4>3. \A i \in 1..Len(session'[g].mail) :
               at'[session'[g].mail[i]] = "waiting" /\ handle'[session'[g].mail[i]] = g
        BY <3>7, <4>2
      <4>4. ASSUME NEW i \in 1..Len(session'[g].mail), NEW k \in 1..Len(session'[g].mail),
                   session'[g].mail[i] = session'[g].mail[k]
            PROVE  i = k
        <5>1. /\ i + 1 \in 1..Len(session[g].mail) /\ k + 1 \in 1..Len(session[g].mail)
              /\ session[g].mail[i + 1] = session[g].mail[k + 1]
          BY <3>2, <4>2, <4>4
        <5>2. i + 1 = k + 1
          BY <5>1 DEF MailHeld, MailOf
        <5>3. i \in Int /\ k \in Int
          BY <4>2, <3>2
        <5>4. QED
          BY <5>2, <5>3
      <4>5. QED
        BY <2>2, <3>1, <4>1, <4>3, <4>4 DEF MailHeld, MailOf
    <3>9. ASSUME AnsweredLast(g, c)
          PROVE  MailOf(g)'
      <4>1. session'[g].mail = <<>> /\ ~session'[g].alive /\ ~session'[g].writing
        BY <3>9 DEF AnsweredLast
      <4>2. QED
        BY <2>2, <4>1 DEF MailHeld, MailOf
    <3>10. ASSUME NEW h \in Sessions, h # g
           PROVE  MailOf(h)'
      BY <2>2, <3>4, <3>5, <3>10 DEF MailHeld, MailOf, OnlyAt
    <3>11. QED
      BY <2>4, <3>8, <3>9, <3>10 DEF MailHeld, MailOf
  <2>5. QED
    BY <2>2, <2>3, <2>4
<1>3. CASE Elsewhere
  <2>1. UNCHANGED <<at, handle>>
    BY <1>3, SessionAlone
  <2>2. CASE UNCHANGED <<latest, session>>
    BY <2>1, <2>2 DEF MailHeld, MailOf
  <2>3. ASSUME NEW g \in Sessions, OnlyAt(g), UNCHANGED latest,
               \/ /\ session'[g].mail = session[g].mail
                  /\ session'[g].alive = session[g].alive
                  /\ session'[g].writing = session[g].writing
               \/ /\ session'[g].mail = <<>> /\ ~session'[g].alive
                  /\ ~session[g].writing /\ ~session'[g].writing
        PROVE  MailHeld'
    BY <2>1, <2>3 DEF MailHeld, MailOf, OnlyAt
  <2>4. CASE /\ latest + 1 \in Sessions /\ latest' = latest + 1 /\ OnlyAt(latest + 1)
             /\ session'[latest + 1].mail = <<>> /\ ~session'[latest + 1].writing
    <3>1. latest \in Int /\ \A g \in Sessions : g \in Int
      BY ControlConstants DEF Typed, Sessions, Directory!Sessions
    <3>2. QED
      BY <2>1, <2>4, <3>1 DEF MailHeld, MailOf, OnlyAt
  <2>5. QED
    BY <1>3, <2>2, <2>3, <2>4, SessionAlone
<1>4. CASE Tick
  BY <1>4 DEF Tick, sessions, clients, MailHeld, MailOf
<1>5. CASE UNCHANGED vars
  BY <1>5 DEF vars, sessions, clients, MailHeld, MailOf
<1>6. QED
  BY <1>1, <1>2, <1>3, <1>4, <1>5 DEF Next

-----------------------------------------------------------------------------
\* The session commits the order at hand.
Journals(c) ==
  /\ IsApp(c) /\ IsNew(Id(c))
  /\ journal' = [id \in DOMAIN journal \cup {Id(c)} |->
                    IF id = Id(c) THEN Fingerprint(doing[c]) ELSE journal[id]]

\* Who calls a session holds one.
LEMMA HoldsSession ==
  ASSUME Base, NEW c \in Clients, at[c] \in {"calling", "waiting"}
  PROVE  handle[c] \in Sessions
  BY ControlConstants DEF Base, HandlesHeld, Typed, Sessions, Directory!Sessions

\* An order that waits for a session which is not writing is new.
LEMMA WaitsNew ==
  ASSUME Base, MailHeld, SubmitsAreNew, NEW g \in Sessions, NEW c \in Clients,
         HasHead(g, c), IsApp(c), ~session[g].writing
  PROVE  IsNew(Id(c))
  BY HeadWaits DEF Base, HasHead, SubmitsAreNew, IsApp

\* An order is committed when it is new, and every answer to one agrees with
\* the journal.
LEMMA ServeOutcomes ==
  ASSUME Base, MailHeld, OrderAtHand, SubmitsAreNew,
         NEW g \in Sessions, NEW c \in Clients,
         \/ ServeStatus(g, c) \/ ServeLogout(g, c) \/ ServeOrder(g, c)
         \/ OrderWritten(g, c) \/ OrderFails(g, c)
  PROVE  \/ Begun(g, c) /\ Journals(c) /\ ~session[g].writing
         \/ /\ Answered(g, c) \/ AnsweredLast(g, c)
            /\ UNCHANGED journal
            /\ IsApp(c) => Truthful(c)'
<1> USE DEF Base
<1>1. /\ HasHead(g, c) /\ UNCHANGED doing
      /\ Answered(g, c) \/ AnsweredLast(g, c) \/ Begun(g, c)
  BY SessionServes DEF Answered, AnsweredLast, Begun
<1>2. ASSUME NEW code, Replies(c, code)
      PROVE  at'[c] = "replied" /\ answer'[c] = code /\ ~Begun(g, c)
  <2>1. at[c] = "waiting" /\ at'[c] = "replied"
    BY <1>1, <1>2, HeadWaits DEF HasHead, Replies, Goes, Typed
  <2>2. QED
    BY <1>2, <2>1 DEF Replies, Begun, Typed
<1>3. CASE ServeStatus(g, c)
  <2>1. ~IsApp(c) /\ UNCHANGED journal /\ Replies(c, "ok")
    BY <1>3 DEF ServeStatus, Asked, IsApp, IsApplication, IsOrder
  <2>2. QED
    BY <1>1, <1>2, <2>1
<1>4. CASE ServeLogout(g, c)
  <2>1. ~IsApp(c) /\ UNCHANGED journal /\ \E code : Replies(c, code)
    BY <1>4 DEF ServeLogout, Asked, IsApp, IsApplication, IsOrder
  <2>2. QED
    BY <1>1, <1>2, <2>1
<1>5. CASE ServeOrder(g, c)
  <2>1. IsApp(c) /\ ~session[g].writing /\ IsNew(Id(c))
    BY <1>1, <1>5, WaitsNew DEF ServeOrder, IsApp
  <2>2. CASE /\ UNCHANGED journal
             /\ \E code \in {"SESSION_NOT_ESTABLISHED", "INVALID_REQUEST", "STORE_UNAVAILABLE"} :
                  Replies(c, code)
    <3>1. PICK code \in {"SESSION_NOT_ESTABLISHED", "INVALID_REQUEST", "STORE_UNAVAILABLE"} :
             Replies(c, code)
      BY <2>2
    <3>2. IsNew(Id(c))' /\ answer'[c] = code /\ ~Begun(g, c)
      BY <1>1, <1>2, <2>1, <2>2, <3>1 DEF IsNew, Id
    <3>3. QED
      BY <1>1, <2>2, <3>2 DEF Truthful
  <2>3. CASE Journals(c) /\ UNCHANGED at
    <3>1. at[c] = "waiting"
      BY <1>1, HeadWaits DEF HasHead
    <3>2. Begun(g, c)
      BY <1>1, <2>3, <3>1 DEF Answered, AnsweredLast, IsReplied, Goes, Typed
    <3>3. QED
      BY <2>1, <2>3, <3>2
  <2>4. QED
    BY <1>5, <2>1, <2>2, <2>3 DEF ServeOrder, Journals, clients
<1>6. CASE OrderWritten(g, c)
  <2>1. session[g].writing /\ UNCHANGED journal /\ Replies(c, "ok")
    BY <1>6 DEF OrderWritten
  <2>2. ~IsNew(Id(c)) /\ journal[Id(c)] = Fingerprint(doing[c])
    BY <1>1, <2>1 DEF OrderAtHand, OrderOf, IsJournaled, HasHead
  <2>3. (~IsNew(Id(c)) /\ journal[Id(c)] = Fingerprint(doing[c]))'
    BY <1>1, <2>1, <2>2 DEF IsNew, Id
  <2>4. QED
    BY <1>1, <1>2, <2>1, <2>3 DEF Truthful
<1>7. CASE OrderFails(g, c)
  <2>1. /\ UNCHANGED journal
        /\ Replies(c, "TRANSPORT_ERROR") \/ Replies(c, "STORE_UNAVAILABLE")
    BY <1>7 DEF OrderFails
  <2>2. QED
    BY <1>1, <1>2, <2>1 DEF Truthful
<1>8. QED
  BY <1>3, <1>4, <1>5, <1>6, <1>7

\* What one step does to the journal: nothing, or a session commits the new
\* order at the head of its mailbox, and whoever is in the journal stays.
LEMMA JournalGrows ==
  ASSUME NEW c \in Clients, Journals(c), UNCHANGED doing
  PROVE  /\ (~IsNew(Id(c)) /\ journal[Id(c)] = Fingerprint(doing[c]))'
         /\ \A id : ~IsNew(id) => /\ id \in DOMAIN journal'
                                  /\ journal'[id] = journal[id]
  BY DEF Journals, IsNew, Id

\* Whatever a step does to a client that it is not about, what is journaled
\* for it stays journaled.
LEMMA StaysJournaled ==
  ASSUME NEW d \in Clients, IsJournaled(d), doing'[d] = doing[d],
         \/ UNCHANGED journal
         \/ \E c \in Clients : Journals(c) /\ UNCHANGED doing
  PROVE  IsJournaled(d)'
<1>1. Id(d)' = Id(d) /\ IsApp(d)'
  BY DEF IsJournaled, Id, IsApp
<1>2. ~IsNew(Id(d))
  BY DEF IsJournaled
<1>3. Id(d) \in DOMAIN journal' /\ journal'[Id(d)] = journal[Id(d)]
  BY <1>2, JournalGrows DEF IsNew
<1>4. QED
  BY <1>1, <1>3 DEF IsJournaled, IsNew

\* The order a session is writing stays in the journal and at the head.
LEMMA OrderKept ==
  ASSUME Base, MailHeld, OrderAtHand, SubmitsAreNew, [Next]_vars
  PROVE  OrderAtHand'
<1> USE DEF Base
<1>1. ASSUME NEW g \in Sessions, session[g].writing
      PROVE  /\ session[g].mail \in Seq(Clients) /\ session[g].mail # <<>>
             /\ session[g].alive
             /\ 1 \in 1..Len(session[g].mail)
             /\ Head(session[g].mail) = session[g].mail[1]
             /\ Head(session[g].mail) \in Clients
             /\ IsJournaled(Head(session[g].mail))
  <2>1. session[g].mail \in Seq(Clients) /\ session[g].mail # <<>>
        /\ IsJournaled(Head(session[g].mail)) /\ session[g].alive
    BY <1>1 DEF OrderAtHand, OrderOf, Typed, SessionRecords, MailHeld, MailOf
  <2>2. QED
    BY <2>1
<1>2. ASSUME NEW g \in Sessions,
             session'[g].writing => session[g].writing,
             session'[g].writing => /\ session'[g].mail # <<>>
                                    /\ Head(session'[g].mail) = Head(session[g].mail),
             \A d \in Clients : (\E i \in 1..Len(session[g].mail) : session[g].mail[i] = d)
                                 => doing'[d] = doing[d],
             \/ UNCHANGED journal
             \/ \E c \in Clients : Journals(c) /\ UNCHANGED doing
      PROVE  OrderOf(g)'
  <2>1. SUFFICES ASSUME session'[g].writing
                 PROVE  session'[g].mail # <<>> /\ IsJournaled(Head(session[g].mail))'
    BY <1>2 DEF OrderOf, IsJournaled, IsApp, IsNew, Id
  <2> DEFINE d == Head(session[g].mail)
  <2>2. d \in Clients /\ IsJournaled(d) /\ doing'[d] = doing[d]
    BY <1>1, <1>2, <2>1
  <2>3. QED
    BY <1>2, <2>1, <2>2, StaysJournaled
<1>3. ASSUME NEW c \in Clients, GoesOn(c) \/ \E r \in Requests : Execute(c, r)
      PROVE  OrderAtHand'
  <2>1. /\ \A d \in Clients : d # c => SameFor(d)
        /\ UNCHANGED <<latest, journal>> /\ InNoMail(c)
        /\ \/ UNCHANGED session /\ at'[c] # "waiting"
           \/ Call(c) /\ UNCHANGED <<doing, answer, handle>>
    BY <1>3, ClientSteps
  <2>2. ASSUME NEW g \in Sessions, NEW d \in Clients, NEW i \in 1..Len(session[g].mail),
               session[g].mail[i] = d
        PROVE  doing'[d] = doing[d]
    BY <2>1, <2>2 DEF InNoMail, SameFor
  <2>3. ASSUME NEW g \in Sessions
        PROVE  OrderOf(g)'
    <3>1. CASE UNCHANGED session
      BY <1>1, <1>2, <2>1, <2>2, <3>1
    <3>2. CASE Call(c)
      <4>1. /\ session'[g].writing = session[g].writing
            /\ session'[g].mail = session[g].mail
               \/ session'[g].mail = Append(session[g].mail, c)
        BY <3>2, CallsSession DEF Call, OnlyAt, Typed
      <4>2. session'[g].writing => /\ session'[g].mail # <<>>
                                   /\ Head(session'[g].mail) = Head(session[g].mail)
        BY <1>1, <4>1, LastWaits
      <4>3. QED
        BY <1>2, <2>1, <2>2, <4>1, <4>2
    <3>3. QED
      BY <2>1, <3>1, <3>2
  <2>4. QED
    BY <2>3 DEF OrderAtHand
<1>4. ASSUME NEW g \in Sessions, Serves(g) \/ Writing(g)
      PROVE  OrderAtHand'
  <2>1. PICK c \in Clients : ServeStatus(g, c) \/ ServeLogout(g, c) \/ ServeOrder(g, c)
                               \/ OrderWritten(g, c) \/ OrderFails(g, c)
    BY <1>4 DEF Serves, Writing
  <2>2. /\ OnlyAt(g) /\ UNCHANGED doing
        /\ \/ Begun(g, c) /\ Journals(c)
           \/ (Answered(g, c) \/ AnsweredLast(g, c)) /\ UNCHANGED journal
    BY <2>1, SessionServes, ServeOutcomes
  <2>3. OrderOf(g)'
    <3>1. CASE Answered(g, c) \/ AnsweredLast(g, c)
      BY <3>1 DEF Answered, AnsweredLast, OrderOf
    <3>2. CASE Begun(g, c) /\ Journals(c)
      <4>1. session'[g].mail # <<>> /\ Head(session'[g].mail) = c
        BY <3>2 DEF Begun, HasHead
      <4>2. IsJournaled(c)'
        BY <2>2, <3>2, JournalGrows DEF IsJournaled, Journals, IsApp
      <4>3. QED
        BY <4>1, <4>2 DEF OrderOf, IsJournaled, IsApp, IsNew, Id
    <3>3. QED
      BY <2>2, <3>1, <3>2
  <2>4. ASSUME NEW h \in Sessions, h # g
        PROVE  OrderOf(h)'
    BY <1>1, <1>2, <2>2, <2>4 DEF OnlyAt
  <2>5. QED
    BY <2>3, <2>4 DEF OrderAtHand
<1>5. CASE Elsewhere
  <2>1. UNCHANGED <<doing, journal>>
    BY <1>5, SessionAlone
  <2>2. ASSUME NEW g \in Sessions
        PROVE  \/ session'[g] = session[g]
               \/ /\ session'[g].mail = session[g].mail
                  /\ session'[g].writing = session[g].writing
               \/ ~session'[g].writing
    BY <1>5, SessionAlone DEF OnlyAt
  <2>3. ASSUME NEW g \in Sessions
        PROVE  OrderOf(g)'
    BY <1>1, <1>2, <2>1, <2>2
  <2>4. QED
    BY <2>3 DEF OrderAtHand
<1>6. CASE Tick
  BY <1>6 DEF Tick, sessions, clients, OrderAtHand, OrderOf, IsJournaled, IsApp, IsNew, Id
<1>7. CASE UNCHANGED vars
  BY <1>7 DEF vars, sessions, clients, OrderAtHand, OrderOf, IsJournaled, IsApp, IsNew, Id
<1>8. QED
  BY <1>3, <1>4, <1>5, <1>6, <1>7 DEF Next

\* What a submit finds stays new until it is journaled: only the head of the
\* gate may journal anything.
LEMMA SubmitsKept ==
  ASSUME Base, MailHeld, OrderAtHand, SubmitsAreNew, [Next]_vars
  PROVE  SubmitsAreNew'
<1> USE DEF Base
<1>1. \A d, e \in Clients : Admitted(d) /\ Admitted(e) => d = e
  BY DEF GateHeld
<1>2. ASSUME NEW c \in Clients, GoesOn(c) \/ \E r \in Requests : Execute(c, r)
      PROVE  SubmitsAreNew'
  <2>1. /\ \A d \in Clients : d # c => SameFor(d)
        /\ UNCHANGED <<latest, journal>>
        /\ at'[c] = "calling" => ~IsApp(c)' \/ IsNew(Id(c))'
        /\ \/ UNCHANGED session /\ at'[c] # "waiting"
           \/ Call(c) /\ UNCHANGED <<doing, answer, handle>>
    BY <1>2, ClientSteps
  <2>2. ASSUME NEW g \in Sessions
        PROVE  session'[g].writing = session[g].writing
    BY <2>1, CallsSession DEF Call, OnlyAt, Typed
  <2>3. ASSUME NEW d \in Clients, at[d] \in {"calling", "waiting"}
        PROVE  handle[d] \in Sessions
    BY <2>3, HoldsSession
  <2>4. ASSUME NEW d \in Clients, d # c, at'[d] \in {"calling", "waiting"}, IsApp(d)',
               ~(at'[d] = "waiting" /\ session'[handle'[d]].writing)
        PROVE  IsNew(Id(d))'
    <3>1. /\ at[d] \in {"calling", "waiting"} /\ IsApp(d)
          /\ ~(at[d] = "waiting" /\ session[handle[d]].writing)
      BY <2>1, <2>2, <2>3, <2>4 DEF SameFor, IsApp
    <3>2. IsNew(Id(d))
      BY <3>1 DEF SubmitsAreNew, IsApp
    <3>3. QED
      BY <2>1, <2>4, <3>2 DEF SameFor, IsNew, Id
  <2>5. ASSUME at'[c] \in {"calling", "waiting"}, IsApp(c)'
        PROVE  IsNew(Id(c))'
    <3>1. CASE at'[c] = "calling"
      BY <2>1, <2>5, <3>1
    <3>2. CASE at'[c] = "waiting"
      <4>1. at[c] = "calling" /\ UNCHANGED <<doing, journal>> /\ IsApp(c)
        BY <2>1, <2>5, <3>2 DEF Call, IsApp
      <4>2. IsNew(Id(c))
        BY <4>1 DEF SubmitsAreNew, IsApp
      <4>3. QED
        BY <4>1, <4>2 DEF IsNew, Id
    <3>3. QED
      BY <2>5, <3>1, <3>2
  <2>6. QED
    BY <2>4, <2>5 DEF SubmitsAreNew, IsApp
<1>3. ASSUME NEW g \in Sessions, Serves(g) \/ Writing(g)
      PROVE  SubmitsAreNew'
  <2>1. PICK c \in Clients : ServeStatus(g, c) \/ ServeLogout(g, c) \/ ServeOrder(g, c)
                               \/ OrderWritten(g, c) \/ OrderFails(g, c)
    BY <1>3 DEF Serves, Writing
  <2>2. /\ OnlyAt(g) /\ UNCHANGED <<doing, handle>>
        /\ \/ Begun(g, c) /\ Journals(c)
           \/ (Answered(g, c) \/ AnsweredLast(g, c)) /\ UNCHANGED journal
    BY <2>1, SessionServes, ServeOutcomes
  <2>3. HasHead(g, c) /\ at[c] = "waiting" /\ handle[c] = g
    BY <2>2, HeadWaits DEF Begun, Answered, AnsweredLast, HasHead
  <2>4. SUFFICES ASSUME NEW d \in Clients, at'[d] \in {"calling", "waiting"}, IsApp(d)',
                        ~(at'[d] = "waiting" /\ session'[handle'[d]].writing)
                 PROVE  IsNew(Id(d))'
    BY DEF SubmitsAreNew, IsApp
  <2>5. IsApp(d)
    BY <2>2, <2>4 DEF IsApp
  <2>6. CASE Begun(g, c) /\ Journals(c)
    <3>1. Admitted(c) /\ Admitted(d)
      BY <2>3, <2>4, <2>5, <2>6 DEF Admitted, Begun, Journals
    <3>2. d = c /\ at'[c] = "waiting" /\ handle'[c] = g /\ session'[g].writing
      BY <1>1, <2>2, <2>3, <2>6, <3>1 DEF Begun
    <3>3. QED
      BY <2>4, <3>2
  <2>7. CASE (Answered(g, c) \/ AnsweredLast(g, c)) /\ UNCHANGED journal
    <3>1. at' = [at EXCEPT ![c] = "replied"]
      BY <2>7 DEF Answered, AnsweredLast, IsReplied, Goes
    <3>2. d # c /\ at[d] \in {"calling", "waiting"} /\ at'[d] = at[d]
      BY <2>4, <3>1 DEF Typed
    <3>3. ~(at[d] = "waiting" /\ session[handle[d]].writing)
      <4>1. SUFFICES ASSUME at[d] = "waiting", session[handle[d]].writing
                     PROVE  FALSE
        OBVIOUS
      <4>2. handle[d] \in Sessions
        BY <4>1, HoldsSession
      <4>3. handle[d] = g
        BY <2>2, <2>4, <3>2, <4>1, <4>2 DEF OnlyAt
      <4>4. IsApp(c)
        BY <2>3, <4>1, <4>3 DEF OrderAtHand, OrderOf, IsJournaled, HasHead
      <4>5. Admitted(c) /\ Admitted(d)
        BY <2>3, <2>5, <4>1, <4>4 DEF Admitted
      <4>6. QED
        BY <1>1, <3>2, <4>5
    <3>4. IsNew(Id(d))
      BY <2>5, <3>2, <3>3 DEF SubmitsAreNew, IsApp
    <3>5. QED
      BY <2>2, <2>7, <3>4 DEF IsNew, Id
  <2>8. QED
    BY <2>2, <2>6, <2>7
<1>4. CASE Elsewhere
  <2>1. UNCHANGED <<at, doing, handle, journal>>
    BY <1>4, SessionAlone
  <2>2. ASSUME NEW d \in Clients, at[d] = "waiting", session[handle[d]].writing
        PROVE  session'[handle[d]].writing
    <3>1. handle[d] \in Sessions
      BY <2>2, HoldsSession
    <3>2. session[handle[d]].alive /\ handle[d] <= latest
      BY <2>2, <3>1 DEF MailHeld, MailOf
    <3>3. latest \in Int /\ handle[d] # latest + 1
      BY <3>1, <3>2, ControlConstants DEF Typed, Sessions, Directory!Sessions
    <3>4. QED
      BY <1>4, <2>2, <3>1, <3>3, SessionAlone DEF OnlyAt
  <2>3. QED
    BY <2>1, <2>2 DEF SubmitsAreNew, IsNew, Id
<1>5. CASE Tick
  BY <1>5 DEF Tick, sessions, clients, SubmitsAreNew, IsNew, Id
<1>6. CASE UNCHANGED vars
  BY <1>6 DEF vars, sessions, clients, SubmitsAreNew, IsNew, Id
<1>7. QED
  BY <1>2, <1>3, <1>4, <1>5, <1>6 DEF Next

\* An answer stays true until it is passed on: meanwhile the gate is closed to
\* whoever might journal something.
LEMMA RepliesKept ==
  ASSUME Base, MailHeld, OrderAtHand, SubmitsAreNew, RepliesTrue, [Next]_vars
  PROVE  RepliesTrue'
<1> USE DEF Base
<1>1. ASSUME NEW d \in Clients, at'[d] = "replied" /\ IsApp(d)',
             at[d] = at'[d], doing[d] = doing'[d], answer[d] = answer'[d], UNCHANGED journal
      PROVE  Truthful(d)'
  BY <1>1 DEF RepliesTrue, Truthful, IsApp, IsNew, Id
<1>2. ASSUME NEW c \in Clients, GoesOn(c) \/ \E r \in Requests : Execute(c, r)
      PROVE  RepliesTrue'
  <2>1. /\ \A d \in Clients : d # c => SameFor(d)
        /\ UNCHANGED <<latest, journal>>
        /\ at'[c] # "replied" /\ InNoMail(c)
    BY <1>2, ClientSteps
  <2>2. QED
    BY <1>1, <2>1 DEF RepliesTrue, SameFor
<1>3. ASSUME NEW g \in Sessions, Serves(g) \/ Writing(g)
      PROVE  RepliesTrue'
  <2>1. PICK c \in Clients : ServeStatus(g, c) \/ ServeLogout(g, c) \/ ServeOrder(g, c)
                               \/ OrderWritten(g, c) \/ OrderFails(g, c)
    BY <1>3 DEF Serves, Writing
  <2>2. UNCHANGED doing
    BY <2>1, SessionServes
  <2>3. CASE Begun(g, c) /\ Journals(c)
    <3>1. at[c] = "waiting" /\ Admitted(c) /\ UNCHANGED at
      BY <2>3, HeadWaits DEF Begun, HasHead, Journals, Admitted
    <3>2. \A d \in Clients : ~(at[d] = "replied" /\ IsApp(d))
      BY <3>1 DEF GateHeld, Admitted
    <3>3. QED
      BY <2>2, <3>1, <3>2 DEF RepliesTrue, IsApp
  <2>4. CASE /\ Answered(g, c) \/ AnsweredLast(g, c)
             /\ UNCHANGED journal
             /\ IsApp(c) => Truthful(c)'
    <3>1. \A d \in Clients : d # c => at'[d] = at[d] /\ answer'[d] = answer[d]
      BY <2>4 DEF Answered, AnsweredLast, IsReplied, Goes, Typed
    <3>2. QED
      BY <1>1, <2>2, <2>4, <3>1 DEF RepliesTrue, IsApp
  <2>5. QED
    BY <2>1, <2>3, <2>4, ServeOutcomes
<1>4. CASE Elsewhere
  <2>1. UNCHANGED <<at, doing, answer, journal>>
    BY <1>4, SessionAlone
  <2>2. QED
    BY <1>1, <2>1 DEF RepliesTrue
<1>5. CASE Tick
  BY <1>1, <1>5 DEF Tick, clients, RepliesTrue
<1>6. CASE UNCHANGED vars
  BY <1>1, <1>6 DEF vars, clients, RepliesTrue
<1>7. QED
  BY <1>2, <1>3, <1>4, <1>5, <1>6 DEF Next

-----------------------------------------------------------------------------
IInv == Base /\ MailHeld /\ OrderAtHand /\ SubmitsAreNew /\ RepliesTrue

\* The invariant holds at the start.
LEMMA IInvInitial == Init => IInv
<1> SUFFICES ASSUME Init PROVE IInv
  OBVIOUS
<1>1. /\ latest = 0 /\ watched = 0 /\ slot = 0
      /\ handle = [c \in Clients |-> 0]
      /\ at = [c \in Clients |-> "idle"]
      /\ doing = [c \in Clients |-> NoRequest]
      /\ answer = [c \in Clients |-> "none"]
      /\ gate = <<>>
  BY DEF Init, Directory!Init
<1>2. ASSUME NEW g \in Sessions
      PROVE  session[g].mail = <<>> /\ ~session[g].alive /\ ~session[g].writing
  BY DEF Init, Directory!Init, Directory!Stopped, Sessions
<1>3. session \in [Sessions -> SessionRecords]
  BY DEF Init, Directory!Init, Directory!Stopped, Sessions, SessionRecords
<1>4. Typed
  BY <1>1, <1>3, ControlConstants DEF Typed, Places
<1>5. HandlesHeld /\ GateHeld /\ SubmitsAreNew /\ RepliesTrue
  BY <1>1 DEF HandlesHeld, GateHeld, Admitted, SubmitsAreNew, RepliesTrue
<1>6. MailHeld /\ OrderAtHand
  BY <1>2 DEF MailHeld, MailOf, OrderAtHand, OrderOf
<1>7. QED
  BY <1>4, <1>5, <1>6 DEF IInv, Base

\* Every step keeps it.
LEMMA IInvInductive == IInv /\ [Next]_vars => IInv'
<1> SUFFICES ASSUME IInv, [Next]_vars PROVE IInv'
  OBVIOUS
<1> USE DEF IInv
<1>1. Base'
  BY BaseKept
<1>2. MailHeld'
  BY MailKept
<1>3. OrderAtHand'
  BY OrderKept
<1>4. SubmitsAreNew'
  BY SubmitsKept
<1>5. RepliesTrue'
  BY RepliesKept
<1>6. QED
  BY <1>1, <1>2, <1>3, <1>4, <1>5

\* No other client takes a request id between the lookup of an order and the
\* commit of its session, for any number of clients, requests and sessions
\* (application_gate in execute).
THEOREM SubmitsNew == Spec => []SubmitsAreNew
<1>1. IInv => SubmitsAreNew
  BY DEF IInv
<1> QED
  BY <1>1, IInvInitial, IInvInductive, PTL DEF Spec

\* What execute answers about an order is so: "ok" is this very command in the
\* journal, a conflict another one, and the codes that say nothing was sent
\* find nothing there.
THEOREM AnswersTrue == Spec => AnswersAreTrue
<1> DEFINE Told(c) ==
      CASE answer'[c] = "ok" ->
             ~IsNew(Id(c)) /\ journal[Id(c)] = Fingerprint(doing[c])
        [] answer'[c] = "IDEMPOTENCY_CONFLICT" ->
             ~IsNew(Id(c)) /\ journal[Id(c)] # Fingerprint(doing[c])
        [] answer'[c] \in {"STORE_UNAVAILABLE", "TRANSPORT_ERROR"} -> TRUE
        [] OTHER -> IsNew(Id(c))
<1> DEFINE AllTold ==
      \A c \in Clients :
        /\ at[c] \in {"looking up", "calling", "waiting", "replied"}
        /\ at'[c] = "answering"
        /\ IsApplication(doing[c].command)
        => Told(c)
<1>1. IInv /\ [Next]_vars => [AllTold]_vars
  <2> SUFFICES ASSUME IInv, Next, NEW c \in Clients,
                      at[c] \in {"looking up", "calling", "waiting", "replied"},
                      at'[c] = "answering", IsApp(c)
               PROVE  Told(c)
    BY DEF IsApp
  <2> USE DEF IInv, Base
  <2>1. LookUp(c) \/ Resume(c)
    <3>1. ASSUME NEW d \in Clients, GoesOn(d) \/ \E r \in Requests : Execute(d, r)
          PROVE  LookUp(c) \/ Resume(c)
      <4>1. d = c
        BY <3>1, ClientSteps DEF SameFor
      <4>2. (\A r \in Requests : ~Execute(c, r)) /\ ~EnterGate(c) /\ ~Call(c) /\ ~Respond(c)
        BY DEF Execute, EnterGate, Call, Respond, Goes, Typed
      <4>3. QED
        BY <3>1, <4>1, <4>2 DEF GoesOn
    <3>2. ASSUME NEW g \in Sessions, Serves(g) \/ Writing(g)
          PROVE  FALSE
      <4>1. PICK d \in Clients : ServeStatus(g, d) \/ ServeLogout(g, d) \/ ServeOrder(g, d)
                                   \/ OrderWritten(g, d) \/ OrderFails(g, d)
        BY <3>2 DEF Serves, Writing
      <4>2. UNCHANGED at \/ at' = [at EXCEPT ![d] = "replied"]
        BY <4>1, SessionServes DEF Answered, AnsweredLast, Begun, IsReplied, Goes
      <4>3. QED
        BY <4>2 DEF Typed
    <3>3. ~Elsewhere /\ ~Tick
      BY SessionAlone DEF Tick, clients
    <3>4. QED
      BY <3>1, <3>2, <3>3 DEF Next
  <2>2. CASE LookUp(c)
    <3>1. ASSUME NEW code, IsTold(c, code)
          PROVE  answer'[c] = code
      BY <3>1 DEF IsTold, Typed
    <3>2. ~Goes(c, "calling")
      BY DEF Goes, Typed
    <3>3. \/ answer'[c] = "STORE_UNAVAILABLE"
          \/ ~IsNew(Id(c)) /\ journal[Id(c)] = Fingerprint(doing[c]) /\ answer'[c] = "ok"
          \/ ~IsNew(Id(c)) /\ journal[Id(c)] # Fingerprint(doing[c])
             /\ answer'[c] = "IDEMPOTENCY_CONFLICT"
          \/ IsNew(Id(c)) /\ answer'[c] \in {"SESSION_NOT_ESTABLISHED", "RATE_LIMITED"}
      BY <2>2, <3>1, <3>2 DEF LookUp
    <3>4. QED
      BY <3>3
  <2>3. CASE Resume(c)
    <3>1. at[c] = "replied" => answer'[c] = answer[c]
      BY <2>3 DEF Resume, IsTold, Typed
    <3>2. CASE at[c] = "replied"
      BY <3>1, <3>2 DEF RepliesTrue, Truthful
    <3>3. CASE at[c] # "replied"
      <4>1. /\ at[c] \in {"calling", "waiting"} /\ ~session[handle[c]].alive
            /\ answer'[c] = "SESSION_NOT_ESTABLISHED"
        BY <2>3, <3>3 DEF Resume, IsTold, Typed
      <4>2. handle[c] \in Sessions
        BY <4>1, HoldsSession
      <4>3. ~session[handle[c]].writing
        BY <4>1, <4>2 DEF MailHeld, MailOf
      <4>4. IsNew(Id(c))
        BY <4>1, <4>3 DEF SubmitsAreNew, IsApp
      <4>5. QED
        BY <4>1, <4>4
    <3>4. QED
      BY <3>2, <3>3
  <2>4. QED
    BY <2>1, <2>2, <2>3
<1> QED
  BY <1>1, IInvInitial, IInvInductive, PTL DEF Spec, AnswersAreTrue

-----------------------------------------------------------------------------
(***************************************************************************)
(* What ControlPlane lets through, whatever the window and the maximum:    *)
(* the orders on the wire respect the limiter, by their reservations       *)
(* (AdmissionBounded) and by the time of the write (WireRateBounded), the  *)
(* journal respects the policy (WithinPolicy), and everything keeps its    *)
(* type (TypesHold).                                                       *)
(*                                                                         *)
(* What the bound is about is the reservations that are still in the       *)
(* window together with those that orders on the wire were sent with:      *)
(* none of the latter is ever given back (Recorded).  Any window of one    *)
(* Second holds at most Maximum of them (Bounded): when one is added, all  *)
(* of the others that share a window with it are in accepted.  The bound   *)
(* on the wire needs that an order which is written late is written before *)
(* anything outside its window is reserved (Spread).  That is the gate:    *)
(* nobody reserves while a client holds a reservation it has not used      *)
(* (ReservationHeld).                                                      *)
(***************************************************************************)
\* The client of an order has its reservation and no answer.
InFlight(c) == at[c] \in {"calling", "waiting"} /\ IsApp(c)

\* The window and its two structures.
Windowed ==
  /\ now \in Nat
  /\ accepted \in SUBSET ((0..now) \X Ids)
  /\ IsFiniteSet(accepted) /\ Cardinality(accepted) <= Maximum
  /\ \A e, f \in accepted : e[2] = f[2] => e = f
  /\ request_ids = {entry[2] : entry \in accepted}

\* An order on the wire is journaled, once, and its reservation stays in the
\* window for as long as it counts.
Recorded ==
  /\ IsFiniteSet(writes)
  /\ \A w \in writes :
       /\ w.reserved \in Nat /\ w.written \in Nat
       /\ w.reserved <= w.written /\ w.written <= now
       /\ ~IsNew(w.id)
       /\ now < w.reserved + Second => <<w.reserved, w.id>> \in accepted
  /\ \A v, w \in writes : v.id = w.id => v = w

\* The reservation of an order that is not written yet: no other one has left
\* its window.
Holds(c, e) ==
  /\ e[2] = Id(c)
  /\ \A f \in accepted : f[1] < e[1] + Second
  /\ \A w \in writes : w.id # Id(c) /\ w.reserved < e[1] + Second

ReservationHeld == \A c \in Clients : InFlight(c) => \E e \in accepted : Holds(c, e)

Reservation(w) == <<w.reserved, w.id>>
Reservations == accepted \cup {Reservation(w) : w \in writes}

\* What is reserved a window later than an order was, is reserved after that
\* order was written.
Spread ==
  \A v \in writes, e \in Reservations : v.reserved + Second <= e[1] => v.written <= e[1]

\* The reservations of one second.
ReservedFrom(t) == {e \in Reservations : t <= e[1] /\ e[1] < t + Second}

Bounded ==
  /\ IsFiniteSet(Reservations)
  /\ \A t \in Nat : Cardinality(ReservedFrom(t)) <= Maximum

\* A client that does anything has a request.
HasRequest == \A c \in Clients : at[c] # "idle" => doing[c] \in Requests

Limits == Windowed /\ Recorded /\ ReservationHeld /\ Spread /\ Bounded /\ HasRequest

-----------------------------------------------------------------------------
\* What the steps do to the limiter and to the orders on the wire: reserve,
\* slide the window, give a reservation back, write an order, or nothing.
OnlyFor(c) == \A d \in Clients : d # c => ~InFlight(d)'

Reserves(c) ==
  /\ at[c] = "looking up" /\ IsNew(Id(c))
  /\ Acquires(Id(c)) /\ OnlyFor(c)
  /\ UNCHANGED <<doing, now, journal, writes>>

Slides(c) ==
  /\ IsLimited(Id(c)) /\ OnlyFor(c) /\ ~InFlight(c)'
  /\ UNCHANGED <<doing, now, journal, writes>>

Frees(c) ==
  /\ IsNew(Id(c)) /\ Releases(Id(c)) /\ OnlyFor(c) /\ ~InFlight(c)'
  /\ UNCHANGED <<doing, now, journal, writes>>

Records(c) ==
  /\ InFlight(c) /\ ~IsNew(Id(c)) /\ journal[Id(c)] = Fingerprint(doing[c])
  /\ Writes(c) /\ OnlyFor(c) /\ ~InFlight(c)'
  /\ UNCHANGED <<doing, limiter, now, journal>>

CarriesOn(d) == InFlight(d)' => InFlight(d) /\ Id(d)' = Id(d)

JournalStands ==
  \A id : ~IsNew(id) => id \in DOMAIN journal' /\ journal'[id] = journal[id]

Calm ==
  /\ \A d \in Clients : CarriesOn(d)
  /\ now' \in {now, now + 1} /\ JournalStands
  /\ UNCHANGED <<limiter, writes>>

\* Only one client at a time is past the gate.
LEMMA OneInFlight ==
  ASSUME Base, NEW c \in Clients, Admitted(c),
         \A d \in Clients : d # c => CarriesOn(d)
  PROVE  OnlyFor(c)
<1> SUFFICES ASSUME NEW d \in Clients, d # c, InFlight(d)'
             PROVE  FALSE
  BY DEF OnlyFor
<1>1. InFlight(d)
  BY DEF CarriesOn
<1>2. Admitted(d)
  BY <1>1 DEF InFlight, Admitted
<1>3. QED
  BY <1>2, HeadLeaves

\* Every step of a client task is one of them.
LEMMA ClientLimits ==
  ASSUME IInv, HasRequest, NEW c \in Clients,
         GoesOn(c) \/ \E r \in Requests : Execute(c, r)
  PROVE  Reserves(c) \/ Slides(c) \/ Frees(c) \/ Calm
<1> USE DEF IInv, Base
<1>1. \A d \in Clients : d # c => CarriesOn(d)
  <2>1. \A d \in Clients : d # c => SameFor(d)
    BY ClientSteps
  <2>2. QED
    BY <2>1 DEF SameFor, CarriesOn, InFlight, IsApp, Id
<1>2. UNCHANGED journal => JournalStands
  BY DEF JournalStands, IsNew
<1>3. ASSUME NEW r \in Requests, Execute(c, r)
      PROVE  Calm
  <2>1. /\ at' = [at EXCEPT ![c] = at'[c]] /\ doing' = [doing EXCEPT ![c] = r]
        /\ UNCHANGED <<limiter, now, journal, writes>>
    BY <1>3 DEF Execute, IsTold, Goes, Typed
  <2>2. ~InFlight(c)'
    <3>1. doing'[c] = r
      BY <2>1 DEF Typed
    <3>2. CASE ~IsApplication(r.command)
      BY <3>1, <3>2 DEF InFlight, IsApp
    <3>3. CASE IsApplication(r.command)
      <4>1. at'[c] \in {"answering", "queued"}
        BY <1>3, <3>3 DEF Execute, IsTold, Goes, Typed
      <4>2. QED
        BY <4>1 DEF InFlight
    <3>4. QED
      BY <3>2, <3>3
  <2>3. QED
    BY <1>1, <1>2, <2>1, <2>2 DEF Calm, CarriesOn
<1>4. CASE LookUp(c)
  <2>1. Admitted(c) /\ UNCHANGED <<doing, now, journal, writes>>
    BY <1>4 DEF LookUp, Admitted
  <2>2. OnlyFor(c)
    BY <1>1, <2>1, OneInFlight
  <2>3. ASSUME NEW code, IsTold(c, code)
        PROVE  ~InFlight(c)'
    BY <2>3 DEF IsTold, Goes, InFlight, Typed
  <2>4. CASE (\E code : IsTold(c, code)) /\ UNCHANGED limiter
    BY <1>1, <1>2, <2>1, <2>3, <2>4 DEF Calm, CarriesOn
  <2>5. CASE (\E code : IsTold(c, code)) /\ IsLimited(Id(c))
    BY <2>1, <2>2, <2>3, <2>5 DEF Slides
  <2>6. CASE IsNew(Id(c)) /\ Acquires(Id(c))
    BY <1>4, <2>1, <2>2, <2>6 DEF Reserves, LookUp
  <2>7. QED
    BY <1>4, <2>4, <2>5, <2>6 DEF LookUp
<1>5. CASE Resume(c)
  <2>1. ~InFlight(c)' /\ UNCHANGED <<doing, now, journal, writes>>
    BY <1>5 DEF Resume, IsTold, Goes, InFlight, Typed
  <2>2. CASE UNCHANGED limiter
    BY <1>1, <1>2, <2>1, <2>2 DEF Calm, CarriesOn
  <2>3. CASE ~UNCHANGED limiter
    <3>1. /\ IsApp(c) /\ Releases(Id(c))
          /\ at[c] = "replied" => answer[c] = "SESSION_NOT_ESTABLISHED"
          /\ at[c] # "replied" => at[c] \in {"calling", "waiting"} /\ ~session[handle[c]].alive
      BY <1>5, <2>3 DEF Resume, IsApp, GivesBack
    <3>2. Admitted(c)
      BY <1>5, <3>1 DEF Resume, Admitted
    <3>3. IsNew(Id(c))
      <4>1. CASE at[c] = "replied"
        BY <3>1, <4>1 DEF RepliesTrue, Truthful
      <4>2. CASE at[c] # "replied"
        <5>1. handle[c] \in Sessions
          BY <3>1, <4>2, HoldsSession
        <5>2. ~session[handle[c]].writing
          BY <3>1, <4>2, <5>1 DEF MailHeld, MailOf
        <5>3. QED
          BY <3>1, <4>2, <5>2 DEF SubmitsAreNew, IsApp
      <4>3. QED
        BY <4>1, <4>2
    <3>4. QED
      BY <1>1, <2>1, <3>1, <3>2, <3>3, OneInFlight DEF Frees
  <2>4. QED
    BY <2>2, <2>3
<1>6. CASE EnterGate(c) \/ Respond(c)
  <2>1. ~InFlight(c)' /\ UNCHANGED <<limiter, now, journal, writes>>
    BY <1>6 DEF EnterGate, Respond, Goes, InFlight, Typed
  <2>2. QED
    BY <1>1, <1>2, <2>1 DEF Calm, CarriesOn
<1>7. CASE Call(c)
  <2>1. at[c] = "calling" /\ UNCHANGED <<doing, limiter, now, journal, writes>>
    BY <1>7 DEF Call
  <2>2. QED
    BY <1>1, <1>2, <2>1 DEF Calm, CarriesOn, InFlight, IsApp, Id
<1>8. QED
  BY <1>3, <1>4, <1>5, <1>6, <1>7 DEF GoesOn

\* And so is every other step.
LEMMA StepLimits ==
  ASSUME IInv, HasRequest, [Next]_vars
  PROVE  Calm \/ \E c \in Clients : Reserves(c) \/ Slides(c) \/ Frees(c) \/ Records(c)
<1> USE DEF IInv, Base
<1>1. UNCHANGED journal => JournalStands
  BY DEF JournalStands, IsNew
<1>2. ASSUME UNCHANGED <<at, doing>>
      PROVE  \A d \in Clients : CarriesOn(d)
  BY <1>2 DEF CarriesOn, InFlight, IsApp, Id
<1>3. ASSUME NEW c \in Clients, GoesOn(c) \/ \E r \in Requests : Execute(c, r)
      PROVE  Reserves(c) \/ Slides(c) \/ Frees(c) \/ Calm
  BY <1>3, ClientLimits
<1>4. ASSUME NEW g \in Sessions, NEW c \in Clients,
             \/ ServeStatus(g, c) \/ ServeLogout(g, c) \/ ServeOrder(g, c)
             \/ OrderWritten(g, c) \/ OrderFails(g, c)
      PROVE  Calm \/ Records(c)
  <2>1. \/ Begun(g, c) /\ Journals(c) /\ ~session[g].writing
        \/ (Answered(g, c) \/ AnsweredLast(g, c)) /\ UNCHANGED journal
    BY <1>4, ServeOutcomes
  <2>2. UNCHANGED doing
    BY <1>4, SessionServes
  <2>3. UNCHANGED <<limiter, now>>
    BY <1>4 DEF ServeStatus, ServeLogout, ServeOrder, OrderWritten, OrderFails, Replies
  <2>4. JournalStands
    BY <1>1, <2>1, <2>2, JournalGrows DEF JournalStands
  <2>5. \A d \in Clients : CarriesOn(d)
    <3>1. \A d \in Clients : at'[d] \in {at[d], "replied"}
      BY <2>1 DEF Begun, Answered, AnsweredLast, IsReplied, Goes, Typed
    <3>2. QED
      BY <2>2, <3>1 DEF CarriesOn, InFlight, IsApp, Id
  <2>6. CASE UNCHANGED writes
    BY <2>3, <2>4, <2>5, <2>6 DEF Calm
  <2>7. CASE ~UNCHANGED writes
    <3>1. session[g].writing /\ Writes(c)
      BY <1>4, <2>7 DEF ServeStatus, ServeLogout, ServeOrder, OrderWritten, OrderFails
    <3>2. (Answered(g, c) \/ AnsweredLast(g, c)) /\ UNCHANGED journal
      BY <2>1, <3>1
    <3>3. HasHead(g, c) /\ IsReplied(c)
      BY <3>2 DEF Answered, AnsweredLast
    <3>4. IsJournaled(c) /\ at[c] = "waiting"
      BY <3>1, <3>3, HeadWaits DEF HasHead, OrderAtHand, OrderOf
    <3>5. ~InFlight(c)'
      BY <3>3 DEF IsReplied, Goes, InFlight, Typed
    <3>6. InFlight(c) /\ Admitted(c)
      BY <3>4 DEF IsJournaled, InFlight, Admitted
    <3>7. OnlyFor(c)
      BY <2>5, <3>6, OneInFlight
    <3>8. QED
      BY <2>2, <2>3, <3>1, <3>2, <3>4, <3>5, <3>6, <3>7 DEF Records, IsJournaled
  <2>8. QED
    BY <2>6, <2>7
<1>5. CASE Elsewhere
  <2>1. UNCHANGED <<at, doing, journal>>
    BY <1>5, SessionAlone
  <2>2. UNCHANGED <<limiter, now, writes>>
    BY <1>5 DEF Elsewhere
  <2>3. QED
    BY <1>1, <1>2, <2>1, <2>2 DEF Calm
<1>6. CASE Tick
  BY <1>1, <1>2, <1>6 DEF Tick, clients, Calm
<1>7. CASE UNCHANGED vars
  BY <1>1, <1>2, <1>7 DEF vars, clients, Calm
<1>8. QED
  BY <1>3, <1>4, <1>5, <1>6, <1>7 DEF Next, Serves, Writing

-----------------------------------------------------------------------------
\* Every reservation is a time and a request id.
LEMMA EntryShape ==
  ASSUME Windowed
  PROVE  \A e \in accepted : /\ e[1] \in Nat /\ e[1] <= now /\ e[2] \in Ids
                             /\ e = <<e[1], e[2]>>
  BY DEF Windowed

\* The window moves on: what is left keeps its ids, and no others.
LEMMA WindowMoves ==
  ASSUME Windowed
  PROVE  /\ Kept \subseteq accepted /\ IsFiniteSet(Kept) /\ Cardinality(Kept) <= Maximum
         /\ Cardinality(Kept) \in Nat
         /\ IdsAfterExpiry(Kept) = {entry[2] : entry \in Kept}
<1>1. Kept \in SUBSET accepted
  BY DEF Kept
<1>2. /\ IsFiniteSet(accepted) /\ Cardinality(accepted) \in Nat /\ Maximum \in Nat
      /\ Cardinality(accepted) <= Maximum
  BY FS_CardinalityType, ControlConstants DEF Windowed
<1>3. /\ IsFiniteSet(Kept) /\ Cardinality(Kept) \in Nat
      /\ Cardinality(Kept) <= Cardinality(accepted)
  BY <1>1, <1>2, FS_Subset, FS_CardinalityType
<1>4. IdsAfterExpiry(Kept) = {entry[2] : entry \in Kept}
  <2>1. /\ request_ids = {entry[2] : entry \in accepted}
        /\ \A e, f \in accepted : e[2] = f[2] => e = f
    BY DEF Windowed
  <2>2. QED
    BY <1>1, <2>1 DEF IdsAfterExpiry
<1>5. QED
  BY <1>1, <1>2, <1>3, <1>4

\* A reservation is in the window from then on, the one it was given now or
\* an earlier one under the same id.
LEMMA AcquiresAdds ==
  ASSUME Windowed, NEW id \in Ids, Acquires(id)
  PROVE  /\ Kept \subseteq accepted' /\ accepted' \subseteq Kept \cup {<<now, id>>}
         /\ \/ accepted' = Kept
            \/ accepted' = Kept \cup {<<now, id>>} /\ Cardinality(Kept) < Maximum
         /\ IsFiniteSet(accepted') /\ Cardinality(accepted') <= Maximum
         /\ \A e, f \in accepted' : e[2] = f[2] => e = f
         /\ request_ids' = {entry[2] : entry \in accepted'}
         /\ \E e \in accepted' : e[2] = id /\ now < e[1] + Second
<1>1. /\ Kept \subseteq accepted /\ IsFiniteSet(Kept) /\ Cardinality(Kept) <= Maximum
      /\ Cardinality(Kept) \in Nat
      /\ IdsAfterExpiry(Kept) = {entry[2] : entry \in Kept}
  BY WindowMoves
<1>2. \A e, f \in Kept : e[2] = f[2] => e = f
  BY <1>1 DEF Windowed
<1>3. now \in Nat /\ Second \in Nat \ {0} /\ Maximum \in Nat
  BY ControlConstants DEF Windowed
<1>4. CASE id \in IdsAfterExpiry(Kept)
  <2>1. accepted' = Kept /\ request_ids' = IdsAfterExpiry(Kept)
    BY <1>4 DEF Acquires
  <2>2. \E e \in accepted' : e[2] = id /\ now < e[1] + Second
    <3>1. PICK e \in Kept : e[2] = id
      BY <1>1, <1>4
    <3>2. now - e[1] < Second /\ e[1] \in Nat
      BY <3>1, EntryShape DEF Kept, IsCurrent
    <3>3. QED
      BY <1>3, <2>1, <3>1, <3>2
  <2>3. /\ IsFiniteSet(accepted') /\ Cardinality(accepted') <= Maximum
        /\ Kept \subseteq accepted' /\ accepted' \subseteq Kept \cup {<<now, id>>}
    BY <1>1, <2>1
  <2>4. \A e, f \in accepted' : e[2] = f[2] => e = f
    BY <1>2, <2>1
  <2>5. request_ids' = {entry[2] : entry \in accepted'}
    BY <1>1, <2>1
  <2>6. QED
    BY <2>1, <2>2, <2>3, <2>4, <2>5
<1>5. CASE id \notin IdsAfterExpiry(Kept)
  <2>1. /\ accepted' = Kept \cup {<<now, id>>} /\ Cardinality(Kept) < Maximum
        /\ request_ids' = IdsAfterExpiry(Kept) \cup {id}
    BY <1>5 DEF Acquires
  <2>2. /\ IsFiniteSet(Kept \cup {<<now, id>>})
        /\ Cardinality(Kept \cup {<<now, id>>}) =
             IF <<now, id>> \in Kept THEN Cardinality(Kept) ELSE Cardinality(Kept) + 1
    BY <1>1, FS_AddElement
  <2>3. \A e \in Kept : e[2] # id
    BY <1>1, <1>5
  <2>4. <<now, id>>[1] = now /\ <<now, id>>[2] = id
    OBVIOUS
  <2>5. \A e, f \in accepted' : e[2] = f[2] => e = f
    BY <1>2, <2>1, <2>3, <2>4
  <2>6. request_ids' = {entry[2] : entry \in accepted'}
    BY <1>1, <2>1, <2>4
  <2>7. now < now + Second
    BY <1>3
  <2>8. Cardinality(Kept) + 1 <= Maximum
    BY <1>1, <1>3, <2>1
  <2>9. IsFiniteSet(accepted') /\ Cardinality(accepted') <= Maximum
    BY <1>1, <1>3, <2>1, <2>2, <2>8
  <2>10. \E e \in accepted' : e[2] = id /\ now < e[1] + Second
    BY <2>1, <2>4, <2>7
  <2>11. QED
    BY <2>1, <2>5, <2>6, <2>9, <2>10
<1>6. QED
  BY <1>4, <1>5

\* The window never overflows, and its ids are those of its entries.
LEMMA WindowedKept ==
  ASSUME IInv, Limits, [Next]_vars
  PROVE  Windowed'
<1> USE DEF Limits
<1>1. ASSUME NEW c \in Clients, Reserves(c)
      PROVE  Windowed'
  <2>1. Id(c) \in Ids
    BY <1>1 DEF Reserves, HasRequest, Ids, Id
  <2>2. Kept \subseteq accepted /\ UNCHANGED now
    BY <1>1 DEF Kept, Reserves
  <2>3. now \in Nat /\ accepted \in SUBSET ((0..now) \X Ids)
    BY DEF Windowed
  <2>4. accepted' \in SUBSET ((0..now') \X Ids)
    <3>1. accepted' \subseteq Kept \cup {<<now, Id(c)>>}
      BY <1>1, <2>1, AcquiresAdds DEF Reserves
    <3>2. <<now, Id(c)>> \in (0..now') \X Ids
      BY <2>1, <2>2, <2>3
    <3>3. QED
      BY <2>2, <2>3, <3>1, <3>2
  <2>5. QED
    BY <1>1, <2>1, <2>2, <2>3, <2>4, AcquiresAdds DEF Reserves, Windowed
<1>2. ASSUME NEW c \in Clients, Slides(c)
      PROVE  Windowed'
  <2>1. accepted' = Kept /\ request_ids' = IdsAfterExpiry(Kept) /\ UNCHANGED now
    BY <1>2 DEF Slides, IsLimited
  <2>2. QED
    BY <2>1, WindowMoves DEF Windowed
<1>3. ASSUME NEW c \in Clients, Frees(c)
      PROVE  Windowed'
  <2>1. /\ accepted' = {entry \in accepted : entry[2] # Id(c)}
        /\ request_ids' = request_ids \ {Id(c)} /\ UNCHANGED now
    BY <1>3 DEF Frees, Releases
  <2>2. accepted' \in SUBSET accepted
    BY <2>1
  <2>3. /\ IsFiniteSet(accepted') /\ Cardinality(accepted') <= Cardinality(accepted)
        /\ Cardinality(accepted') \in Nat /\ Cardinality(accepted) \in Nat
    BY <2>2, FS_Subset, FS_CardinalityType DEF Windowed
  <2>4. Cardinality(accepted') <= Maximum
    BY <2>3, ControlConstants DEF Windowed
  <2>5. request_ids' = {entry[2] : entry \in accepted'}
    BY <2>1 DEF Windowed
  <2>6. QED
    BY <2>1, <2>2, <2>3, <2>4, <2>5 DEF Windowed
<1>4. ASSUME UNCHANGED limiter, now' \in {now, now + 1}
      PROVE  Windowed'
  BY <1>4 DEF limiter, Windowed
<1>5. QED
  BY <1>1, <1>2, <1>3, <1>4, StepLimits DEF Calm, Records

\* The order at hand goes out with the reservation its client holds.
LEMMA RecordsHeld ==
  ASSUME Limits, NEW c \in Clients, Records(c)
  PROVE  \E e \in accepted :
           /\ Holds(c, e)
           /\ writes' = writes \cup
                {[id |-> Id(c), command |-> doing[c].command,
                  reserved |-> e[1], written |-> now]}
<1>1. PICK e \in accepted : Holds(c, e)
  BY DEF Limits, ReservationHeld, Records
<1>2. e[2] = Id(c) /\ \A f \in accepted : f[2] = Id(c) => f = e
  BY <1>1 DEF Holds, Limits, Windowed
<1>3. (CHOOSE entry \in accepted : entry[2] = Id(c)) = e
  BY <1>2
<1>4. Reserved(Id(c)) = e[1]
  BY <1>2, <1>3 DEF Reserved
<1>5. QED
  BY <1>1, <1>4 DEF Records, Writes

\* What is current stays in the window, but for what is given back.
LEMMA CurrentStays ==
  ASSUME Limits, NEW c \in Clients, Reserves(c) \/ Slides(c)
  PROVE  Kept \subseteq accepted' /\ accepted' \subseteq Kept \cup {<<now, Id(c)>>}
<1>1. CASE Reserves(c)
  <2>1. Id(c) \in Ids
    BY <1>1 DEF Limits, Reserves, HasRequest, Ids, Id
  <2>2. QED
    BY <1>1, <2>1, AcquiresAdds DEF Limits, Reserves
<1>2. CASE Slides(c)
  BY <1>2 DEF Slides, IsLimited
<1>3. QED
  BY <1>1, <1>2

\* The reservation of an order on the wire is never given back.
LEMMA RecordedKept ==
  ASSUME IInv, Limits, [Next]_vars
  PROVE  Recorded'
<1> USE DEF Limits
<1>1. ASSUME NEW c \in Clients, Reserves(c) \/ Slides(c)
      PROVE  Recorded'
  <2>1. UNCHANGED <<now, journal, writes>>
    BY <1>1 DEF Reserves, Slides
  <2>2. ASSUME NEW w \in writes, now < w.reserved + Second
        PROVE  Reservation(w) \in accepted'
    <3>1. Reservation(w) \in accepted /\ w.reserved \in Nat /\ now \in Nat
      BY <2>2 DEF Recorded, Windowed, Reservation
    <3>2. Reservation(w)[1] = w.reserved
      BY DEF Reservation
    <3>3. Reservation(w) \in Kept
      BY <2>2, <3>1, <3>2, ControlConstants DEF Kept, IsCurrent
    <3>4. QED
      BY <1>1, <3>3, CurrentStays
  <2>3. QED
    BY <2>1, <2>2 DEF Recorded, Reservation, IsNew
<1>2. ASSUME NEW c \in Clients, Frees(c)
      PROVE  Recorded'
  <2>1. /\ IsNew(Id(c)) /\ accepted' = {entry \in accepted : entry[2] # Id(c)}
        /\ UNCHANGED <<now, journal, writes>>
    BY <1>2 DEF Frees, Releases
  <2>2. \A w \in writes : w.id # Id(c)
    BY <2>1 DEF Recorded
  <2>3. QED
    BY <2>1, <2>2 DEF Recorded, IsNew
<1>3. ASSUME NEW c \in Clients, Records(c)
      PROVE  Recorded'
  <2>1. PICK e \in accepted :
          /\ Holds(c, e)
          /\ writes' = writes \cup
               {[id |-> Id(c), command |-> doing[c].command,
                 reserved |-> e[1], written |-> now]}
    BY <1>3, RecordsHeld
  <2>2. PICK x : x = [id |-> Id(c), command |-> doing[c].command,
                      reserved |-> e[1], written |-> now]
    OBVIOUS
  <2>3. writes' = writes \cup {x} /\ x.id = Id(c) /\ x.reserved = e[1] /\ x.written = now
    BY <2>1, <2>2
  <2>4. ~IsNew(Id(c)) /\ UNCHANGED <<accepted, now, journal>>
    BY <1>3 DEF Records, limiter
  <2>5. e[1] \in Nat /\ e[1] <= now /\ now \in Nat /\ e = <<e[1], Id(c)>>
    BY <2>1, EntryShape DEF Holds, Windowed
  <2>6. IsFiniteSet(writes')
    BY <2>3, FS_AddElement DEF Recorded
  <2>7. \A w \in writes : w.id # x.id
    BY <2>1, <2>3 DEF Holds
  <2>8. \A v, w \in writes' : v.id = w.id => v = w
    BY <2>3, <2>7 DEF Recorded
  <2>9. \A w \in writes' :
          /\ w.reserved \in Nat /\ w.written \in Nat
          /\ w.reserved <= w.written /\ w.written <= now
          /\ ~IsNew(w.id)
          /\ now < w.reserved + Second => <<w.reserved, w.id>> \in accepted
    <3>1. \A w \in writes :
            /\ w.reserved \in Nat /\ w.written \in Nat
            /\ w.reserved <= w.written /\ w.written <= now
            /\ ~IsNew(w.id)
            /\ now < w.reserved + Second => <<w.reserved, w.id>> \in accepted
      BY DEF Recorded
    <3>2. /\ x.reserved \in Nat /\ x.written \in Nat
          /\ x.reserved <= x.written /\ x.written <= now
          /\ ~IsNew(x.id)
          /\ <<x.reserved, x.id>> \in accepted
      BY <2>1, <2>3, <2>4, <2>5
    <3>3. QED
      BY <2>3, <3>1, <3>2
  <2>10. QED
    BY <2>4, <2>6, <2>8, <2>9 DEF Recorded, IsNew
<1>4. CASE Calm
  <2>1. /\ UNCHANGED <<accepted, writes>> /\ now' \in {now, now + 1}
        /\ \A id : ~IsNew(id) => ~IsNew(id)'
    BY <1>4 DEF Calm, JournalStands, limiter, IsNew
  <2>2. \A w \in writes :
          /\ w.reserved \in Nat /\ w.written \in Nat
          /\ w.reserved <= w.written /\ w.written <= now'
          /\ ~IsNew(w.id)'
          /\ now' < w.reserved + Second => <<w.reserved, w.id>> \in accepted'
    <3> SUFFICES ASSUME NEW w \in writes
                 PROVE  /\ w.reserved \in Nat /\ w.written \in Nat
                        /\ w.reserved <= w.written /\ w.written <= now'
                        /\ ~IsNew(w.id)'
                        /\ now' < w.reserved + Second => <<w.reserved, w.id>> \in accepted'
      OBVIOUS
    <3>1. /\ w.reserved \in Nat /\ w.written \in Nat
          /\ w.reserved <= w.written /\ w.written <= now
          /\ ~IsNew(w.id)
          /\ now < w.reserved + Second => <<w.reserved, w.id>> \in accepted
      BY DEF Recorded
    <3>2. now \in Nat /\ Second \in Nat
      BY ControlConstants DEF Windowed
    <3>3. w.written <= now' /\ (now' < w.reserved + Second => now < w.reserved + Second)
      BY <2>1, <3>1, <3>2
    <3>4. ~IsNew(w.id)'
      BY <2>1, <3>1
    <3>5. QED
      BY <2>1, <3>1, <3>3, <3>4
  <2>3. QED
    BY <2>1, <2>2 DEF Recorded, IsNew
<1>5. QED
  BY <1>1, <1>2, <1>3, <1>4, StepLimits

\* Nobody reserves while a reservation is unused: it is the gate's.
LEMMA HeldKept ==
  ASSUME IInv, Limits, [Next]_vars
  PROVE  ReservationHeld'
<1> USE DEF Limits
<1>1. ASSUME NEW c \in Clients, Reserves(c)
      PROVE  ReservationHeld'
  <2>1. Id(c) \in Ids /\ Id(c)' = Id(c) /\ UNCHANGED <<now, writes>>
    BY <1>1 DEF Reserves, HasRequest, Ids, Id
  <2>2. PICK e \in accepted' : e[2] = Id(c) /\ now < e[1] + Second
    BY <1>1, <2>1, AcquiresAdds DEF Reserves
  <2>3. /\ now \in Nat /\ Second \in Nat
        /\ \A f \in accepted' : f[1] \in Nat /\ f[1] <= now
    BY <2>1, WindowedKept, ControlConstants DEF Windowed
  <2>4. \A w \in writes : w.id # Id(c) /\ w.reserved \in Nat /\ w.reserved <= now
    <3> SUFFICES ASSUME NEW w \in writes
                 PROVE  w.id # Id(c) /\ w.reserved \in Nat /\ w.reserved <= now
      OBVIOUS
    <3>1. /\ w.reserved \in Nat /\ w.written \in Nat
          /\ w.reserved <= w.written /\ w.written <= now /\ ~IsNew(w.id)
      BY DEF Recorded
    <3>2. IsNew(Id(c))
      BY <1>1 DEF Reserves
    <3>3. w.id # Id(c)
      BY <3>1, <3>2
    <3>4. QED
      BY <2>3, <3>1, <3>3
  <2>5. Holds(c, e)'
    BY <2>1, <2>2, <2>3, <2>4 DEF Holds
  <2>6. QED
    BY <1>1, <2>5 DEF ReservationHeld, Reserves, OnlyFor
<1>2. ASSUME NEW c \in Clients, OnlyFor(c), ~InFlight(c)'
      PROVE  ReservationHeld'
  BY <1>2 DEF ReservationHeld, OnlyFor
<1>3. CASE Calm
  BY <1>3 DEF Calm, CarriesOn, limiter, ReservationHeld, Holds
<1>4. QED
  BY <1>1, <1>2, <1>3, StepLimits DEF Slides, Frees, Records

\* What a step adds to the reservations is at most the one made now.
LEMMA ReservationsGrow ==
  ASSUME IInv, Limits, [Next]_vars
  PROVE  \/ Reservations' \subseteq Reservations
         \/ \E c \in Clients :
              /\ Reservations' \subseteq Reservations \cup {<<now, Id(c)>>}
              /\ Cardinality(Kept) < Maximum /\ UNCHANGED <<now, writes>>
              /\ accepted' = Kept \cup {<<now, Id(c)>>}
<1> USE DEF Limits
<1>1. ASSUME NEW c \in Clients, Reserves(c)
      PROVE  \/ Reservations' \subseteq Reservations
             \/ /\ Reservations' \subseteq Reservations \cup {<<now, Id(c)>>}
                /\ Cardinality(Kept) < Maximum /\ UNCHANGED <<now, writes>>
                /\ accepted' = Kept \cup {<<now, Id(c)>>}
  <2>1. Id(c) \in Ids /\ UNCHANGED <<now, writes>>
    BY <1>1 DEF Reserves, HasRequest, Ids, Id
  <2>2. \/ accepted' = Kept
        \/ accepted' = Kept \cup {<<now, Id(c)>>} /\ Cardinality(Kept) < Maximum
    BY <1>1, <2>1, AcquiresAdds DEF Reserves
  <2>3. Kept \subseteq accepted
    BY DEF Kept
  <2>4. QED
    BY <2>1, <2>2, <2>3 DEF Reservations, Reservation
<1>2. ASSUME NEW c \in Clients, Slides(c) \/ Frees(c)
      PROVE  Reservations' \subseteq Reservations
  <2>1. accepted' \subseteq accepted /\ UNCHANGED writes
    BY <1>2 DEF Slides, IsLimited, Kept, Frees, Releases
  <2>2. QED
    BY <2>1 DEF Reservations, Reservation
<1>3. ASSUME NEW c \in Clients, Records(c)
      PROVE  Reservations' \subseteq Reservations
  <2>1. PICK e \in accepted :
          /\ Holds(c, e)
          /\ writes' = writes \cup
               {[id |-> Id(c), command |-> doing[c].command,
                 reserved |-> e[1], written |-> now]}
    BY <1>3, RecordsHeld
  <2>2. PICK x : x = [id |-> Id(c), command |-> doing[c].command,
                      reserved |-> e[1], written |-> now]
    OBVIOUS
  <2>3. writes' = writes \cup {x} /\ Reservation(x) = <<e[1], Id(c)>>
    BY <2>1, <2>2 DEF Reservation
  <2>4. Reservation(x) = e
    BY <2>1, <2>3, EntryShape DEF Holds
  <2>5. UNCHANGED accepted
    BY <1>3 DEF Records, limiter
  <2>6. QED
    BY <2>3, <2>4, <2>5 DEF Reservations, Reservation
<1>4. CASE Calm
  BY <1>4 DEF Calm, limiter, Reservations, Reservation
<1>5. QED
  BY <1>1, <1>2, <1>3, <1>4, StepLimits

\* An order that is outside the window of another one was reserved after that
\* one was written.
LEMMA SpreadKept ==
  ASSUME IInv, Limits, [Next]_vars
  PROVE  Spread'
<1> USE DEF Limits
<1>1. \A v \in writes : v.reserved \in Nat /\ v.written \in Nat /\ v.written <= now
  BY DEF Recorded
<1>2. CASE UNCHANGED writes
  <2>1. CASE Reservations' \subseteq Reservations
    BY <1>2, <2>1 DEF Spread
  <2>2. ASSUME NEW c \in Clients, Reservations' \subseteq Reservations \cup {<<now, Id(c)>>}
        PROVE  Spread'
    BY <1>1, <1>2, <2>2 DEF Spread
  <2>3. QED
    BY <2>1, <2>2, ReservationsGrow
<1>3. ASSUME NEW c \in Clients, Records(c)
      PROVE  Spread'
  <2>1. PICK e \in accepted :
          /\ Holds(c, e)
          /\ writes' = writes \cup
               {[id |-> Id(c), command |-> doing[c].command,
                 reserved |-> e[1], written |-> now]}
    BY <1>3, RecordsHeld
  <2>2. PICK x : x = [id |-> Id(c), command |-> doing[c].command,
                      reserved |-> e[1], written |-> now]
    OBVIOUS
  <2>3. writes' = writes \cup {x} /\ x.reserved = e[1]
    BY <2>1, <2>2
  <2>4. UNCHANGED accepted
    BY <1>3 DEF Records, limiter
  <2>5. \A w \in writes' : w.reserved < e[1] + Second
    <3>1. e[1] \in Nat /\ e[1] < e[1] + Second
      BY EntryShape, ControlConstants
    <3>2. QED
      BY <2>1, <2>3, <3>1 DEF Holds
  <2>6. \A f \in Reservations' : f[1] < e[1] + Second
    <3>1. \A f \in accepted : f[1] < e[1] + Second
      BY <2>1 DEF Holds
    <3>2. QED
      BY <2>4, <2>5, <3>1 DEF Reservations, Reservation
  <2>7. Reservations' \subseteq Reservations
    <3>1. Reservation(x) = <<e[1], Id(c)>>
      BY <2>2 DEF Reservation
    <3>2. Reservation(x) = e
      BY <2>1, <3>1, EntryShape DEF Holds
    <3>3. QED
      BY <2>3, <2>4, <3>2 DEF Reservations, Reservation
  <2>8. e[1] \in Nat /\ \A f \in Reservations' : f[1] \in Nat
    BY <2>7, <1>1, EntryShape DEF Reservations, Reservation
  <2>9. ASSUME NEW v \in writes', NEW f \in Reservations', v.reserved + Second <= f[1]
        PROVE  v.written <= f[1]
    <3>1. v # x
      BY <2>3, <2>6, <2>8, <2>9, ControlConstants
    <3>2. QED
      BY <2>3, <2>7, <2>9, <3>1 DEF Spread
  <2>10. QED
    BY <2>9 DEF Spread
<1>4. QED
  BY <1>2, <1>3, StepLimits DEF Calm, Reserves, Slides, Frees

\* No second gets more reservations than the maximum.
LEMMA BoundedKept ==
  ASSUME IInv, Limits, [Next]_vars
  PROVE  Bounded'
<1> USE DEF Limits
<1>1. Maximum \in Nat /\ Second \in Nat /\ now \in Nat
  BY ControlConstants DEF Windowed
<1>2. \A t \in Nat : IsFiniteSet(ReservedFrom(t)) /\ Cardinality(ReservedFrom(t)) \in Nat
  BY FS_Subset, FS_CardinalityType DEF Bounded, ReservedFrom
<1>3. ASSUME NEW t \in Nat, ReservedFrom(t)' \subseteq ReservedFrom(t)
      PROVE  Cardinality(ReservedFrom(t)') <= Maximum
  <2>1. /\ Cardinality(ReservedFrom(t)') <= Cardinality(ReservedFrom(t))
        /\ Cardinality(ReservedFrom(t)') \in Nat
    BY <1>2, <1>3, FS_Subset, FS_CardinalityType
  <2>2. QED
    BY <1>1, <1>2, <2>1 DEF Bounded
<1>4. CASE Reservations' \subseteq Reservations
  <2>1. IsFiniteSet(Reservations')
    BY <1>4, FS_Subset DEF Bounded
  <2>2. \A t \in Nat : ReservedFrom(t)' \subseteq ReservedFrom(t)
    BY <1>4 DEF ReservedFrom
  <2>3. QED
    BY <1>3, <2>1, <2>2 DEF Bounded
<1>5. ASSUME NEW c \in Clients,
             Reservations' \subseteq Reservations \cup {<<now, Id(c)>>},
             UNCHANGED <<now, writes>>,
             accepted' = Kept \cup {<<now, Id(c)>>}
      PROVE  Bounded'
  <2>1. IsFiniteSet(Reservations \cup {<<now, Id(c)>>})
    BY FS_AddElement DEF Bounded
  <2>2. IsFiniteSet(Reservations')
    BY <1>5, <2>1, FS_Subset
  <2>3. ASSUME NEW t \in Nat, t <= now, now < t + Second
        PROVE  Cardinality(ReservedFrom(t)') <= Maximum
    <3>1. ReservedFrom(t)' \subseteq accepted'
      <4> SUFFICES ASSUME NEW w \in writes, t <= w.reserved
                   PROVE  Reservation(w) \in accepted'
        BY <1>5 DEF ReservedFrom, Reservations, Reservation
      <4>0. w.reserved \in Nat
        BY DEF Recorded
      <4>1. w.reserved \in Nat /\ now < w.reserved + Second
        BY <1>1, <2>3, <4>0
      <4>2. Reservation(w) \in accepted /\ Reservation(w)[1] = w.reserved
        BY <4>1 DEF Recorded, Reservation
      <4>3. Reservation(w) \in Kept
        BY <1>1, <4>1, <4>2 DEF Kept, IsCurrent
      <4>4. QED
        BY <1>5, <4>3
    <3>2. IsFiniteSet(accepted') /\ Cardinality(accepted') <= Maximum
      BY WindowedKept DEF Windowed
    <3>3. /\ Cardinality(ReservedFrom(t)') <= Cardinality(accepted')
          /\ Cardinality(ReservedFrom(t)') \in Nat /\ Cardinality(accepted') \in Nat
      BY <3>1, <3>2, FS_Subset, FS_CardinalityType
    <3>4. QED
      BY <1>1, <3>2, <3>3
  <2>4. ASSUME NEW t \in Nat, ~(t <= now /\ now < t + Second)
        PROVE  Cardinality(ReservedFrom(t)') <= Maximum
    <3>1. ReservedFrom(t)' \subseteq ReservedFrom(t)
      BY <1>5, <2>4 DEF ReservedFrom
    <3>2. QED
      BY <1>3, <3>1
  <2>5. QED
    BY <2>2, <2>3, <2>4 DEF Bounded
<1>6. QED
  BY <1>4, <1>5, ReservationsGrow

\* Who does anything has asked for something.
LEMMA HasRequestKept ==
  ASSUME IInv, Limits, [Next]_vars
  PROVE  HasRequest'
<1> USE DEF IInv, Base, Limits
<1>1. ASSUME NEW d \in Clients, NEW c \in Clients,
             GoesOn(c) \/ \E r \in Requests : Execute(c, r)
      PROVE  at'[d] # "idle" => doing'[d] \in Requests
  <2>1. CASE d # c
    <3>1. at'[d] = at[d] /\ doing'[d] = doing[d]
      BY <1>1, <2>1, ClientSteps DEF SameFor
    <3>2. QED
      BY <3>1 DEF HasRequest
  <2>2. ASSUME NEW r \in Requests, Execute(c, r)
        PROVE  doing'[c] \in Requests
    BY <2>2 DEF Execute, Typed
  <2>3. CASE Respond(c)
    BY <2>3, <2>1 DEF Respond, Goes, Typed
  <2>4. CASE EnterGate(c) \/ LookUp(c) \/ Call(c) \/ Resume(c)
    <3>1. at[c] # "idle" /\ UNCHANGED doing
      BY <2>4 DEF EnterGate, LookUp, Call, Resume
    <3>2. QED
      BY <2>1, <3>1 DEF HasRequest
  <2>5. QED
    BY <1>1, <2>1, <2>2, <2>3, <2>4 DEF GoesOn
<1>2. ASSUME NEW g \in Sessions, NEW c \in Clients,
             \/ ServeStatus(g, c) \/ ServeLogout(g, c) \/ ServeOrder(g, c)
             \/ OrderWritten(g, c) \/ OrderFails(g, c)
      PROVE  HasRequest'
  <2>1. /\ Answered(g, c) \/ AnsweredLast(g, c) \/ Begun(g, c)
        /\ UNCHANGED doing
    BY <1>2, SessionServes
  <2>2. at[c] = "waiting"
    BY <2>1, HeadWaits DEF Answered, AnsweredLast, Begun, HasHead
  <2>3. UNCHANGED at \/ at' = [at EXCEPT ![c] = "replied"]
    BY <2>1 DEF Answered, AnsweredLast, Begun, IsReplied, Goes
  <2>4. QED
    BY <2>1, <2>2, <2>3 DEF HasRequest, Typed
<1>3. CASE Elsewhere \/ Tick \/ UNCHANGED vars
  <2>1. UNCHANGED <<at, doing>>
    BY <1>3, SessionAlone DEF Tick, vars, clients
  <2>2. QED
    BY <2>1 DEF HasRequest
<1>4. QED
  BY <1>1, <1>2, <1>3 DEF Next, Serves, Writing, HasRequest

-----------------------------------------------------------------------------
\* The limits hold at the start.
LEMMA LimitsInitial == Init => Limits
<1> SUFFICES ASSUME Init PROVE Limits
  OBVIOUS
<1>1. /\ accepted = {} /\ request_ids = {} /\ now = 0 /\ writes = {}
      /\ at = [c \in Clients |-> "idle"]
  BY DEF Init
<1>2. IsFiniteSet({}) /\ Cardinality({}) = 0
  BY FS_EmptySet
<1>3. Windowed
  BY <1>1, <1>2, ControlConstants DEF Windowed
<1>4. Recorded /\ ReservationHeld /\ Spread /\ HasRequest
  BY <1>1, <1>2 DEF Recorded, ReservationHeld, InFlight, Spread, HasRequest
<1>5. Bounded
  <2>1. Reservations = {} /\ \A t \in Nat : ReservedFrom(t) = {}
    BY <1>1 DEF Reservations, ReservedFrom
  <2>2. QED
    BY <1>2, <2>1, ControlConstants DEF Bounded
<1>6. QED
  BY <1>3, <1>4, <1>5 DEF Limits

\* Every step keeps them.
LEMMA LimitsInductive == IInv /\ Limits /\ [Next]_vars => Limits'
  BY WindowedKept, RecordedKept, HeldKept, SpreadKept, BoundedKept, HasRequestKept DEF Limits

\* As many orders as reservations: one second of reservations carries at most
\* the maximum of orders.
LEMMA WritesInSecond ==
  ASSUME Limits, NEW t \in Nat
  PROVE  LET some == {v \in writes : t <= v.reserved /\ v.reserved < t + Second}
         IN  IsFiniteSet(some) /\ Cardinality(some) \in Nat /\ Cardinality(some) <= Maximum
<1> DEFINE some == {v \in writes : t <= v.reserved /\ v.reserved < t + Second}
           f == [v \in some |-> Reservation(v)]
<1>1. IsFiniteSet(ReservedFrom(t)) /\ Cardinality(ReservedFrom(t)) <= Maximum
  BY FS_Subset DEF Limits, Bounded, ReservedFrom
<1>2. f \in [some -> ReservedFrom(t)]
  BY DEF ReservedFrom, Reservations, Reservation
<1>3. \A v, w \in some : f[v] = f[w] => v = w
  BY DEF Limits, Recorded, Reservation
<1>4. f \in Injection(some, ReservedFrom(t))
  BY <1>2, <1>3 DEF Injection, IsInjective
<1>5. IsFiniteSet(some) /\ Cardinality(some) <= Cardinality(ReservedFrom(t))
  BY <1>1, <1>4, FS_Injection
<1>6. Cardinality(some) \in Nat /\ Cardinality(ReservedFrom(t)) \in Nat
  BY <1>1, <1>5, FS_CardinalityType
<1>7. QED
  BY <1>1, <1>5, <1>6, ControlConstants

LessThan == {pair \in Nat \X Nat : pair[1] < pair[2]}

\* A set of naturals has a least element.
LEMMA Least ==
  ASSUME NEW S \in SUBSET Nat, S # {}
  PROVE  \E n \in S : \A m \in S : n <= m
<1>1. IsWellFoundedOn(LessThan, Nat)
  BY NatLessThanWellFounded DEF OpToRel, LessThan
<1>2. \E n \in S : \A m \in S : <<m, n>> \notin LessThan
  BY <1>1, WFMin
<1>3. PICK n \in S : \A m \in S : <<m, n>> \notin LessThan
  BY <1>2
<1>4. \A m \in S : ~(m < n)
  BY <1>3 DEF LessThan
<1>5. QED
  BY <1>4

\* The wire carries at most twice the maximum in a second: what is written
\* then was reserved in the second of its earliest reservation, or in this
\* one.
LEMMA WiredInSecond ==
  ASSUME Limits, NEW t \in Nat
  PROVE  LET some == {v \in writes : t <= v.written /\ v.written < t + Second}
         IN  Cardinality(some) <= 2 * Maximum
<1> DEFINE some == {v \in writes : t <= v.written /\ v.written < t + Second}
           From(s) == {v \in writes : s <= v.reserved /\ v.reserved < s + Second}
<1>1. \A v \in writes : /\ v.reserved \in Nat /\ v.written \in Nat
                        /\ v.reserved <= v.written
  BY DEF Limits, Recorded
<1>2. Maximum \in Nat /\ Second \in Nat
  BY ControlConstants
<1>3. \A s \in Nat : /\ IsFiniteSet(From(s))
                     /\ Cardinality(From(s)) \in Nat /\ Cardinality(From(s)) <= Maximum
  BY WritesInSecond
<1>4. CASE some = {}
  BY <1>2, <1>4, FS_EmptySet
<1>5. CASE some # {}
  <2> DEFINE times == {v.reserved : v \in some}
  <2>1. times \in SUBSET Nat /\ times # {}
    BY <1>1, <1>5
  <2>2. \E n \in times : \A m \in times : n <= m
    BY <2>1, Least
  <2>3. PICK first \in some : \A v \in some : first.reserved <= v.reserved
    BY <2>2
  <2>4. some \subseteq From(first.reserved) \cup From(t)
    <3> SUFFICES ASSUME NEW v \in some, ~(v.reserved < first.reserved + Second)
                 PROVE  t <= v.reserved /\ v.reserved < t + Second
      BY <2>3
    <3>1. Reservation(v) \in Reservations /\ Reservation(v)[1] = v.reserved
      BY DEF Reservations, Reservation
    <3>2. first.reserved + Second <= v.reserved
      BY <1>1, <1>2, <2>3
    <3>3. first.written <= v.reserved
      BY <2>3, <3>1, <3>2 DEF Limits, Spread
    <3>4. QED
      BY <1>1, <1>2, <2>3, <3>3
  <2>5. first.reserved \in Nat
    BY <1>1, <2>3
  <2> HIDE DEF some, From, times
  <2>6. /\ IsFiniteSet(From(first.reserved) \cup From(t))
        /\ Cardinality(From(first.reserved) \cup From(t)) =
             Cardinality(From(first.reserved)) + Cardinality(From(t))
               - Cardinality(From(first.reserved) \cap From(t))
    BY <1>3, <2>5, FS_Union
  <2>7. Cardinality(From(first.reserved) \cap From(t)) \in Nat
    BY <1>3, <2>5, FS_Subset, FS_CardinalityType
  <2>8. Cardinality(some) <= Cardinality(From(first.reserved) \cup From(t))
        /\ Cardinality(some) \in Nat
    BY <2>4, <2>6, FS_Subset, FS_CardinalityType
  <2>9. Cardinality(some) <= 2 * Maximum
    BY <1>2, <1>3, <2>5, <2>6, <2>7, <2>8
  <2>10. QED
    BY <2>9 DEF some
<1>6. QED
  BY <1>4, <1>5

\* The wire never carries more orders with reservations of one second than
\* MaxMessagesPerSecond, for any number of clients and any maximum: no
\* reservation of an order that may have been sent is given back
\* (SlidingWindowRateLimiter and its use in execute).
THEOREM AdmissionBounded == Spec => []AdmissionBound
<1>1. Limits => AdmissionBound
  <2> SUFFICES ASSUME Limits, NEW w \in writes
               PROVE  Cardinality({v \in writes :
                        v.reserved \in w.reserved..(w.reserved + Second - 1)}) <= Maximum
    BY DEF AdmissionBound
  <2>1. \A v \in writes : v.reserved \in Nat
    BY DEF Limits, Recorded
  <2>2. {v \in writes : v.reserved \in w.reserved..(w.reserved + Second - 1)}
          = {v \in writes : w.reserved <= v.reserved /\ v.reserved < w.reserved + Second}
    BY <2>1, ControlConstants
  <2>3. QED
    BY <2>1, <2>2, WritesInSecond
<1> QED
  BY <1>1, IInvInitial, IInvInductive, LimitsInitial, LimitsInductive, PTL DEF Spec

\* Nor does the wire itself carry more than twice the maximum in a second,
\* however late a slow write or a retry uses its reservation: the gate lets
\* nobody reserve meanwhile.
THEOREM WireRateBounded == Spec => []WireRateBound
<1>1. Limits => WireRateBound
  <2> SUFFICES ASSUME Limits, NEW w \in writes
               PROVE  Cardinality({v \in writes :
                        v.written \in w.written..(w.written + Second - 1)}) <= 2 * Maximum
    BY DEF WireRateBound
  <2>1. \A v \in writes : v.written \in Nat
    BY DEF Limits, Recorded
  <2>2. {v \in writes : v.written \in w.written..(w.written + Second - 1)}
          = {v \in writes : w.written <= v.written /\ v.written < w.written + Second}
    BY <2>1, ControlConstants
  <2>3. QED
    BY <2>1, <2>2, WiredInSecond
<1> QED
  BY <1>1, IInvInitial, IInvInductive, LimitsInitial, LimitsInductive, PTL DEF Spec

-----------------------------------------------------------------------------
\* The first check that fails gives its code; without one there is no error.
LEMMA FirstErrorIs ==
  ASSUME NEW checks, DOMAIN checks \in SUBSET Nat
  PROVE  \/ FirstError(checks) = "none" /\ \A i \in DOMAIN checks : ~checks[i][1]
         \/ \E i \in DOMAIN checks : checks[i][1] /\ FirstError(checks) = checks[i][2]
<1> DEFINE failing == {i \in DOMAIN checks : checks[i][1]}
<1>1. CASE failing = {}
  BY <1>1 DEF FirstError
<1>2. CASE failing # {}
  <2>1. failing \in SUBSET Nat
    OBVIOUS
  <2> DEFINE least == CHOOSE i \in failing : \A k \in failing : i <= k
  <2>2. \E i \in failing : \A k \in failing : i <= k
    BY <1>2, <2>1, Least
  <2>3. least \in failing
    BY <2>2
  <2>4. FirstError(checks) = checks[least][2]
    BY <1>2 DEF FirstError
  <2>5. QED
    BY <2>3, <2>4
<1>3. QED
  BY <1>1, <1>2

\* Every error of an envelope has one of the codes.
LEMMA EnvelopeCode ==
  ASSUME NEW r
  PROVE  EnvelopeError(r) \in Codes
<1> DEFINE checks == <<
  <<r.version # 1, "SCHEMA_VERSION_UNSUPPORTED">>,
  <<r.profile # Profile, "PROFILE_NOT_FOUND">>,
  <<~r.legal_id, "INVALID_REQUEST">>,
  <<r.mode = "live", "LIVE_GUARD_NOT_ARMED">>,
  <<r.mode = "certification" /\ RuntimeMode # "certification", "POLICY_DENIED">> >>
<1>1. DOMAIN checks = 1..5
  OBVIOUS
<1>2. EnvelopeError(r) = FirstError(checks)
  BY DEF EnvelopeError
<1>3. \A i \in 1..5 : checks[i][2] \in Codes \ {"none"}
  BY DEF Codes
<1> HIDE DEF checks
<1>5. DOMAIN checks \in SUBSET Nat
  BY <1>1
<1>6. \/ FirstError(checks) = "none" /\ \A i \in DOMAIN checks : ~checks[i][1]
      \/ \E i \in DOMAIN checks : checks[i][1] /\ FirstError(checks) = checks[i][2]
  BY <1>5, FirstErrorIs
<1>7. CASE FirstError(checks) = "none"
  BY <1>2, <1>7 DEF Codes
<1>8. CASE \E i \in 1..5 : FirstError(checks) = checks[i][2]
  BY <1>2, <1>3, <1>8
<1>9. QED
  BY <1>1, <1>6, <1>7, <1>8

\* So has every error of an order; without one its amounts are within bounds.
LEMMA OrderCode ==
  ASSUME NEW o
  PROVE  /\ OrderError(o) \in Codes
         /\ OrderError(o) = "none" =>
              /\ ~(o.quantity <= 0) /\ ~(o.quantity > MaxQuantity)
              /\ ~(o.price # NoPrice /\ o.price <= 0)
              /\ ~(o.price = NoPrice /\ o.order_type = "limit")
              /\ ~(o.quantity * o.price > MaxNotional)
<1> DEFINE checks == <<
  <<o.quantity <= 0, "INVALID_REQUEST">>,
  <<o.quantity > MaxQuantity, "POLICY_DENIED">>,
  <<o.price # NoPrice /\ o.price <= 0, "INVALID_REQUEST">>,
  <<o.price = NoPrice /\ o.order_type = "limit", "INVALID_REQUEST">>,
  <<o.quantity * o.price > MaxDecimal, "INVALID_REQUEST">>,
  <<o.quantity * o.price > MaxNotional, "POLICY_DENIED">> >>
<1>1. DOMAIN checks = 1..6
  OBVIOUS
<1>2. OrderError(o) = FirstError(checks)
  BY DEF OrderError
<1>3. \A i \in 1..6 : checks[i][2] \in Codes \ {"none"}
  BY DEF Codes
<1>4. /\ o.quantity <= 0 => checks[1][1]
      /\ o.quantity > MaxQuantity => checks[2][1]
      /\ (o.price # NoPrice /\ o.price <= 0) => checks[3][1]
      /\ (o.price = NoPrice /\ o.order_type = "limit") => checks[4][1]
      /\ o.quantity * o.price > MaxNotional => checks[6][1]
  OBVIOUS
<1> HIDE DEF checks
<1>5. DOMAIN checks \in SUBSET Nat
  BY <1>1
<1>6. \/ FirstError(checks) = "none" /\ \A i \in DOMAIN checks : ~checks[i][1]
      \/ \E i \in DOMAIN checks : checks[i][1] /\ FirstError(checks) = checks[i][2]
  BY <1>5, FirstErrorIs
<1>7. CASE FirstError(checks) = "none" /\ \A i \in 1..6 : ~checks[i][1]
  BY <1>2, <1>4, <1>7 DEF Codes
<1>8. CASE \E i \in 1..6 : FirstError(checks) = checks[i][2]
  BY <1>2, <1>3, <1>8
<1>9. QED
  BY <1>1, <1>6, <1>7, <1>8

\* A command with one check of its own.
LEMMA SingleCode ==
  ASSUME NEW condition
  PROVE  FirstError(<< <<condition, "INVALID_REQUEST">> >>) \in {"none", "INVALID_REQUEST"}
<1> DEFINE checks == << <<condition, "INVALID_REQUEST">> >>
<1>1. DOMAIN checks = 1..1
  OBVIOUS
<1>2. \A i \in 1..1 : checks[i][2] = "INVALID_REQUEST"
  OBVIOUS
<1>3. FirstError(checks) \in {"none", "INVALID_REQUEST"}
  <2> HIDE DEF checks
  <2>1. DOMAIN checks \in SUBSET Nat
    BY <1>1
  <2>2. \/ FirstError(checks) = "none"
        \/ \E i \in DOMAIN checks : FirstError(checks) = checks[i][2]
    BY <2>1, FirstErrorIs
  <2>3. QED
    BY <1>1, <1>2, <2>2
<1>4. QED
  BY <1>3

\* Whatever the command, only an order without an error is planned.
LEMMA CommandCode ==
  ASSUME NEW r
  PROVE  /\ CommandError(r) \in Codes
         /\ CommandError(r) = "none" /\ IsOrder(r.command) => OrderError(r.command) = "none"
<1>1. OrderError(r.command) \in Codes
  BY OrderCode
<1>2. \A condition : FirstError(<< <<condition, "INVALID_REQUEST">> >>) \in Codes
  BY SingleCode DEF Codes
<1>3. CASE r.command.type = "new_order_single"
  <2>1. CommandError(r) = IF OrderError(r.command) # "none" THEN OrderError(r.command)
          ELSE FirstError(<< <<r.command.extra_tags \cap PlannerTags # {}, "INVALID_REQUEST">> >>)
    BY <1>3 DEF CommandError
  <2>2. QED
    BY <1>1, <1>2, <2>1
<1>4. CASE r.command.type = "replace_order"
  <2>1. CommandError(r) = OrderError(r.command)
    BY <1>4 DEF CommandError
  <2>2. QED
    BY <1>1, <2>1
<1>5. CASE ~IsOrder(r.command)
  <2>1. CommandError(r) \in Codes
    <3>1. CASE r.command.type = "session_logout"
      BY <1>2, <3>1 DEF CommandError
    <3>2. CASE r.command.type = "cancel_order"
      BY <1>2, <3>2 DEF CommandError
    <3>3. CASE r.command.type \notin {"session_logout", "cancel_order"}
      <4>1. CommandError(r) = "none"
        BY <1>5, <3>3 DEF CommandError, IsOrder
      <4>2. QED
        BY <4>1 DEF Codes
    <3>4. QED
      BY <3>1, <3>2, <3>3
  <2>2. QED
    BY <1>5, <2>1
<1>6. QED
  BY <1>3, <1>4, <1>5 DEF IsOrder

\* What is planned is within the policy.
LEMMA PlanCode ==
  ASSUME NEW r
  PROVE  /\ PlanError(r) \in Codes
         /\ PlanError(r) = "none" /\ IsOrder(r.command) => OrderError(r.command) = "none"
<1>1. EnvelopeError(r) \in Codes
  BY EnvelopeCode
<1>2. QED
  BY <1>1, CommandCode DEF PlanError

-----------------------------------------------------------------------------
\* Whoever is at the gate asks for something the policy allows.
AtGate(c) ==
  \/ at[c] \in {"queued", "looking up"}
  \/ at[c] \in {"calling", "waiting", "replied"} /\ IsApp(c)

Allowed(r) == r.mode = "certification" /\ IsApplication(r.command) /\ Permits(r.command)

OrdersAllowed == \A c \in Clients : AtGate(c) => Allowed(doing[c])

\* And so does what is journaled, and what is on the wire is that.
JournalAllowed ==
  \A id \in DOMAIN journal : journal[id][1] = "certification" /\ Permits(journal[id][2])

WritesJournaled ==
  \A w \in writes : ~IsNew(w.id) /\ journal[w.id][2] = w.command

\* The directory, and who holds which session.
Placed ==
  /\ watched \in {0, latest} /\ slot \in {0, watched}
  /\ \A c \in Clients : handle[c] \in 0..latest

Coded == answer \in [Clients -> Codes]

KnownIds == DOMAIN journal \subseteq Ids

Rest == OrdersAllowed /\ JournalAllowed /\ WritesJournaled /\ Placed /\ Coded /\ KnownIds

\* Only what is planned is queued at the gate.
LEMMA AllowedKept ==
  ASSUME IInv, OrdersAllowed, [Next]_vars
  PROVE  OrdersAllowed'
<1> USE DEF IInv, Base
<1>1. ASSUME NEW d \in Clients, doing'[d] = doing[d], AtGate(d)' => AtGate(d)
      PROVE  AtGate(d)' => Allowed(doing[d])'
  BY <1>1 DEF OrdersAllowed, Allowed
<1>2. ASSUME NEW c \in Clients, NEW r \in Requests, Execute(c, r)
      PROVE  AtGate(c)' => Allowed(doing[c])'
  <2>1. doing'[c] = r
    BY <1>2 DEF Execute, Typed
  <2>2. CASE /\ PlanError(r) = "none" /\ IsApplication(r.command)
             /\ r.mode = "certification"
    <3>1. IsOrder(r.command) => r.command.quantity \in Int /\ r.command.price \in Int
      BY OrderAmounts
    <3>2. IsOrder(r.command) => r.command.quantity * r.command.price \in Int
      BY <3>1
    <3>3. IsOrder(r.command) => OrderError(r.command) = "none"
      BY <2>2, PlanCode
    <3>4. Permits(r.command)
      BY <3>1, <3>2, <3>3, OrderCode, PolicyConstants DEF Permits
    <3>5. QED
      BY <2>1, <2>2, <3>4 DEF Allowed
  <2>3. CASE at'[c] = "answering"
    BY <2>3 DEF AtGate
  <2>4. CASE at'[c] = "calling" /\ ~IsApplication(r.command)
    BY <2>1, <2>4 DEF AtGate, IsApp
  <2>5. QED
    BY <1>2, <2>2, <2>3, <2>4 DEF Execute, IsTold, Goes, Typed
<1>3. ASSUME NEW c \in Clients, GoesOn(c)
      PROVE  AtGate(c)' => Allowed(doing[c])'
  <2>1. CASE Respond(c)
    BY <2>1 DEF Respond, Goes, AtGate, Typed
  <2>2. CASE EnterGate(c) \/ LookUp(c)
    <3>1. AtGate(c) /\ UNCHANGED doing
      BY <2>2 DEF EnterGate, LookUp, AtGate
    <3>2. QED
      BY <1>1, <3>1
  <2>3. CASE Call(c)
    <3>1. at[c] = "calling" /\ at'[c] = "waiting" /\ UNCHANGED doing
      BY <2>3 DEF Call, Goes, Typed
    <3>2. AtGate(c)' => AtGate(c)
      BY <3>1 DEF AtGate, IsApp
    <3>3. QED
      BY <1>1, <3>1, <3>2
  <2>4. CASE Resume(c)
    BY <2>4 DEF Resume, IsTold, Goes, AtGate, Typed
  <2>5. QED
    BY <1>3, <2>1, <2>2, <2>3, <2>4 DEF GoesOn
<1>4. ASSUME NEW c \in Clients, GoesOn(c) \/ \E r \in Requests : Execute(c, r)
      PROVE  OrdersAllowed'
  <2>1. \A d \in Clients : d # c /\ AtGate(d)' => Allowed(doing[d])'
    <3>1. \A d \in Clients : d # c => SameFor(d)
      BY <1>4, ClientSteps
    <3>2. QED
      BY <1>1, <3>1 DEF SameFor, AtGate, IsApp
  <2>2. QED
    BY <1>2, <1>3, <1>4, <2>1 DEF OrdersAllowed
<1>5. ASSUME NEW g \in Sessions, NEW c \in Clients,
             \/ ServeStatus(g, c) \/ ServeLogout(g, c) \/ ServeOrder(g, c)
             \/ OrderWritten(g, c) \/ OrderFails(g, c)
      PROVE  OrdersAllowed'
  <2>1. /\ Answered(g, c) \/ AnsweredLast(g, c) \/ Begun(g, c)
        /\ UNCHANGED doing
    BY <1>5, SessionServes
  <2>2. at[c] = "waiting"
    BY <2>1, HeadWaits DEF Answered, AnsweredLast, Begun, HasHead
  <2>3. UNCHANGED at \/ at' = [at EXCEPT ![c] = "replied"]
    BY <2>1 DEF Answered, AnsweredLast, Begun, IsReplied, Goes
  <2>4. \A d \in Clients : AtGate(d)' => AtGate(d)
    BY <2>1, <2>2, <2>3 DEF AtGate, IsApp, Typed
  <2>5. QED
    BY <1>1, <2>1, <2>4 DEF OrdersAllowed
<1>6. CASE Elsewhere \/ Tick \/ UNCHANGED vars
  <2>1. UNCHANGED <<at, doing>>
    BY <1>6, SessionAlone DEF Tick, vars, clients
  <2>2. QED
    BY <2>1 DEF OrdersAllowed, AtGate, IsApp, Allowed
<1>7. QED
  BY <1>4, <1>5, <1>6 DEF Next, Serves, Writing

\* What a session journals was allowed at the gate.
LEMMA JournalAllowedKept ==
  ASSUME IInv, Rest, [Next]_vars
  PROVE  JournalAllowed'
<1> USE DEF IInv, Base
<1>1. CASE UNCHANGED journal
  BY <1>1 DEF Rest, JournalAllowed
<1>2. ASSUME NEW g \in Sessions, NEW c \in Clients,
             \/ ServeStatus(g, c) \/ ServeLogout(g, c) \/ ServeOrder(g, c)
             \/ OrderWritten(g, c) \/ OrderFails(g, c)
      PROVE  JournalAllowed'
  <2>1. UNCHANGED journal \/ (Begun(g, c) /\ Journals(c))
    BY <1>2, ServeOutcomes
  <2>2. CASE Begun(g, c) /\ Journals(c)
    <3>1. at[c] = "waiting" /\ IsApp(c)
      BY <2>2, HeadWaits DEF Begun, HasHead, Journals
    <3>2. Allowed(doing[c])
      BY <3>1 DEF AtGate, Rest, OrdersAllowed
    <3>3. Fingerprint(doing[c])[1] = "certification" /\ Permits(Fingerprint(doing[c])[2])
      BY <3>2 DEF Fingerprint, Allowed
    <3>4. \A id \in DOMAIN journal' :
            journal'[id] = IF id = Id(c) THEN Fingerprint(doing[c]) ELSE journal[id]
      BY <2>2 DEF Journals
    <3>5. DOMAIN journal' = DOMAIN journal \cup {Id(c)}
      BY <2>2 DEF Journals
    <3>6. QED
      BY <3>3, <3>4, <3>5 DEF Rest, JournalAllowed
  <2>3. QED
    BY <1>1, <2>1, <2>2
<1>3. ASSUME NEW c \in Clients, GoesOn(c) \/ \E r \in Requests : Execute(c, r)
      PROVE  JournalAllowed'
  BY <1>1, <1>3, ClientSteps
<1>4. CASE Elsewhere \/ Tick \/ UNCHANGED vars
  BY <1>1, <1>4, SessionAlone DEF Tick, vars
<1>5. QED
  BY <1>2, <1>3, <1>4 DEF Next, Serves, Writing

\* What is written is what was journaled, and the journal keeps saying so.
LEMMA WritesJournaledKept ==
  ASSUME IInv, Limits, Rest, [Next]_vars
  PROVE  WritesJournaled'
<1>1. CASE UNCHANGED writes /\ JournalStands
  BY <1>1 DEF Rest, WritesJournaled, JournalStands, IsNew
<1>2. CASE UNCHANGED <<writes, journal>>
  BY <1>2 DEF Rest, WritesJournaled, IsNew
<1>3. ASSUME NEW c \in Clients, Records(c)
      PROVE  WritesJournaled'
  <2>1. UNCHANGED journal /\ ~IsNew(Id(c)) /\ journal[Id(c)] = Fingerprint(doing[c])
    BY <1>3 DEF Records
  <2>2. journal[Id(c)][2] = doing[c].command
    BY <2>1 DEF Fingerprint
  <2>3. PICK x : x = [id |-> Id(c), command |-> doing[c].command,
                      reserved |-> Reserved(Id(c)), written |-> now]
    OBVIOUS
  <2>4. writes' = writes \cup {x} /\ x.id = Id(c) /\ x.command = doing[c].command
    BY <1>3, <2>3 DEF Records, Writes
  <2>5. QED
    BY <2>1, <2>2, <2>4 DEF Rest, WritesJournaled, IsNew
<1>4. QED
  BY <1>1, <1>2, <1>3, StepLimits DEF Limits, Calm, Reserves, Slides, Frees

\* A task takes the session of the slot, or drops what it has; what a session
\* answers has a code; and only the manager moves the directory.
LEMMA PlacedKept ==
  ASSUME IInv, Placed, [Next]_vars
  PROVE  Placed'
<1> USE DEF IInv, Base
<1>1. latest \in Nat
  BY ControlConstants DEF Typed
<1>2. CASE UNCHANGED <<latest, watched, slot, handle>>
  BY <1>2 DEF Placed
<1>3. ASSUME NEW c \in Clients, Directory!Takes(c) \/ Directory!Drops(c)
      PROVE  Placed'
  BY <1>1, <1>3 DEF Placed, Typed, Directory!Takes, Directory!Drops, Directory!directory
<1>4. ASSUME NEW c \in Clients, GoesOn(c) \/ \E r \in Requests : Execute(c, r)
      PROVE  Placed'
  <2>1. \/ Directory!Takes(c) \/ Directory!Drops(c)
        \/ UNCHANGED <<latest, watched, slot, handle>>
    BY <1>4 DEF GoesOn, Execute, EnterGate, LookUp, Call, Resume, Respond, sessions,
         Directory!Calls, Directory!directory
  <2>2. QED
    BY <1>2, <1>3, <2>1
<1>5. ASSUME NEW g \in Sessions, Serves(g) \/ Writing(g)
      PROVE  Placed'
  BY <1>2, <1>5, SessionServes DEF Serves, Writing
<1>6. CASE Elsewhere
  <2>1. CASE Directory!Start
    <3>1. /\ watched = 0 /\ latest' = latest + 1 /\ watched' = latest + 1
          /\ UNCHANGED <<slot, handle>>
      BY <2>1 DEF Directory!Start
    <3>2. QED
      BY <1>1, <3>1 DEF Placed
  <2>2. CASE Directory!Publish \/ Directory!Retire
    BY <2>2 DEF Placed, Directory!Publish, Directory!Retire
  <2>3. CASE \E g \in Sessions :
               \/ \E stage \in Directory!Stages : Directory!ChangesStage(g, stage)
               \/ Directory!Stops(g) \/ Directory!Abandoned(g)
    BY <1>2, <2>3
    DEF Directory!ChangesStage, Directory!Stops, Directory!Abandoned, Directory!directory
  <2>4. QED
    BY <1>6, <2>1, <2>2, <2>3 DEF Elsewhere
<1>7. CASE Tick \/ UNCHANGED vars
  BY <1>2, <1>7 DEF Tick, vars, sessions
<1>8. QED
  BY <1>4, <1>5, <1>6, <1>7 DEF Next

\* Every answer has one of the codes.
LEMMA CodedKept ==
  ASSUME IInv, Coded, [Next]_vars
  PROVE  Coded'
<1> USE DEF IInv, Base
<1>1. CASE UNCHANGED answer
  BY <1>1 DEF Coded
<1>2. ASSUME NEW c \in Clients, NEW code \in Codes, answer' = [answer EXCEPT ![c] = code]
      PROVE  Coded'
  BY <1>2 DEF Coded
<1>3. ASSUME NEW c \in Clients, NEW code \in Codes, IsTold(c, code) \/ Replies(c, code)
      PROVE  Coded'
  BY <1>2, <1>3 DEF IsTold, Replies
<1>4. ASSUME NEW c \in Clients, NEW r \in Requests, Execute(c, r)
      PROVE  Coded'
  BY <1>1, <1>3, <1>4, PlanCode DEF Execute, Codes
<1>5. ASSUME NEW c \in Clients, GoesOn(c)
      PROVE  Coded'
  <2>1. CASE EnterGate(c) \/ Call(c)
    BY <1>1, <2>1 DEF EnterGate, Call
  <2>2. CASE LookUp(c)
    BY <1>1, <1>3, <2>2 DEF LookUp, Codes
  <2>3. CASE Resume(c)
    <3>1. answer[c] \in Codes /\ "SESSION_NOT_ESTABLISHED" \in Codes
      BY DEF Coded, Codes
    <3>2. QED
      BY <1>3, <2>3, <3>1 DEF Resume
  <2>4. CASE Respond(c)
    BY <1>2, <2>4 DEF Respond, Codes
  <2>5. QED
    BY <1>5, <2>1, <2>2, <2>3, <2>4 DEF GoesOn
<1>6. ASSUME NEW g \in Sessions, NEW c \in Clients,
             \/ ServeStatus(g, c) \/ ServeLogout(g, c) \/ ServeOrder(g, c)
             \/ OrderWritten(g, c) \/ OrderFails(g, c)
      PROVE  Coded'
  <2>1. CASE ServeOrder(g, c)
    BY <1>1, <1>3, <2>1 DEF ServeOrder, clients, Codes
  <2>2. CASE ~ServeOrder(g, c)
    BY <1>3, <1>6, <2>2 DEF ServeStatus, ServeLogout, OrderWritten, OrderFails, Codes
  <2>3. QED
    BY <2>1, <2>2
<1>7. CASE Elsewhere \/ Tick \/ UNCHANGED vars
  BY <1>1, <1>7, SessionAlone DEF Tick, vars, clients
<1>8. QED
  BY <1>4, <1>5, <1>6, <1>7 DEF Next, Serves, Writing

\* The journal holds ids that were asked for.
LEMMA KnownKept ==
  ASSUME IInv, HasRequest, KnownIds, [Next]_vars
  PROVE  KnownIds'
<1> USE DEF IInv, Base
<1>1. CASE UNCHANGED journal
  BY <1>1 DEF KnownIds
<1>2. ASSUME NEW g \in Sessions, NEW c \in Clients,
             \/ ServeStatus(g, c) \/ ServeLogout(g, c) \/ ServeOrder(g, c)
             \/ OrderWritten(g, c) \/ OrderFails(g, c)
      PROVE  KnownIds'
  <2>1. UNCHANGED journal \/ (Begun(g, c) /\ Journals(c))
    BY <1>2, ServeOutcomes
  <2>2. CASE Begun(g, c) /\ Journals(c)
    <3>1. at[c] = "waiting"
      BY <2>2, HeadWaits DEF Begun, HasHead
    <3>2. Id(c) \in Ids
      BY <3>1 DEF HasRequest, Id, Ids
    <3>3. DOMAIN journal' = DOMAIN journal \cup {Id(c)}
      BY <2>2 DEF Journals
    <3>4. QED
      BY <3>2, <3>3 DEF KnownIds
  <2>3. QED
    BY <1>1, <2>1, <2>2
<1>3. ASSUME NEW c \in Clients, GoesOn(c) \/ \E r \in Requests : Execute(c, r)
      PROVE  KnownIds'
  BY <1>1, <1>3, ClientSteps
<1>4. CASE Elsewhere \/ Tick \/ UNCHANGED vars
  BY <1>1, <1>4, SessionAlone DEF Tick, vars
<1>5. QED
  BY <1>2, <1>3, <1>4 DEF Next, Serves, Writing

\* The rest holds at the start,
LEMMA RestInitial == Init => Rest
<1> SUFFICES ASSUME Init PROVE Rest
  OBVIOUS
<1>1. /\ latest = 0 /\ watched = 0 /\ slot = 0
      /\ handle = [c \in Clients |-> 0] /\ at = [c \in Clients |-> "idle"]
      /\ answer = [c \in Clients |-> "none"]
      /\ writes = {} /\ DOMAIN journal = {}
  BY DEF Init, Directory!Init
<1>2. OrdersAllowed /\ JournalAllowed /\ WritesJournaled
  BY <1>1 DEF OrdersAllowed, AtGate, JournalAllowed, WritesJournaled
<1>3. Placed /\ Coded /\ KnownIds
  BY <1>1 DEF Placed, Coded, Codes, KnownIds
<1>4. QED
  BY <1>2, <1>3 DEF Rest

\* and every step keeps it.
LEMMA RestInductive == IInv /\ Limits /\ Rest /\ [Next]_vars => Rest'
  BY AllowedKept, JournalAllowedKept, WritesJournaledKept, PlacedKept, CodedKept, KnownKept DEF Rest, Limits

\* Every order in the journal was asked for in certification mode, is of a
\* positive quantity up to the maximum and, unless it is a market order without
\* a price, of a notional up to the maximum; and the wire has what the journal
\* has.  For any policy and any requests whose amounts are integers
\* (CommandPlanner and the modes of execute).
THEOREM WithinPolicy == Spec => []OrdersWithinPolicy
<1>1. Rest => OrdersWithinPolicy
  BY DEF Rest, JournalAllowed, WritesJournaled, IsNew, OrdersWithinPolicy
<1> QED
  BY <1>1, IInvInitial, IInvInductive, LimitsInitial, LimitsInductive,
     RestInitial, RestInductive, PTL DEF Spec

\* Everything keeps its type: the window holds at most its maximum and no
\* request id twice, its two structures agree, and no client holds a session
\* that was never started.
THEOREM TypesHold == Spec => []ControlTypeOK
<1>1. IInv /\ Limits /\ Rest => ControlTypeOK
  <2> SUFFICES ASSUME IInv, Limits, Rest PROVE ControlTypeOK
    OBVIOUS
  <2> USE DEF IInv, Base, Limits, Rest
  <2>1. watched \in {0, latest} /\ slot \in {0, watched} /\ handle \in [Clients -> 0..latest]
    BY DEF Placed, Typed
  <2>2. session \in [Sessions -> [stage : Directory!Stages, alive : BOOLEAN,
                                 mail : Seq(Clients), writing : BOOLEAN]]
    BY DEF Typed, SessionRecords, Directory!Stages
  <2>3. /\ at \in [Clients -> {"idle", "queued", "looking up", "calling", "waiting",
                               "replied", "answering"}]
        /\ doing \in [Clients -> Requests \cup {NoRequest}]
        /\ gate \in Seq(Clients)
    BY DEF Typed, Places
  <2>4. /\ accepted \subseteq (0..now) \X Ids /\ Cardinality(accepted) <= Maximum
        /\ request_ids = {entry[2] : entry \in accepted}
    BY DEF Windowed
  <2>5. Cardinality(request_ids) = Cardinality(accepted)
    <3> DEFINE f == [entry \in accepted |-> entry[2]]
    <3>1. f \in Surjection(accepted, request_ids) /\ f \in Injection(accepted, request_ids)
      BY DEF Windowed, Surjection, Injection, IsInjective
    <3>2. IsFiniteSet(accepted)
      BY DEF Windowed
    <3>3. IsFiniteSet(request_ids)
      BY <3>1, <3>2, FS_Surjection
    <3>4. QED
      BY <3>1, <3>3, FS_Injection
  <2>6. answer \in [Clients -> Codes] /\ DOMAIN journal \subseteq Ids
    BY DEF Coded, KnownIds
  <2>7. QED
    BY <2>1, <2>2, <2>3, <2>4, <2>5, <2>6 DEF ControlTypeOK
<1> QED
  BY <1>1, IInvInitial, IInvInductive, LimitsInitial, LimitsInductive,
     RestInitial, RestInductive, PTL DEF Spec
=============================================================================
