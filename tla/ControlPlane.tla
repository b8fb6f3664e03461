---------------------------- MODULE ControlPlane ----------------------------
(***************************************************************************)
(* ControlService::execute of fix-control for the clients of fixd's accept *)
(* loop, over the sessions of SessionDirectory.                            *)
(*                                                                         *)
(* Every client task runs one request at a time.  An application command   *)
(* goes through application_gate (a fair lock: its queue is gate, the head *)
(* holds it), looks its request id up in the journal, reserves a place in  *)
(* the sliding window and sits in the mailbox of the session it read from  *)
(* the slot before the lookup; that session may by then have ended, or     *)
(* have been replaced.                                                     *)
(*                                                                         *)
(* Abstractions: of the journal only the fingerprint of each request id    *)
(* (FixStore has the rest); time is a clock of Second steps a second, up   *)
(* to MaxTime; the store answers or fails at any time.  The queue accepted *)
(* of the limiter is a set: the gate lets one caller in at a time, so the  *)
(* queue is in the order of the clock, and what is popped off its front is *)
(* what has left the window.  A frame that is not read or written in its 5 *)
(* seconds closes the connection, which a client does by going back to     *)
(* idle.                                                                   *)
(*                                                                         *)
(* A definition marked Mutant is a faulty variant of the one after it.     *)
(***************************************************************************)
EXTENDS CommandPlanner, FiniteSets, Sequences

CONSTANTS
  Clients, MaxSessions,  \* as in SessionDirectory
  Requests,    \* what clients may ask
  NoRequest,   \* no request
  Maximum,     \* MaxMessagesPerSecond
  Second,      \* steps of the clock in a second
  MaxTime      \* bound: where the clock stops

ASSUME ControlConstants ==
  /\ MaxSessions \in Nat \ {0}
  /\ NoRequest \notin Requests
  /\ Maximum \in Nat /\ Second \in Nat \ {0} /\ MaxTime \in Nat

\* What an order asks for is numbers.
ASSUME OrderAmounts ==
  \A r \in Requests : IsOrder(r.command) =>
    r.command.quantity \in Int /\ r.command.price \in Int

VARIABLES
  latest, watched, slot, session, handle, \* SessionDirectory
  at,           \* where the task of a client is
  doing,        \* the request it executes
  answer,       \* what it was told
  gate,         \* application_gate: the holder and those waiting for it
  accepted,     \* RateLimitState.accepted: a set of <<time, request id>>
  request_ids,  \* RateLimitState.request_ids
  now,          \* Instant::now
  journal,      \* the commands table: request id -> fingerprint
  writes        \* history: orders written, with their reservation

sessions == <<latest, watched, slot, session, handle>>
clients == <<at, doing, answer>>
limiter == <<accepted, request_ids>>
vars == <<sessions, clients, gate, limiter, now, journal, writes>>

Directory == INSTANCE SessionDirectory

Sessions == Directory!Sessions

IsNew(id) == id \notin DOMAIN journal
Id(c) == doing[c].id

(***************************************************************************)
(* SlidingWindowRateLimiter.                                               *)
(***************************************************************************)
\* Mutant: an entry that leaves the window keeps its request id.
IdsAfterExpiryKept(kept) == request_ids

IsCurrent(entry) == now - entry[1] < Second

\* What is left of the window.
Kept == {entry \in accepted : IsCurrent(entry)}
IdsAfterExpiry(kept) == request_ids \ {entry[2] : entry \in accepted \ kept}

\* Mutant: the window may hold one entry more.
AcquiresOneMore(id) ==
  LET ids == IdsAfterExpiry(Kept)
  IN  /\ id \in ids \/ Cardinality(Kept) <= Maximum
      /\ accepted' = IF id \in ids THEN Kept ELSE Kept \cup {<<now, id>>}
      /\ request_ids' = ids \cup {id}

\* try_acquire: the window moves on in any case; a request id that is in it
\* already is accepted without a second entry.
Acquires(id) ==
  LET ids == IdsAfterExpiry(Kept)
  IN  /\ id \in ids \/ Cardinality(Kept) < Maximum
      /\ accepted' = IF id \in ids THEN Kept ELSE Kept \cup {<<now, id>>}
      /\ request_ids' = ids \cup {id}

IsLimited(id) ==
  LET ids == IdsAfterExpiry(Kept)
  IN  /\ id \notin ids /\ Cardinality(Kept) >= Maximum
      /\ accepted' = Kept
      /\ request_ids' = ids

\* release.
Releases(id) ==
  /\ accepted' = {entry \in accepted : entry[2] # id}
  /\ request_ids' = request_ids \ {id}

\* When the reservation under this id was made.
Reserved(id) ==
  IF \E entry \in accepted : entry[2] = id
  THEN (CHOOSE entry \in accepted : entry[2] = id)[1]
  ELSE now

(***************************************************************************)
(* A client task.                                                          *)
(***************************************************************************)
Goes(c, where) == at' = [at EXCEPT ![c] = where]

IsTold(c, code) ==
  /\ Goes(c, "answering")
  /\ answer' = [answer EXCEPT ![c] = code]

\* Read a request, plan it, and do what needs neither gate nor session.
Execute(c, r) ==
  /\ at[c] = "idle"
  /\ doing' = [doing EXCEPT ![c] = r]
  /\ LET planned == PlanError(r) = "none"
         application == planned /\ IsApplication(r.command)
         session_command == planned /\ ~IsApplication(r.command)
     IN  \/ /\ \/ ~planned /\ IsTold(c, PlanError(r))
               \/ /\ session_command /\ slot = 0
                  /\ IsTold(c, IF r.command.type = "session_status"
                                  THEN "ok" ELSE "SESSION_NOT_ESTABLISHED")
               \/ application /\ r.mode = "dry_run" /\ IsTold(c, "ok")
               \/ application /\ r.mode = "inspect" /\ IsTold(c, "INVALID_REQUEST")
            /\ UNCHANGED <<sessions, gate>>
         \/ /\ session_command /\ slot # 0
            /\ Directory!Takes(c) /\ Goes(c, "calling")
            /\ UNCHANGED <<answer, gate>>
         \/ /\ application /\ r.mode = "certification"
            /\ gate' = Append(gate, c) /\ Goes(c, "queued")
            /\ UNCHANGED <<sessions, answer>>
  /\ UNCHANGED <<limiter, now, journal, writes>>

\* Mutant: nobody waits for the gate.
EnterGateAnyway(c) ==
  /\ at[c] = "queued"
  /\ Goes(c, "looking up")
  /\ Directory!Takes(c)
  /\ UNCHANGED <<doing, answer, gate, limiter, now, journal, writes>>

\* The gate is free, and the slot is read.
EnterGate(c) ==
  /\ at[c] = "queued" /\ gate # <<>> /\ Head(gate) = c
  /\ Goes(c, "looking up")
  /\ Directory!Takes(c)
  /\ UNCHANGED <<doing, answer, gate, limiter, now, journal, writes>>

\* The holder of the gate, the head, lets the next one in.
LeavesGate == gate' = Tail(gate)

\* Mutant: a session that has gone is noticed before the lookup.
LookUpLate(c) ==
  /\ at[c] = "looking up"
  /\ LET usable == handle[c] # 0 => session[handle[c]].alive
     IN  \/ /\ handle[c] = 0 \/ ~usable
            /\ IsTold(c, "SESSION_NOT_ESTABLISHED")
            /\ LeavesGate /\ Directory!Drops(c) /\ UNCHANGED limiter
         \/ /\ handle[c] # 0 /\ usable
            /\ Acquires(Id(c)) /\ Goes(c, "calling") /\ UNCHANGED <<answer, gate, sessions>>
  /\ UNCHANGED <<doing, now, journal, writes>>

\* lookup_persisted_command is answered: the request is known, or there is no
\* session for it, or it gets no reservation, or it may be submitted.
LookUp(c) ==
  /\ at[c] = "looking up"
  /\ LET id == Id(c)
         known == ~IsNew(id)
     IN  \/ /\ \/ IsTold(c, "STORE_UNAVAILABLE") /\ UNCHANGED limiter
               \/ /\ known /\ journal[id] = Fingerprint(doing[c])
                  /\ IsTold(c, "ok") /\ UNCHANGED limiter
               \/ /\ known /\ journal[id] # Fingerprint(doing[c])
                  /\ IsTold(c, "IDEMPOTENCY_CONFLICT") /\ UNCHANGED limiter
               \/ /\ ~known /\ handle[c] = 0
                  /\ IsTold(c, "SESSION_NOT_ESTABLISHED") /\ UNCHANGED limiter
               \/ /\ ~known /\ handle[c] # 0
                  /\ IsLimited(id) /\ IsTold(c, "RATE_LIMITED")
            /\ LeavesGate /\ Directory!Drops(c)
         \/ /\ ~known /\ handle[c] # 0
            /\ Acquires(id) /\ Goes(c, "calling")
            /\ UNCHANGED <<answer, gate, sessions>>
  /\ UNCHANGED <<doing, now, journal, writes>>

\* The command goes into the mailbox of the session.
Call(c) ==
  /\ at[c] = "calling"
  /\ Directory!Calls(c)
  /\ Goes(c, "waiting")
  /\ UNCHANGED <<doing, answer, gate, limiter, now, journal, writes>>

\* Mutant: every error gives the reservation back.
GivesBackAny(code) == code # "ok"

\* ActorStopped and NotEstablished say that nothing was sent.
GivesBack(code) == code = "SESSION_NOT_ESTABLISHED"

\* Mutant: only an answer is waited for.
ResumeIfAnswered(c) ==
  /\ at[c] = "replied"
  /\ IsTold(c, answer[c])
  /\ IF IsApplication(doing[c].command) THEN LeavesGate ELSE UNCHANGED gate
  /\ Directory!Drops(c)
  /\ UNCHANGED <<doing, limiter, now, journal, writes>>

\* The session answered, or it has stopped and dropped the command: execute
\* returns, and an application command leaves the gate.
Resume(c) ==
  /\ \/ at[c] = "replied"
     \/ at[c] \in {"calling", "waiting"} /\ ~session[handle[c]].alive
  /\ LET code == IF at[c] = "replied" THEN answer[c] ELSE "SESSION_NOT_ESTABLISHED"
     IN  /\ IsTold(c, code)
         /\ IF IsApplication(doing[c].command)
            THEN /\ LeavesGate
                 /\ IF GivesBack(code) THEN Releases(Id(c)) ELSE UNCHANGED limiter
            ELSE UNCHANGED <<gate, limiter>>
  /\ Directory!Drops(c)
  /\ UNCHANGED <<doing, now, journal, writes>>

\* The answer is written, or its deadline passes.
Respond(c) ==
  /\ at[c] = "answering"
  /\ Goes(c, "idle")
  /\ doing' = [doing EXCEPT ![c] = NoRequest]
  /\ answer' = [answer EXCEPT ![c] = "none"]
  /\ UNCHANGED <<sessions, gate, limiter, now, journal, writes>>

(***************************************************************************)
(* The session's answers (handle_command).                                 *)
(***************************************************************************)
Replies(c, code) ==
  /\ Goes(c, "replied")
  /\ answer' = [answer EXCEPT ![c] = code]
  /\ UNCHANGED <<doing, gate, limiter, now>>

Asked(g, c, type) == Directory!IsNext(g, c) /\ doing[c].command.type = type

ServeStatus(g, c) ==
  /\ Asked(g, c, "session_status")
  /\ Directory!Answers(g, c, session[g].stage)
  /\ Replies(c, "ok")
  /\ UNCHANGED <<journal, writes>>

\* send_logout, only from the phases it may be sent in.
ServeLogout(g, c) ==
  /\ Asked(g, c, "session_logout")
  /\ \/ /\ session[g].stage # "down"
        /\ \/ Directory!Answers(g, c, "down") /\ Replies(c, "ok")
           \/ /\ Directory!AnswersAndStops(g, c)
              /\ \E code \in {"STORE_UNAVAILABLE", "TRANSPORT_ERROR"} : Replies(c, code)
     \/ /\ session[g].stage = "down"
        /\ Directory!Answers(g, c, "down") /\ Replies(c, "SESSION_NOT_ESTABLISHED")
  /\ UNCHANGED <<journal, writes>>

\* submit_application up to the commit; a refused commit is fatal.
ServeOrder(g, c) ==
  /\ Directory!IsNext(g, c) /\ ~session[g].writing
  /\ IsApplication(doing[c].command)
  /\ LET open == session[g].stage = "open"
         refused == SessionRefuses(doing[c].command)
     IN  \/ /\ \/ ~open /\ Replies(c, "SESSION_NOT_ESTABLISHED")
               \/ open /\ refused /\ Replies(c, "INVALID_REQUEST")
            /\ Directory!Answers(g, c, session[g].stage)
            /\ UNCHANGED journal
         \/ /\ open /\ ~refused /\ Replies(c, "STORE_UNAVAILABLE")
            /\ Directory!AnswersAndStops(g, c)
            /\ UNCHANGED journal
         \/ /\ open /\ ~refused /\ IsNew(Id(c))
            /\ Directory!BeginsOrder(g, c)
            /\ journal' = [id \in DOMAIN journal \cup {Id(c)} |->
                              IF id = Id(c) THEN Fingerprint(doing[c]) ELSE journal[id]]
            /\ UNCHANGED <<clients, gate, limiter, now>>
  /\ UNCHANGED writes

\* The order at hand reaches the wire.
Writes(c) ==
  writes' = writes \cup
    {[id |-> Id(c), command |-> doing[c].command,
      reserved |-> Reserved(Id(c)), written |-> now]}

\* The write or the mark fails: the order may be on the wire.
OrderFails(g, c) ==
  /\ Directory!IsNext(g, c) /\ session[g].writing
  /\ \/ Replies(c, "TRANSPORT_ERROR") /\ UNCHANGED writes
     \/ Replies(c, "TRANSPORT_ERROR") /\ Writes(c)
     \/ Replies(c, "STORE_UNAVAILABLE") /\ Writes(c)
  /\ Directory!AnswersAndStops(g, c)
  /\ UNCHANGED journal

OrderWritten(g, c) ==
  /\ Directory!IsNext(g, c) /\ session[g].writing
  /\ Writes(c)
  /\ Replies(c, "ok")
  /\ Directory!Answers(g, c, session[g].stage)
  /\ UNCHANGED journal

(***************************************************************************)
(* The whole.                                                              *)
(***************************************************************************)
Tick ==
  /\ now < MaxTime
  /\ now' = now + 1
  /\ UNCHANGED <<sessions, clients, gate, limiter, journal, writes>>

\* What the manager and the sessions do without a command.
Elsewhere ==
  /\ \/ Directory!Start \/ Directory!Publish \/ Directory!Retire
     \/ \E g \in Sessions :
           \/ \E stage \in Directory!Stages : Directory!ChangesStage(g, stage)
           \/ Directory!Stops(g) \/ Directory!Abandoned(g)
  /\ UNCHANGED <<clients, gate, limiter, now, journal, writes>>

Init ==
  /\ Directory!Init
  /\ at = [c \in Clients |-> "idle"]
  /\ doing = [c \in Clients |-> NoRequest]
  /\ answer = [c \in Clients |-> "none"]
  /\ gate = <<>>
  /\ accepted = {} /\ request_ids = {}
  /\ now = 0
  /\ journal = [id \in {} |-> NoRequest]
  /\ writes = {}

\* A client task goes on without a new request, a session with what it has.
GoesOn(c) == EnterGate(c) \/ LookUp(c) \/ Call(c) \/ Resume(c) \/ Respond(c)

Serves(g) == \E c \in Clients :
  ServeStatus(g, c) \/ ServeLogout(g, c) \/ ServeOrder(g, c)

Writing(g) == \E c \in Clients : OrderWritten(g, c) \/ OrderFails(g, c)

Next ==
  \/ \E c \in Clients : GoesOn(c) \/ \E r \in Requests : Execute(c, r)
  \/ \E g \in Sessions : Serves(g) \/ Writing(g)
  \/ Elsewhere
  \/ Tick

Spec == Init /\ [][Next]_vars

\* The runtime runs every task that can run, and a live session works off its
\* mailbox.  Nothing is asked of the write of an order, nor of the clock.
FairSpec ==
  /\ Spec
  /\ \A c \in Clients : WF_vars(GoesOn(c))
  /\ \A g \in Sessions : SF_vars(Serves(g))

(***************************************************************************)
(* Properties.                                                             *)
(***************************************************************************)
Codes == {"none", "ok", "SCHEMA_VERSION_UNSUPPORTED", "PROFILE_NOT_FOUND",
          "INVALID_REQUEST", "LIVE_GUARD_NOT_ARMED", "POLICY_DENIED",
          "SESSION_NOT_ESTABLISHED", "RATE_LIMITED", "STORE_UNAVAILABLE",
          "IDEMPOTENCY_CONFLICT", "TRANSPORT_ERROR"}

Ids == {r.id : r \in Requests}

\* What Policy and validate_order leave of the orders.
Permits(command) ==
  IsOrder(command) =>
    /\ 0 < command.quantity /\ command.quantity <= MaxQuantity
    /\ \/ command.price = NoPrice /\ command.order_type # "limit"
       \/ 0 < command.price /\ command.quantity * command.price <= MaxNotional

\* Everything is well typed; in particular the window never holds more than
\* its maximum, nor a request id twice, and its two structures agree.
ControlTypeOK ==
  /\ watched \in {0, latest} /\ slot \in {0, watched}
  /\ session \in [Sessions -> [stage : Directory!Stages, alive : BOOLEAN,
                               mail : Seq(Clients), writing : BOOLEAN]]
  /\ at \in [Clients -> {"idle", "queued", "looking up", "calling", "waiting",
                        "replied", "answering"}]
  /\ doing \in [Clients -> Requests \cup {NoRequest}]
  /\ handle \in [Clients -> 0..latest]
  /\ answer \in [Clients -> Codes]
  /\ gate \in Seq(Clients)
  /\ accepted \subseteq (0..now) \X Ids /\ Cardinality(accepted) <= Maximum
  /\ request_ids = {entry[2] : entry \in accepted}
  /\ Cardinality(request_ids) = Cardinality(accepted)
  /\ DOMAIN journal \subseteq Ids

\* The wire never carries more orders with reservations of one second than
\* MaxMessagesPerSecond: no reservation of an order that may have been sent is
\* given back, whatever submit fails of and whoever retries.
AdmissionBound ==
  \A w \in writes :
    Cardinality({v \in writes : v.reserved \in w.reserved..(w.reserved + Second - 1)})
      <= Maximum

\* A reservation may be used late, by a slow write or by a retry, so the wire
\* itself may carry more than the maximum in a second, but never more than
\* twice as much.
WireRateBound ==
  \A w \in writes :
    Cardinality({v \in writes : v.written \in w.written..(w.written + Second - 1)})
      <= 2 * Maximum

\* What is submitted is new to the journal until the session commits it: no
\* other client can take its request id between the lookup and the commit, on
\* this session or on another one.
SubmitsAreNew ==
  \A c \in Clients :
    /\ at[c] \in {"calling", "waiting"}
    /\ IsApplication(doing[c].command)
    /\ ~(at[c] = "waiting" /\ session[handle[c]].writing)
    => IsNew(Id(c))

\* A client can act on what it is told of an order: "ok" means that this very
\* command is journaled, a conflict that another one is, and the other codes
\* of a request that got past the gate that nothing is, except for the errors
\* of the store and of the transport, which leave it open.
AnswersAreTrue ==
  [][\A c \in Clients :
       /\ at[c] \in {"looking up", "calling", "waiting", "replied"}
       /\ at'[c] = "answering"
       /\ IsApplication(doing[c].command)
       => CASE answer'[c] = "ok" ->
                 ~IsNew(Id(c)) /\ journal[Id(c)] = Fingerprint(doing[c])
            [] answer'[c] = "IDEMPOTENCY_CONFLICT" ->
                 ~IsNew(Id(c)) /\ journal[Id(c)] # Fingerprint(doing[c])
            [] answer'[c] \in {"STORE_UNAVAILABLE", "TRANSPORT_ERROR"} -> TRUE
            [] OTHER -> IsNew(Id(c))]_vars

\* Every order in the journal was asked for in certification mode and is
\* within the policy: a positive quantity up to MaxQuantity and, if it names a
\* price, a positive one with a notional up to MaxNotional.  An order that names
\* none is exempt from the notional limit, and is a market order.  What is on
\* the wire under a request id is the command the journal has for it.
OrdersWithinPolicy ==
  /\ \A id \in DOMAIN journal : journal[id][1] = "certification" /\ Permits(journal[id][2])
  /\ \A w \in writes : w.id \in DOMAIN journal /\ journal[w.id][2] = w.command

\* README.md:101: market orders are always refused at present.
MarketOrdersRefused ==
  \A w \in writes : IsOrder(w.command) => w.command.order_type # "market"

\* Every request is answered, whatever becomes of the session it was sent to
\* and however long the queue at the gate is, unless the write of an order
\* blocks for ever.
EveryRequestAnswered ==
  (\A g \in Sessions : []<>~session[g].writing)
    => \A c \in Clients : at[c] # "idle" ~> at[c] = "idle"
=============================================================================
