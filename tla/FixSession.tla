----------------------------- MODULE FixSession -----------------------------
(***************************************************************************)
(* The session actor of fix-session: one initiator connection after        *)
(* another over one journal, await by await.                               *)
(*                                                                         *)
(* SessionActor::run takes one thing at a time (a command, the frames of a *)
(* read, the heartbeat deadline) and works it off before it looks at the   *)
(* next one.  What it still has to do is the sequence todo; each step of   *)
(* it is the code up to and including one await on the journal or on the   *)
(* socket, so a crash or an error can fall between any two of them.        *)
(*                                                                         *)
(* Abstractions: time (a tick may find any deadline passed or not); the    *)
(* bytes of a message (a frame keeps its type, number, PossDupFlag and one *)
(* argument); frames that do not parse (RejectFrame); credentials and      *)
(* their redaction.  One actor runs at a time; SessionOverlap has the case *)
(* of two.                                                                 *)
(*                                                                         *)
(* A definition marked Mutant is a faulty variant of the one after it: no  *)
(* specification uses it, it shows that a property would notice the fault. *)
(***************************************************************************)
EXTENDS Integers, Sequences, FiniteSets

CONSTANTS
  Requests,       \* request ids of agents
  Fingerprints,   \* fingerprints of agent requests
  NoClOrdId,      \* the empty cl_ord_id of a session message
  InFrames,       \* frames a counterparty may send
  HeartBtInt,     \* heartbeat_interval_secs
  GapLimit,       \* capacity of the gap buffer
  ResetOnLogon,   \* what SessionConfig.reset_on_logon is from start to start
  DirectSubmit,   \* submit without the lookup that ControlService makes first
  MaxOut,         \* bound: no new work once this many numbers are journaled
  MaxEvent        \* bound: no new work once this many events are journaled

AdminTypes == {"A", "0", "1", "2", "5"}

\* Request ids "session:<kind>:<next_out>:<next_event>".
AdminKeys == AdminTypes \X Nat \X Nat

\* An order names its request; what any other frame refers to is a number.
Frames ==
  [type : AdminTypes \cup {"4", "4-reset", "8"}, seq : Nat, possdup : BOOLEAN,
   arg : Nat, end : Nat]
  \cup [type : {"D"}, seq : Nat, possdup : BOOLEAN, arg : Requests, end : Nat]

ASSUME SessionConstants ==
  /\ InFrames \subseteq [type : AdminTypes \cup {"4", "4-reset", "8"}, seq : Nat,
                         possdup : BOOLEAN, arg : Nat, end : Nat]
  /\ HeartBtInt \in Nat /\ GapLimit \in Nat
  /\ ResetOnLogon \subseteq BOOLEAN /\ DirectSubmit \in BOOLEAN
  /\ MaxOut \in Nat /\ MaxEvent \in Nat

\* An agent cannot name a command of the session itself, nor an order with
\* an empty cl_ord_id (ControlService derives it from the request id).
ASSUME AgentKeysDisjoint ==
  Requests \cap AdminKeys = {} /\ NoClOrdId \notin Requests

VARIABLES
  meta, commands, outbound, transmissions, inbound, events, \* the journal
  running,       \* the actor task lives
  phase,         \* SessionPhase
  next_out, next_in, next_event, \* the actor's own counters
  gap_buffer,    \* sequence number -> frame received ahead of it
  test_request,  \* number of the outstanding TestRequest, 0 if none
  todo,          \* what the actor still does before it selects again
  sent,          \* frames written on this connection
  originals,     \* history: how often a request went out without PossDupFlag
  greeted        \* history: a Logon was committed on this connection

journal == <<meta, commands, outbound, transmissions, inbound, events>>
counters == <<next_out, next_in, next_event>>
history == <<originals, greeted>>
vars == <<journal, running, phase, counters, gap_buffer, test_request, todo,
          sent, history>>

Journal == INSTANCE FixStore WITH
  RequestIds <- Requests \cup AdminKeys,
  Fingerprints <- Fingerprints \cup (AdminTypes \X Nat \X Nat),
  ClOrdIds <- Requests \cup {NoClOrdId},
  Wires <- Frames,
  Kinds <- {"application_replay", "gap_fill"},
  Events <- {"message", "sequence_resync"},
  SeqNums <- Nat, EventIds <- Nat, TransmissionIds <- Nat

Phases == {"Disconnected", "Connecting", "LogonSent", "Established",
           "Recovering", "LogoutSent", "Blocked"}

Frame(type, seq, arg) ==
  [type |-> type, seq |-> seq, possdup |-> FALSE, arg |-> arg, end |-> 0]

\* A repetition differs from its original in PossDupFlag only (and in times).
Flagged(frame, flag) == [frame EXCEPT !.possdup = flag]
Repeated(frame) == Flagged(frame, TRUE)
AsFirstSent(frame) == Flagged(frame, FALSE)

(***************************************************************************)
(* What the actor has to do: the kinds of entries of todo.                 *)
(***************************************************************************)
\* Send a session message, then enter a phase (or "TestRequest", "None").
Send(type, arg, then) ==
  [do |-> "commit", type |-> type, arg |-> arg, then |-> then]
Write(frame, key, seq, then) ==
  [do |-> "write", frame |-> frame, key |-> key, seq |-> seq, then |-> then]
Mark(key, seq, then) ==
  [do |-> "mark", key |-> key, seq |-> seq, then |-> then]
Replay(at, end) == [do |-> "replay", at |-> at, end |-> end]
WriteReplay(frame, id) == [do |-> "write replay", frame |-> frame, id |-> id]
MarkReplay(id) == [do |-> "mark replay", id |-> id]
Expected(frame) == [do |-> "expected", frame |-> frame]
Reset == [do |-> "reset"]
Drain == [do |-> "drain"]

Doing(what) == running /\ todo # <<>> /\ Head(todo).do = what
AtSelect == running /\ todo = <<>>

\* The bounds of the model: no new work beyond them.
InBounds == meta.next_out <= MaxOut /\ meta.next_event <= MaxEvent

\* run returns: what the task held in memory is gone.
Stop(last_phase) ==
  /\ running' = FALSE
  /\ phase' = last_phase
  /\ todo' = <<>>
  /\ gap_buffer' = Journal!NoRows
  /\ test_request' = 0
  /\ UNCHANGED counters

\* An error leaves run: the session is Blocked, nothing was journaled.
Fatal == Stop("Blocked") /\ UNCHANGED <<journal, sent, history>>

(***************************************************************************)
(* Sending: CommitOutbound, write_wire, MarkOutboundWritten.               *)
(***************************************************************************)
AdminCommit(job) ==
  [request_id |-> <<job.type, next_out, next_event>>,
   fingerprint |-> <<job.type, next_out, IF job.type = "2" THEN job.arg ELSE 0>>,
   cl_ord_id |-> NoClOrdId,
   msg_seq_num |-> next_out,
   wire |-> Frame(job.type, next_out, job.arg)]

OrderCommit(request, fingerprint) ==
  [request_id |-> request, fingerprint |-> fingerprint, cl_ord_id |-> request,
   msg_seq_num |-> next_out, wire |-> Frame("D", next_out, request)]

\* CommitOutbound answers with the command it already has.
IsRetry(c) ==
  /\ c.request_id \in DOMAIN commands
  /\ commands[c.request_id].fingerprint = c.fingerprint

IsRefused(c) ==
  \/ c.request_id \in DOMAIN commands /\ ~IsRetry(c)
  \/ c.request_id \notin DOMAIN commands /\ c.msg_seq_num # meta.next_out

WriteCommitted(c, seq, then) ==
  /\ todo' = <<Write(c.wire, c.request_id, seq, then)>>
             \o (IF todo = <<>> THEN <<>> ELSE Tail(todo))
  /\ UNCHANGED <<running, phase, counters, gap_buffer, test_request, sent, history>>

\* Mutant: the wire goes out before it is journaled.
CommitAdminLater ==
  /\ Doing("commit")
  /\ WriteCommitted(AdminCommit(Head(todo)), next_out, Head(todo).then)
  /\ UNCHANGED journal

\* A session message is written whether or not the journal had its key.
CommitAdmin ==
  /\ Doing("commit")
  /\ LET c == AdminCommit(Head(todo))
         then == Head(todo).then
     IN  \/ IsRefused(c) /\ Fatal
         \/ /\ IsRetry(c) /\ UNCHANGED journal
            /\ WriteCommitted(c, commands[c.request_id].msg_seq_num, then)
         \/ Journal!CommitOutbound(c) /\ WriteCommitted(c, next_out, then)

\* The whole frame reaches the socket (a failed write is AwaitFails).
WriteWire ==
  /\ Doing("write")
  /\ LET job == Head(todo)
     IN  /\ sent' = Append(sent, job.frame)
         /\ originals' = IF job.frame.type = "D"
                         THEN [originals EXCEPT ![job.frame.arg] = @ + 1]
                         ELSE originals
         /\ todo' = <<Mark(job.key, job.seq, job.then)>> \o Tail(todo)
  /\ UNCHANGED <<journal, running, phase, counters, gap_buffer, test_request, greeted>>

\* Mutant: what is to be done next is taken for a phase.
MarkWrittenThen ==
  /\ Doing("mark")
  /\ Journal!MarkOutboundWritten(Head(todo).key, Head(todo).seq)
  /\ next_out' = Head(todo).seq + 1
  /\ phase' = Head(todo).then
  /\ todo' = Tail(todo)
  /\ UNCHANGED <<running, gap_buffer, test_request, next_in, next_event, sent, history>>

\* After the mark the send is over: next_out moves, and the caller of the
\* send goes on (then).
MarkWritten ==
  /\ Doing("mark")
  /\ LET job == Head(todo)
     IN  \/ /\ Journal!MarkOutboundWritten(job.key, job.seq)
            /\ next_out' = job.seq + 1
            /\ UNCHANGED <<next_in, next_event, sent, history>>
            /\ IF job.then = "Blocked"
               THEN /\ running' = FALSE /\ phase' = "Blocked" /\ todo' = <<>>
                    /\ gap_buffer' = Journal!NoRows /\ test_request' = 0
               ELSE /\ phase' = IF job.then \in Phases THEN job.then ELSE phase
                    /\ test_request' = IF job.then = "TestRequest"
                                       THEN job.seq ELSE test_request
                    /\ todo' = Tail(todo)
                    /\ UNCHANGED <<running, gap_buffer>>
         \/ job.seq \notin DOMAIN outbound /\ Fatal

\* Mutant: a retry is written again.
SubmitAgain(request, fingerprint) ==
  /\ AtSelect /\ InBounds /\ phase = "Established"
  /\ DirectSubmit \/ request \notin DOMAIN commands
  /\ LET c == OrderCommit(request, fingerprint)
     IN  \/ Journal!CommitOutbound(c) /\ WriteCommitted(c, next_out, "None")
         \/ IsRetry(c) /\ UNCHANGED journal /\ WriteCommitted(c, next_out, "None")
         \/ IsRefused(c) /\ Fatal

\* submit_application: only when Established.  A request the journal knows is
\* answered without a write if its number is below next_out.
Submit(request, fingerprint) ==
  /\ AtSelect /\ InBounds /\ phase = "Established"
  /\ DirectSubmit \/ request \notin DOMAIN commands
  /\ LET c == OrderCommit(request, fingerprint)
         known == commands[request].msg_seq_num
     IN  \/ Journal!CommitOutbound(c) /\ WriteCommitted(c, next_out, "None")
         \/ IsRetry(c) /\ known < next_out /\ UNCHANGED vars
         \/ /\ IsRetry(c) /\ known = next_out
            /\ UNCHANGED journal /\ WriteCommitted(c, known, "None")
         \/ IsRetry(c) /\ known > next_out /\ Fatal
         \/ IsRefused(c) /\ Fatal

CanLogout == phase \in {"LogonSent", "Established", "Recovering"}

\* A Logout command (in another phase it is answered NotEstablished).
RequestLogout ==
  /\ AtSelect /\ InBounds /\ CanLogout
  /\ todo' = <<Send("5", 0, "LogoutSent")>>
  /\ UNCHANGED <<journal, running, phase, counters, gap_buffer, test_request, sent, history>>

\* The deadline last_outbound + interval: a heartbeat, then the test request
\* that is outstanding or due.  A Logout that may not be sent is an error too.
Tick(expired, silent) ==
  LET established == phase = "Established"
      heartbeat == IF established THEN <<Send("0", 0, "None")>> ELSE <<>>
      timed_out == test_request # 0 /\ expired
      asks == test_request = 0 /\ established /\ silent
  IN  /\ AtSelect /\ InBounds
      /\ \/ /\ timed_out /\ ~CanLogout /\ Fatal
         \/ /\ ~timed_out \/ CanLogout
            /\ todo' = CASE timed_out -> Append(heartbeat, Send("5", 0, "Blocked"))
                         [] asks      -> Append(heartbeat, Send("1", next_out + 1, "TestRequest"))
                         [] OTHER     -> heartbeat
            /\ UNCHANGED <<journal, running, phase, counters, gap_buffer,
                           test_request, sent, history>>

(***************************************************************************)
(* Replay of a validated range.                                            *)
(***************************************************************************)
\* A row with a cl_ord_id is an application message; every other number is
\* covered by a gap fill.
IsOrder(n) == n \in DOMAIN outbound /\ outbound[n].command.cl_ord_id # NoClOrdId

\* Mutant: one gap fill for the whole range.
GapEndOfRange(at, end) == end + 1

\* The first order in at..end, or end + 1.
GapEnd(at, end) ==
  CHOOSE n \in at..(end + 1) :
    /\ n = end + 1 \/ IsOrder(n)
    /\ \A k \in at..(n - 1) : ~IsOrder(k)

\* Mutant: an order is repeated without PossDupFlag.
ReplayFrameAsNew(at, end) ==
  IF IsOrder(at)
  THEN outbound[at].wire
  ELSE Repeated(Frame("4", at, GapEnd(at, end)))

ReplayFrame(at, end) ==
  IF IsOrder(at)
  THEN Repeated(outbound[at].wire)
  ELSE Repeated(Frame("4", at, GapEnd(at, end)))

ReplayEnd(at, end) == IF IsOrder(at) THEN at + 1 ELSE GapEnd(at, end)

JournalReplay ==
  /\ Doing("replay")
  /\ LET job == Head(todo)
         frame == ReplayFrame(job.at, job.end)
         next == ReplayEnd(job.at, job.end)
     IN  /\ Journal!CommitTransmission(
              [msg_seq_num |-> job.at, wire |-> frame,
               kind |-> IF frame.type = "4" THEN "gap_fill" ELSE "application_replay"])
         /\ todo' = <<WriteReplay(frame, meta.next_transmission)>>
                    \o (IF next <= job.end THEN <<Replay(next, job.end)>> ELSE <<>>)
                    \o Tail(todo)
  /\ UNCHANGED <<running, phase, counters, gap_buffer, test_request, sent, history>>

WriteReplayWire ==
  /\ Doing("write replay")
  /\ sent' = Append(sent, Head(todo).frame)
  /\ todo' = <<MarkReplay(Head(todo).id)>> \o Tail(todo)
  /\ UNCHANGED <<journal, running, phase, counters, gap_buffer, test_request, history>>

MarkReplayWritten ==
  /\ Doing("mark replay")
  /\ Journal!MarkTransmissionWritten(Head(todo).id)
  /\ todo' = Tail(todo)
  /\ UNCHANGED <<running, phase, counters, gap_buffer, test_request, sent, history>>

(***************************************************************************)
(* Receiving.                                                              *)
(***************************************************************************)
\* validate_replay_range: the end of the range is clamped to what was sent.
RangeEnd(m) == IF m.end = 0 \/ m.end > next_out - 1 THEN next_out - 1 ELSE m.end

\* Mutant: a gap fill of one number is refused.
IsAcceptableBeyond(m) ==
  /\ m.type = "2" => m.arg # 0 /\ m.arg <= RangeEnd(m)
  /\ m.type = "A" => m.arg = HeartBtInt
  /\ m.type # "4-reset"
  /\ m.type = "4" => m.arg > next_in + 1

\* Mutant: a Logon is accepted before any other message only, not when it was
\* buffered ahead of a gap.
IsAcceptableLogonFirst(m) ==
  /\ m.type = "2" => m.arg # 0 /\ m.arg <= RangeEnd(m)
  /\ m.type = "A" => m.arg = HeartBtInt /\ phase = "LogonSent"
  /\ m.type # "4-reset"
  /\ m.type = "4" => m.arg > next_in

\* The checks commit_expected makes before it journals anything.
IsAcceptable(m) ==
  /\ m.type = "2" => m.arg # 0 /\ m.arg <= RangeEnd(m)
  /\ m.type = "A" => m.arg = HeartBtInt
  /\ m.type # "4-reset"
  /\ m.type = "4" => m.arg > next_in

\* What a committed message makes the actor do.  A Logout is answered unless
\* the session asked for it; where send_logout is not allowed, its
\* NotEstablished leaves run.
Response(m) ==
  CASE m.type = "5" /\ CanLogout -> <<Send("5", 0, "Disconnected")>>
    [] m.type = "2" -> <<Replay(m.arg, RangeEnd(m))>>
    [] m.type = "1" -> <<Send("0", m.arg, "None")>>
    [] OTHER -> <<>>

PhaseAfter(m) ==
  CASE m.type = "A" /\ phase = "LogonSent" -> "Established"
    [] m.type = "5" /\ phase = "LogoutSent" -> "Disconnected"
    [] OTHER -> phase

\* commit_expected of a frame at next_in, then rest.
CommitExpected(m, buffer, rest) ==
  \/ ~IsAcceptable(m) /\ Fatal
  \/ /\ IsAcceptable(m)
     /\ Journal!CommitInbound(
          [msg_seq_num |-> m.seq, wire |-> m, event_id |-> next_event,
           event |-> "message",
           next_in_after |-> IF m.type = "4" THEN m.arg ELSE m.seq + 1])
     /\ next_in' = IF m.type = "4" THEN m.arg ELSE m.seq + 1
     /\ next_event' = next_event + 1
     /\ UNCHANGED <<next_out, sent, originals>>
     /\ greeted' = (greeted \/ m.type = "A")
     /\ IF m.type = "5" /\ ~CanLogout /\ phase # "LogoutSent"
        THEN /\ running' = FALSE /\ phase' = "Blocked" /\ todo' = <<>>
             /\ gap_buffer' = Journal!NoRows /\ test_request' = 0
        ELSE /\ todo' = Response(m) \o rest
             /\ phase' = PhaseAfter(m)
             /\ test_request' = IF m.type = "0" /\ m.arg = test_request
                                THEN 0 ELSE test_request
             /\ gap_buffer' = buffer
             /\ UNCHANGED running

\* Mutants: the Logon response moves next_in forward too; the gap is not
\* asked for.
ReceiveAheadRealigns(m) ==
  /\ m.seq > next_in
  /\ \/ /\ phase = "LogonSent"
        /\ Journal!ResyncInbound(m.seq, next_event, "sequence_resync")
        /\ next_in' = m.seq
        /\ next_event' = next_event + 1
        /\ todo' = <<Expected(m), Drain>>
        /\ UNCHANGED <<running, phase, next_out, gap_buffer, test_request, sent, history>>
     \/ /\ phase # "LogonSent"
        /\ gap_buffer' = Journal!Inserted(gap_buffer, m.seq, m)
        /\ todo' = IF phase = "Recovering" THEN <<>>
                   ELSE <<Send("2", next_in, "Recovering")>>
        /\ UNCHANGED <<journal, running, phase, counters, test_request, sent, history>>

ReceiveAheadSilently(m) ==
  /\ m.seq > next_in
  /\ gap_buffer' = Journal!Inserted(gap_buffer, m.seq, m)
  /\ phase' = "Recovering"
  /\ UNCHANGED <<journal, running, todo, counters, test_request, sent, history>>

\* A frame ahead of next_in is kept, the first one of its number only, and
\* the gap is asked for unless that was done already.
ReceiveAhead(m) ==
  /\ m.seq > next_in
  /\ \/ Cardinality(DOMAIN gap_buffer) >= GapLimit /\ Fatal
     \/ /\ Cardinality(DOMAIN gap_buffer) < GapLimit
        /\ gap_buffer' = IF m.seq \in DOMAIN gap_buffer THEN gap_buffer
                         ELSE Journal!Inserted(gap_buffer, m.seq, m)
        /\ todo' = IF phase = "Recovering" THEN <<>>
                   ELSE <<Send("2", next_in, "Recovering")>>
        /\ UNCHANGED <<journal, running, phase, counters, test_request, sent, history>>

\* verify_possdup: the original was received as such (the SendingTime of a
\* stored replay is not the OrigSendingTime of another one) and says the same.
Verifies(m) ==
  /\ m.seq \in DOMAIN inbound
  /\ LET original == inbound[m.seq].wire
     IN  /\ ~original.possdup
         /\ Repeated(original) = m

ReceiveDuplicate(m) ==
  /\ m.seq < next_in /\ m.possdup
  /\ \/ Verifies(m) /\ UNCHANGED vars
     \/ ~Verifies(m) /\ Fatal

\* Mutant: the journal is moved, the actor's own counter is not.
ReceiveBehindStale(m) ==
  /\ m.seq < next_in /\ ~m.possdup
  /\ phase = "LogonSent" /\ m.seq # 0
  /\ Journal!ResyncInbound(m.seq, next_event, "sequence_resync")
  /\ next_event' = next_event + 1
  /\ todo' = <<Expected(m), Drain>>
  /\ UNCHANGED <<running, phase, next_out, next_in, gap_buffer, test_request,
                 sent, history>>

\* A lower number without PossDupFlag: while LogonSent the counterparty is
\* believed, later it is an error.
ReceiveBehind(m) ==
  /\ m.seq < next_in /\ ~m.possdup
  /\ \/ /\ phase = "LogonSent" /\ m.seq # 0
        /\ Journal!ResyncInbound(m.seq, next_event, "sequence_resync")
        /\ next_in' = m.seq
        /\ next_event' = next_event + 1
        /\ todo' = <<Expected(m), Drain>>
        /\ UNCHANGED <<running, phase, next_out, gap_buffer, test_request, sent, history>>
     \/ (phase # "LogonSent" \/ m.seq = 0) /\ Fatal

ReceiveExpected(m) ==
  /\ m.seq = next_in
  /\ CommitExpected(m, gap_buffer, <<Drain>>)

\* handle_inbound.
ReceiveFrame(m) ==
  /\ AtSelect /\ InBounds
  /\ \/ ReceiveAhead(m)
     \/ ReceiveDuplicate(m)
     \/ ReceiveBehind(m)
     \/ ReceiveExpected(m)

CommitResynced ==
  /\ Doing("expected")
  /\ CommitExpected(Head(todo).frame, gap_buffer, Tail(todo))

\* Mutants: recovery ends with the first frame that is not due; nothing is
\* dropped from the buffer; an empty buffer means Established in any phase.
DrainBufferOnce ==
  LET rest == [n \in {k \in DOMAIN gap_buffer : k > next_in} |-> gap_buffer[n]]
  IN  /\ Doing("drain")
      /\ \/ /\ next_in \in DOMAIN gap_buffer
            /\ CommitExpected(gap_buffer[next_in], rest, <<Drain>>)
         \/ /\ next_in \notin DOMAIN gap_buffer
            /\ gap_buffer' = rest
            /\ phase' = IF phase = "Recovering" THEN "Established" ELSE phase
            /\ todo' = Tail(todo)
            /\ UNCHANGED <<journal, running, counters, test_request, sent, history>>

DrainBufferKeeping ==
  LET rest == [n \in DOMAIN gap_buffer \ {next_in} |-> gap_buffer[n]]
  IN  /\ Doing("drain")
      /\ \/ /\ next_in \in DOMAIN gap_buffer
            /\ CommitExpected(gap_buffer[next_in], rest, <<Drain>>)
         \/ /\ next_in \notin DOMAIN gap_buffer
            /\ phase' = IF phase = "Recovering" /\ rest = Journal!NoRows
                        THEN "Established" ELSE phase
            /\ todo' = Tail(todo)
            /\ UNCHANGED <<journal, running, counters, gap_buffer, test_request,
                           sent, history>>

DrainBufferReopens ==
  LET ahead == {n \in DOMAIN gap_buffer : n > next_in}
      rest == [n \in ahead |-> gap_buffer[n]]
  IN  /\ Doing("drain")
      /\ \/ /\ next_in \in DOMAIN gap_buffer
            /\ CommitExpected(gap_buffer[next_in], rest, <<Drain>>)
         \/ /\ next_in \notin DOMAIN gap_buffer
            /\ gap_buffer' = rest
            /\ phase' = IF ahead = {} THEN "Established" ELSE phase
            /\ todo' = Tail(todo)
            /\ UNCHANGED <<journal, running, counters, test_request, sent, history>>

\* The loop over the gap buffer: frames behind next_in are dropped, the one
\* at next_in is committed, and when there is none the gap may be closed.
DrainBuffer ==
  LET ahead == {n \in DOMAIN gap_buffer : n > next_in}
      rest == [n \in ahead |-> gap_buffer[n]]
  IN  /\ Doing("drain")
      /\ \/ /\ next_in \in DOMAIN gap_buffer
            /\ CommitExpected(gap_buffer[next_in], rest, <<Drain>>)
         \/ /\ next_in \notin DOMAIN gap_buffer
            /\ gap_buffer' = rest
            /\ phase' = IF phase = "Recovering" /\ ahead = {}
                        THEN "Established" ELSE phase
            /\ todo' = Tail(todo)
            /\ UNCHANGED <<journal, running, counters, test_request, sent, history>>

\* A frame that does not parse, or names another session.
RejectFrame == AtSelect /\ Fatal

(***************************************************************************)
(* Life of an actor.                                                       *)
(***************************************************************************)
\* Mutant: the Logon is sent before the reset.
ConnectThenReset ==
  /\ ~running /\ InBounds
  /\ running' = TRUE
  /\ phase' = "Connecting"
  /\ next_out' = meta.next_out
  /\ next_in' = meta.next_in
  /\ next_event' = meta.next_event
  /\ gap_buffer' = Journal!NoRows
  /\ test_request' = 0
  /\ todo' = <<Send("A", HeartBtInt, "LogonSent"), Reset>>
  /\ sent' = <<>>
  /\ greeted' = FALSE
  /\ UNCHANGED <<journal, originals>>

\* spawn_initiator: recover, then send_logon.
Connect ==
  /\ ~running /\ InBounds
  /\ running' = TRUE
  /\ phase' = "Connecting"
  /\ next_out' = meta.next_out
  /\ next_in' = meta.next_in
  /\ next_event' = meta.next_event
  /\ gap_buffer' = Journal!NoRows
  /\ test_request' = 0
  /\ \E reset \in ResetOnLogon :
       todo' = (IF reset THEN <<Reset>> ELSE <<>>)
               \o <<Send("A", HeartBtInt, "LogonSent")>>
  /\ sent' = <<>>
  /\ greeted' = FALSE
  /\ UNCHANGED <<journal, originals>>

ResetJournal ==
  /\ Doing("reset")
  /\ Journal!ResetSequences
  /\ next_out' = 1
  /\ next_in' = 1
  /\ next_event' = meta.next_event + 1
  /\ todo' = Tail(todo)
  /\ UNCHANGED <<running, phase, gap_buffer, test_request, sent, history>>

\* The socket is at its end, or (after a Logout) the handles are dropped.
Disconnect == AtSelect /\ Stop("Disconnected") /\ UNCHANGED <<journal, sent, history>>

\* The await at hand fails, or the process dies in it.  A write may fail
\* after the peer got the whole frame.
AwaitFails ==
  /\ running /\ todo # <<>>
  /\ Stop("Blocked")
  /\ UNCHANGED <<journal, greeted>>
  /\ \/ UNCHANGED <<sent, originals>>
     \/ /\ Head(todo).do \in {"write", "write replay"}
        /\ LET frame == Head(todo).frame
           IN  /\ sent' = Append(sent, frame)
               /\ originals' = IF frame.type = "D" /\ ~frame.possdup
                               THEN [originals EXCEPT ![frame.arg] = @ + 1]
                               ELSE originals

\* Where the bounds of the model end.
Horizon == ~InBounds /\ UNCHANGED vars

Init ==
  /\ Journal!Init
  /\ running = FALSE
  /\ phase = "Disconnected"
  /\ next_out = 1 /\ next_in = 1 /\ next_event = 1
  /\ gap_buffer = Journal!NoRows
  /\ test_request = 0
  /\ todo = <<>>
  /\ sent = <<>>
  /\ originals = [r \in Requests |-> 0]
  /\ greeted = FALSE

\* The steps the actor makes without anything from outside.
Proceed ==
  \/ CommitAdmin \/ WriteWire \/ MarkWritten
  \/ JournalReplay \/ WriteReplayWire \/ MarkReplayWritten
  \/ CommitResynced \/ DrainBuffer \/ ResetJournal

Local ==
  \/ Proceed
  \/ \E r \in Requests, f \in Fingerprints : Submit(r, f)
  \/ RequestLogout
  \/ \E expired, silent \in BOOLEAN : Tick(expired, silent)
  \/ Connect
  \/ Disconnect
  \/ AwaitFails

Next ==
  \/ Local
  \/ \E m \in InFrames : ReceiveFrame(m)
  \/ RejectFrame
  \/ Horizon

Spec == Init /\ [][Next]_vars

(***************************************************************************)
(* Properties.                                                             *)
(***************************************************************************)
Entries ==
  [do : {"commit"}, type : AdminTypes, arg : Nat,
   then : Phases \cup {"TestRequest", "None"}]
  \cup [do : {"write"}, frame : Frames, key : Requests \cup AdminKeys, seq : Nat,
        then : Phases \cup {"TestRequest", "None"}]
  \cup [do : {"mark"}, key : Requests \cup AdminKeys, seq : Nat,
        then : Phases \cup {"TestRequest", "None"}]
  \cup {range \in [do : {"replay"}, at : Nat, end : Nat] : range.at <= range.end}
  \cup [do : {"write replay"}, frame : Frames, id : Nat]
  \cup [do : {"mark replay"}, id : Nat]
  \cup [do : {"expected"}, frame : InFrames]
  \cup [do : {"reset", "drain"}]

\* The actor's own variables are well typed.
ActorTypeOK ==
  /\ running \in BOOLEAN /\ greeted \in BOOLEAN
  /\ phase \in Phases
  /\ next_out \in Nat /\ next_in \in Nat /\ next_event \in Nat
  /\ DOMAIN gap_buffer \subseteq Nat
  /\ \A n \in DOMAIN gap_buffer : gap_buffer[n] \in InFrames
  /\ test_request \in Nat
  /\ todo \in Seq(Entries)
  /\ sent \in Seq(Frames)
  /\ originals \in [Requests -> Nat]

\* The actor's state and the journal under it are well typed; a range that is
\* still to be replayed is never empty.
TypeOK == Journal!TypeOK /\ ActorTypeOK

\* A number is journaled and not yet taken over by the actor.
InFlight == Doing("write") \/ Doing("mark")

\* The counters a live actor works with are those of the journal, except that
\* next_out follows only when the send that took the number is over: no
\* handler leaves the actor with a stale number, whatever it did.
CountersMatch ==
  running /\ ~Doing("reset") =>
    /\ next_in = meta.next_in
    /\ next_event = meta.next_event
    /\ meta.next_out = IF InFlight THEN next_out + 1 ELSE next_out

\* Every request id a session message will use is new to the journal: the
\* pair of next_out and next_event never repeats, because a reset takes an
\* event id with it.  A repeated key would send a message the journal does
\* not hold, under a number it gave to another one.
AdminKeysFresh ==
  \A key \in AdminKeys \cap DOMAIN commands :
    \/ key[3] < meta.next_event
    \/ key[3] = meta.next_event /\ key[2] < meta.next_out

\* No frame is on the wire before the journal holds exactly it, in this epoch,
\* under its number; what a replay repeats is an order's own frame.
WireJournaled ==
  \A i \in DOMAIN sent :
    LET frame == sent[i]
    IN  ~frame.possdup \/ frame.type = "D" =>
          /\ frame.seq \in DOMAIN outbound
          /\ outbound[frame.seq].wire = AsFirstSent(frame)

\* The new messages of a connection carry consecutive numbers: no number is
\* skipped or used twice, whatever was refused or replayed in between.
SequenceUnbroken ==
  \A i \in DOMAIN sent :
    ~sent[i].possdup =>
      LET before == {k \in 1..(i - 1) : ~sent[k].possdup}
      IN  sent[i].seq = sent[1].seq + Cardinality(before)

\* A gap fill never covers an order: an order the counterparty asks for again
\* is sent again, not skipped.
GapFillsSkipNoOrder ==
  \A i \in DOMAIN sent :
    sent[i].type = "4" =>
      \A n \in sent[i].seq..(sent[i].arg - 1) : ~IsOrder(n)

\* An Established session has no gap behind it, so every order it accepts is
\* sent on a connection whose inbound history is complete so far.
EstablishedHasNoGap ==
  AtSelect /\ phase = "Established" => gap_buffer = Journal!NoRows

\* Frames kept for later are ahead of next_in whenever the actor selects:
\* none that is due is left waiting.
BufferAhead ==
  AtSelect => \A n \in DOMAIN gap_buffer : n > next_in /\ gap_buffer[n].seq = n

\* The Logon response is journaled, and its HeartBtInt compared, before the
\* session is Established.
EstablishedAfterLogon == phase = "Established" => greeted

\* Once the session has sent its Logout it only waits for the answer: it does
\* not take up business again on the same connection.
LogoutIsFinal ==
  [][phase = "LogoutSent" => phase' \in {"LogoutSent", "Disconnected", "Blocked"}]_vars

\* Only the Logon response moves the inbound expectation back.
ResyncOnLogonOnly ==
  [][AtSelect /\ todo' # <<>> /\ Head(todo').do = "expected"
       => Head(todo').frame.type = "A"]_vars

\* FixSession implements OrderLedger: each order is journaled, then sent at
\* most once as new, then reported Written; never otherwise.
Ledger == INSTANCE OrderLedger WITH
  known <- [r \in Requests |-> IF r \in DOMAIN commands
                               THEN commands[r].phase ELSE "Unknown"],
  copies <- originals

OrdersKeepTheLedger == Ledger!Spec

\* FixSession implements SessionLife: whatever it sends, receives or fails of,
\* its users see the phases in the order ConnectionManager and ControlService
\* count on, and never after the end of the task.
Life == INSTANCE SessionLife WITH alive <- running

PhasesFollowLife == Life!Spec
=============================================================================
