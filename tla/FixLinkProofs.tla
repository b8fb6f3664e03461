---------------------------- MODULE FixLinkProofs ----------------------------
(***************************************************************************)
(* Theorems about FixLink: the session and a venue that keeps to the rules *)
(* of the protocol, over one connection after another.  Whatever is lost   *)
(* with a connection, replayed or gap-filled on either side, and whichever *)
(* await fails: the venue takes each order once (TakesOrdersOnce), sees no *)
(* new message under a number it has already had (SeesNoNumberTwice), and, *)
(* as long as it keeps its own numbers, every execution it reports reaches *)
(* the journal (LosesNoExecution).                                         *)
(*                                                                         *)
(* The first two rest on what a step of the session may do to the wire and *)
(* to the rows under it (Rests, Commits, Writes, Opens, Resets): numbers   *)
(* go up, and a row of an order is there once.  The venue's expectation    *)
(* then never overtakes what is to come.  The third rests on the truth of  *)
(* every frame that is on its way, buffered or about to be committed.      *)
(*                                                                         *)
(* The link is an instance of FixSession (LinkIsSession): a conforming     *)
(* venue says nothing but frames of the types the session knows            *)
(* (LinkTyped).                                                            *)
(*                                                                         *)
(* The invariants of FixSessionProofs and FixSessionFlowProofs are used    *)
(* here as they are, as they do not depend on what arrives.                *)
(***************************************************************************)
EXTENDS FixLink, FixSessionFlowProofs

\* The invariants of the session.
SessionInv == IInv /\ Flow /\ Numbered /\ SequenceUnbroken /\ Fills

IsSequence(s) == \E S : s \in Seq(S)

\* The number behind what a frame stands for.
Upto(frame) == IF frame.type = "4" THEN frame.arg ELSE frame.seq + 1

\* What is on the wire of a connection, or about to be, is numbered upwards:
\* a new message is behind all that a repetition or a gap fill before it covers.
Ascending ==
  /\ \A i, k \in DOMAIN sent : i < k /\ ~sent[k].possdup => Upto(sent[i]) <= sent[k].seq
  /\ Doing("write") => \A i \in DOMAIN sent : Upto(sent[i]) <= Head(todo).frame.seq

\* The row of an order has the order's command, and no order has two rows.
OrderRows ==
  /\ meta.next_out >= 1
  /\ \A n \in DOMAIN outbound : n >= 1
  /\ \A n \in DOMAIN outbound :
       outbound[n].wire.type = "D" => outbound[n].wire.arg \in DOMAIN commands
  /\ \A n, k \in DOMAIN outbound :
       /\ outbound[n].wire.type = "D" /\ outbound[k].wire.type = "D"
       /\ outbound[n].wire.arg = outbound[k].wire.arg
       => n = k

\* The actor works, and a reset that it starts with is done.
Ready == running /\ ~Doing("reset")

\* The numbers of the venue are those of the session: from the Logon on if it
\* starts over, always if it does not.
Follows == ~StartsOver \/ venue_state = "logged_on"

\* No new message is behind what the venue expects.
Expects ==
  Follows =>
    /\ venue_next <= meta.next_out
    /\ Doing("write") => venue_next <= Head(todo).frame.seq
    /\ \A k \in DOMAIN sent :
         k > venue_read /\ ~sent[k].possdup => venue_next <= sent[k].seq

\* The row is that of an order the venue has taken.
Taken(n) ==
  /\ n \in DOMAIN outbound /\ outbound[n].wire.type = "D"
  /\ \E i \in DOMAIN venue_orders : venue_orders[i] = outbound[n].wire.arg

\* An order the venue has taken is behind what it expects.
Settled ==
  Follows => \A n \in DOMAIN outbound : Taken(n) => venue_next = 0 \/ n < venue_next

\* Before the Logon: it is behind every order taken earlier, and the only
\* numbering there is when both start over.
Unheard ==
  venue_state = "connected" =>
    /\ venue_read = 0
    /\ \A n \in DOMAIN outbound :
         Taken(n) =>
           /\ sent # <<>> => n < sent[1].seq
           /\ sent = <<>> /\ Doing("write") => n < Head(todo).frame.seq
           /\ StartsOver => sent = <<>> /\ ~Ready

VenueOK ==
  /\ venue_state \in {"closed", "connected", "logged_on"}
  /\ venue_next \in Nat /\ venue_read \in Nat
  /\ venue_state = "logged_on" => venue_next >= 1 /\ sent # <<>>
  /\ IsSequence(venue_orders)

\* A frame says what the venue sent under its number; a gap fill covers no
\* execution, and nothing the venue has not sent yet.
Truthful(log, m) ==
  /\ m.seq \in DOMAIN log
  /\ m.type # "4" => m.type = log[m.seq].type /\ m.arg = log[m.seq].arg
  /\ m.type = "4" =>
       /\ m.arg \in Nat /\ m.seq < m.arg /\ m.arg <= Len(log) + 1
       /\ \A n \in m.seq..(m.arg - 1) : ~IsExecution(log, n)

\* So do all that were received but not committed, wherever they are.
Pending ==
  /\ \A i \in DOMAIN in_flight : Truthful(venue_log, in_flight[i])
  /\ \A n \in DOMAIN gap_buffer : Truthful(venue_log, gap_buffer[n])
  /\ Doing("expected") => Truthful(venue_log, Head(todo).frame)

\* Nothing is received before the Logon was answered.
Silence ==
  venue_state = "connected" =>
    /\ in_flight = <<>> /\ DOMAIN gap_buffer = {} /\ ~Doing("expected")
    /\ StartsOver /\ (sent # <<>> \/ Ready) => meta.next_in = 1

\* The session is not ahead of the venue, which sends no gap fill as new.
Behind ==
  /\ meta.next_in \in Nat /\ meta.next_in <= Len(venue_log) + 1
  /\ \A n \in DOMAIN venue_log : venue_log[n].type # "4"

\* The venue's log and what is on its way are sequences, and every request for
\* a replay among the frames names numbers.
Carried ==
  /\ IsSequence(venue_log) /\ IsSequence(in_flight)
  /\ \A i \in DOMAIN in_flight : Asks(in_flight[i])

\* What orders and numbers rest on.
Orderly ==
  /\ Ascending /\ OrderRows /\ VenueOK
  /\ Expects /\ Settled /\ Unheard /\ OrdersTakenOnce

\* What executions rest on.
Reported == Pending /\ Silence /\ Behind /\ NoExecutionLost

-----------------------------------------------------------------------------
\* What the session does over the connection is a step of FixSession, or the
\* receipt of a frame on its way.
LEMMA SessionSteps ==
  ASSUME [LinkNext]_linkvars
  PROVE  \/ [Next]_vars
         \/ Deliver /\ in_flight # <<>> /\ ReceiveFrame(Head(in_flight))
<1>1. CASE SessionAlone
  BY <1>1 DEF SessionAlone, Next, Local
<1>2. CASE Deliver
  BY <1>2 DEF Deliver
<1>3. CASE Reconnect
  BY <1>3 DEF Reconnect, Next, Local
<1>4. CASE HangUp
  BY <1>4 DEF HangUp, Next, Local
<1>5. CASE UNCHANGED vars
  BY <1>5
<1>6. CASE Horizon
  BY <1>6 DEF Next
<1> QED
  BY <1>1, <1>2, <1>3, <1>4, <1>5, <1>6 DEF LinkNext, linkvars

\* The invariants of the session hold after its steps, whatever it receives.
LEMMA SessionKeeps ==
  ASSUME Gated, SessionInv,
         [Next]_vars \/ \E m : Asks(m) /\ ReceiveFrame(m)
  PROVE  SessionInv'
<1>1. CASE [Next]_vars
  BY <1>1, IInvInductive, FlowInductive, NumbersInductive, FillsInductive DEF SessionInv
<1>2. ASSUME NEW m, Asks(m), ReceiveFrame(m) PROVE SessionInv'
  <2>1. IInv' /\ Flow'
    BY <1>2, ReceiveKeeps, ReceiveFlows DEF SessionInv
  <2>2. Numbered' /\ UNCHANGED sent
    BY <1>2, <2>1, ReceiveNumbered DEF SessionInv
  <2>3. Fills'
    BY <1>2, ReceiveFills DEF SessionInv
  <2> QED
    BY <2>1, <2>2, <2>3 DEF SessionInv, SequenceUnbroken
<1> QED
  BY <1>1, <1>2

-----------------------------------------------------------------------------
\* What a step of the session does to the wire and the rows under it.
SameRows ==
  /\ DOMAIN outbound' = DOMAIN outbound
  /\ \A n \in DOMAIN outbound : outbound'[n].wire = outbound[n].wire

\* Nothing new is to be written.
Rests ==
  /\ UNCHANGED sent /\ SameRows
  /\ meta'.next_out = meta.next_out /\ DOMAIN commands' = DOMAIN commands
  /\ Ready' => Ready
  /\ Doing("write")' => Doing("write") /\ Head(todo').frame = Head(todo).frame

\* One row, with the frame that is to be written next.
Commits(key, frame) ==
  /\ UNCHANGED sent /\ Ready /\ Doing("write")' /\ Head(todo').frame = frame
  /\ frame.seq = meta.next_out /\ meta'.next_out = meta.next_out + 1
  /\ frame.type = "D" => frame.arg = key
  /\ key \notin DOMAIN commands /\ DOMAIN commands' = DOMAIN commands \cup {key}
  /\ DOMAIN outbound' = DOMAIN outbound \cup {meta.next_out}
  /\ outbound'[meta.next_out].wire = frame
  /\ \A n \in DOMAIN outbound : outbound'[n].wire = outbound[n].wire

\* The frame at hand goes out.
Writes ==
  /\ Doing("write") \/ Doing("write replay")
  /\ sent' = Append(sent, Head(todo).frame)
  /\ UNCHANGED <<meta, outbound, commands>>
  /\ ~Doing("write")' /\ Ready

\* A new connection.
Opens ==
  /\ Connect /\ sent' = <<>>
  /\ UNCHANGED <<meta, outbound, commands>>
  /\ ~Doing("write")'
  /\ StartsOver => ~Ready'

\* The tables start again, before anything was sent.
Resets ==
  /\ StartsOver /\ sent = <<>> /\ sent' = <<>>
  /\ DOMAIN outbound' = {} /\ meta'.next_out = 1 /\ meta'.next_in = 1 /\ UNCHANGED commands
  /\ ~Doing("write")'

-----------------------------------------------------------------------------
\* The journal's number is the actor's: nothing is at hand to be written.
LEMMA NothingInFlight ==
  ASSUME IInv', running' => next_out' = meta'.next_out
  PROVE  ~Doing("write")'
<1>1. meta'.next_out \in Nat
  BY DEF IInv, MetaOK
<1>2. InFlight' => running' /\ meta'.next_out = next_out' + 1
  BY DEF InFlight, Doing, IInv, Counted
<1> QED
  BY <1>1, <1>2 DEF InFlight

\* Nothing is at hand before, and no number is given away: nothing is after.
LEMMA QuietRests ==
  ASSUME IInv, IInv', running, ~InFlight, Ready' => Ready,
         UNCHANGED <<sent, commands, outbound>>, meta'.next_out = meta.next_out,
         running' => next_out' = next_out
  PROVE  Rests
<1>1. next_out = meta.next_out
  BY DEF IInv, Counted
<1>2. ~Doing("write")'
  BY <1>1, NothingInFlight
<1> QED
  BY <1>2 DEF Rests, SameRows

\* run returns.
LEMMA StopRests ==
  ASSUME ~running', UNCHANGED <<sent, commands, outbound, meta>>
  PROVE  Rests
  BY DEF Rests, SameRows, Ready, Doing

\* An error leaves run.
LEMMA FatalRests ==
  ASSUME Fatal
  PROVE  Rests
  BY StopRests DEF Fatal, Stop, journal

\* Nothing changes.
LEMMA StutterRests ==
  ASSUME UNCHANGED vars
  PROVE  Rests
  BY DEF vars, journal, Rests, SameRows, Ready, Doing

\* A commit of a message under a new key.
LEMMA CommitCommits ==
  ASSUME IInv, running, ~InFlight, Ready, NEW c, NEW then,
         Journal!CommitOutbound(c), WriteCommitted(c, next_out, then),
         c.msg_seq_num = next_out, c.wire.seq = next_out,
         c.wire.type = "D" => c.wire.arg = c.request_id
  PROVE  Commits(c.request_id, c.wire)
<1> DEFINE job == Write(c.wire, c.request_id, next_out, then)
           row == [command |-> Journal!NewCommand(c), wire |-> c.wire]
<1>1. next_out = meta.next_out /\ next_out \in Nat
  BY DEF IInv, Counted, MetaOK
<1>2. /\ commands' = [k \in DOMAIN commands \cup {c.request_id} |->
                        IF k = c.request_id THEN Journal!NewCommand(c) ELSE commands[k]]
      /\ outbound' = [n \in DOMAIN outbound \cup {next_out} |->
                        IF n = next_out THEN row ELSE outbound[n]]
      /\ meta' = [meta EXCEPT !.next_out = @ + 1]
      /\ c.request_id \notin DOMAIN commands
  BY DEF Journal!CommitOutbound, Journal!Inserted
<1>3. meta'.next_out = meta.next_out + 1
  <2>1. meta' = [next_out |-> meta.next_out + 1, next_in |-> meta.next_in,
                 next_event |-> meta.next_event,
                 next_transmission |-> meta.next_transmission]
    BY <1>2 DEF IInv, MetaOK
  <2> QED
    BY <2>1
<1>4. next_out \notin DOMAIN outbound
  BY <1>1 DEF IInv, RowsOK, RowOK
<1>5. row.wire = c.wire
  OBVIOUS
<1> HIDE DEF row
<1>6. /\ DOMAIN commands' = DOMAIN commands \cup {c.request_id}
      /\ DOMAIN outbound' = DOMAIN outbound \cup {next_out}
      /\ outbound'[next_out].wire = c.wire
      /\ \A n \in DOMAIN outbound : outbound'[n].wire = outbound[n].wire
  BY <1>2, <1>4, <1>5
<1>7. job.do = "write" /\ job.frame = c.wire
  BY DEF Write
<1> HIDE DEF job
<1>8. todo' # <<>> /\ Head(todo') = job
  <2>1. IsLine(IF todo = <<>> THEN <<>> ELSE Tail(todo))
    BY NothingLater, RestLater DEF IInv
  <2>2. todo' = <<job>> \o (IF todo = <<>> THEN <<>> ELSE Tail(todo))
    BY DEF WriteCommitted, job
  <2> HIDE DEF job
  <2> QED
    BY <2>1, <2>2, LineFront
<1>9. Doing("write")' /\ Head(todo').frame = c.wire /\ UNCHANGED sent
  BY <1>7, <1>8 DEF Doing, WriteCommitted
<1> QED
  BY <1>1, <1>2, <1>3, <1>6, <1>9 DEF Commits

\* A session message, under a key of its own.
LEMMA CommitAdminCommits ==
  ASSUME IInv, CommitAdmin
  PROVE  Rests \/ \E key, frame : Commits(key, frame)
<1> DEFINE job == Head(todo)
           c == AdminCommit(job)
<1>1. running /\ todo # <<>> /\ job.do = "commit" /\ ~InFlight /\ Ready
  BY DEF CommitAdmin, Doing, InFlight, Ready
<1>2. CASE Fatal
  BY <1>2, FatalRests
<1>3. CASE ~Fatal
  <2>1. c.request_id \notin DOMAIN commands /\ job.type \in AdminTypes
    BY NewAdminKey DEF AdminCommit
  <2>2. c.wire = Frame(job.type, next_out, job.arg) /\ c.msg_seq_num = next_out
    BY DEF AdminCommit
  <2>3. Journal!CommitOutbound(c) /\ WriteCommitted(c, next_out, job.then)
    BY <1>3, <2>1 DEF CommitAdmin, IsRetry
  <2> HIDE DEF c
  <2>4. c.wire.seq = next_out /\ c.wire.type # "D"
    BY <2>1, <2>2 DEF Frame, AdminTypes
  <2>5. Commits(c.request_id, c.wire)
    BY <1>1, <2>2, <2>3, <2>4, CommitCommits
  <2> QED
    BY <2>5
<1> QED
  BY <1>2, <1>3

\* An order, under its request id.
LEMMA SubmitCommits ==
  ASSUME Gated, IInv, NEW r \in Requests, NEW f \in Fingerprints, Submit(r, f)
  PROVE  Rests \/ \E key, frame : Commits(key, frame)
<1> DEFINE c == OrderCommit(r, f)
<1>1. running /\ todo = <<>> /\ ~InFlight /\ Ready
  BY DEF Submit, AtSelect, InFlight, Doing, Ready
<1>2. CASE Fatal \/ UNCHANGED vars
  BY <1>2, FatalRests, StutterRests
<1>3. CASE ~Fatal /\ r \notin DOMAIN commands
  <2>1. /\ c.request_id = r /\ c.msg_seq_num = next_out
        /\ c.wire = Frame("D", next_out, r)
    BY DEF OrderCommit
  <2>2. Journal!CommitOutbound(c) /\ WriteCommitted(c, next_out, "None")
    BY <1>3, <2>1 DEF Submit, IsRetry
  <2> HIDE DEF c
  <2>3. c.wire.seq = next_out /\ c.wire.arg = c.request_id
    BY <2>1 DEF Frame
  <2>4. Commits(c.request_id, c.wire)
    BY <1>1, <2>1, <2>2, <2>3, CommitCommits
  <2> QED
    BY <2>4
<1> QED
  BY <1>2, <1>3, RetryAnswered

\* The write of a message, new or repeated.
LEMMA WritesOut ==
  ASSUME IInv, IInv', WriteWire \/ WriteReplayWire
  PROVE  Writes
<1>1. CASE WriteWire
  <2> DEFINE mark == Mark(Head(todo).key, Head(todo).seq, Head(todo).then)
  <2>1. /\ Doing("write") /\ todo # <<>> /\ sent' = Append(sent, Head(todo).frame)
        /\ todo' = <<mark>> \o Tail(todo) /\ Ready
        /\ UNCHANGED <<meta, outbound, commands>>
    BY <1>1 DEF WriteWire, Doing, journal, Ready
  <2>2. mark.do = "mark"
    BY DEF Mark
  <2> HIDE DEF mark
  <2>3. Head(todo') = mark
    BY <2>1, RestLater, LineFront DEF IInv
  <2> QED
    BY <2>1, <2>2, <2>3 DEF Writes, Doing
<1>2. CASE WriteReplayWire
  <2>1. /\ Doing("write replay") /\ running /\ ~InFlight /\ Ready
        /\ sent' = Append(sent, Head(todo).frame)
        /\ UNCHANGED <<meta, outbound, commands, running, next_out>>
    BY <1>2 DEF WriteReplayWire, Doing, journal, counters, InFlight, Ready
  <2>2. ~Doing("write")'
    BY <2>1, NothingInFlight DEF IInv, Counted
  <2> QED
    BY <2>1, <2>2 DEF Writes
<1> QED
  BY <1>1, <1>2

\* The mark changes the command of a row, not its frame.
LEMMA MarkRests ==
  ASSUME IInv, IInv', Flow, MarkWritten
  PROVE  Rests
<1> DEFINE job == Head(todo)
<1>1. running /\ todo # <<>> /\ job.do = "mark" /\ InFlight /\ Ready
  BY DEF MarkWritten, Doing, InFlight, Ready
<1>2. job.seq = next_out /\ meta.next_out = next_out + 1
  BY <1>1, RestLater DEF IInv, HeadOK, Later, MarkOK, Counted
<1>3. CASE Fatal
  BY <1>3, FatalRests
<1>4. CASE ~Fatal
  <2> DEFINE written == [commands[job.key] EXCEPT !.phase = "Written"]
  <2>1. /\ job.key \in DOMAIN commands /\ job.seq \in DOMAIN outbound
        /\ commands' = [commands EXCEPT ![job.key] = written]
        /\ outbound' = [outbound EXCEPT ![job.seq].command = written]
        /\ UNCHANGED <<meta, sent>> /\ next_out' = job.seq + 1
    BY <1>4 DEF MarkWritten, Journal!MarkOutboundWritten
  <2> HIDE DEF written
  <2>2. /\ DOMAIN outbound' = DOMAIN outbound
        /\ outbound'[job.seq] = [outbound[job.seq] EXCEPT !.command = written]
        /\ \A n \in DOMAIN outbound : n # job.seq => outbound'[n] = outbound[n]
    BY <2>1 DEF IInv, RowsOK
  <2>3. outbound'[job.seq] = [command |-> written, wire |-> outbound[job.seq].wire]
    BY <2>1, <2>2 DEF IInv, RowsOK, RowOK
  <2>4. SameRows
    BY <2>2, <2>3 DEF SameRows
  <2>5. DOMAIN commands' = DOMAIN commands
    BY <2>1
  <2>6. ~Doing("write")'
    BY <1>2, <2>1, NothingInFlight
  <2> QED
    BY <1>1, <2>1, <2>4, <2>5, <2>6 DEF Rests
<1> QED
  BY <1>3, <1>4

\* What is committed of a received message leaves the outbound side alone.
LEMMA CommitExpectedRests ==
  ASSUME IInv, IInv', running, ~InFlight, Ready, NEW m, NEW buffer, NEW rest,
         CommitExpected(m, buffer, rest)
  PROVE  Rests
<1> DEFINE next == IF m.type = "4" THEN m.arg ELSE m.seq + 1
<1>1. CASE Fatal
  BY <1>1, FatalRests
<1>2. CASE ~Fatal
  <2>1. /\ UNCHANGED <<sent, outbound, commands, next_out>>
        /\ meta' = [meta EXCEPT !.next_in = next, !.next_event = @ + 1]
    BY <1>2 DEF CommitExpected, Journal!CommitInbound
  <2> HIDE DEF next
  <2>2. meta'.next_out = meta.next_out
    BY <2>1, InboundMeta DEF IInv
  <2> QED
    BY <2>1, <2>2, QuietRests
<1> QED
  BY <1>1, <1>2

\* So does whatever else handle_inbound does.
LEMMA ReceiveRests ==
  ASSUME IInv, IInv', NEW m, ReceiveFrame(m)
  PROVE  Rests
<1>1. running /\ ~InFlight /\ Ready
  BY DEF ReceiveFrame, AtSelect, InFlight, Doing, Ready
<1>2. CASE Fatal \/ UNCHANGED vars
  BY <1>2, FatalRests, StutterRests
<1>3. CASE ReceiveAhead(m) /\ ~Fatal
  BY <1>1, <1>3, QuietRests DEF ReceiveAhead, journal, counters
<1>4. CASE ReceiveBehind(m) /\ ~Fatal
  <2>1. /\ UNCHANGED <<sent, outbound, commands, next_out>>
        /\ meta' = [meta EXCEPT !.next_in = m.seq, !.next_event = @ + 1]
    BY <1>4 DEF ReceiveBehind, Journal!ResyncInbound
  <2>2. meta'.next_out = meta.next_out
    BY <2>1, InboundMeta DEF IInv
  <2> QED
    BY <1>1, <2>1, <2>2, QuietRests
<1>5. CASE ReceiveExpected(m)
  BY <1>1, <1>5, CommitExpectedRests DEF ReceiveExpected
<1> QED
  BY <1>2, <1>3, <1>4, <1>5 DEF ReceiveFrame, ReceiveDuplicate

\* And the work that follows from it.
LEMMA WorkRests ==
  ASSUME IInv, IInv', CommitResynced \/ DrainBuffer \/ JournalReplay \/ MarkReplayWritten
  PROVE  Rests
<1>1. running /\ ~InFlight /\ Ready
  BY DEF CommitResynced, DrainBuffer, JournalReplay, MarkReplayWritten, Doing, InFlight, Ready
<1>2. CASE CommitResynced
  BY <1>1, <1>2, CommitExpectedRests DEF CommitResynced
<1>3. CASE DrainBuffer
  <2>1. CASE next_in \in DOMAIN gap_buffer
    BY <1>1, <1>3, <2>1, CommitExpectedRests DEF DrainBuffer
  <2>2. CASE next_in \notin DOMAIN gap_buffer
    BY <1>1, <1>3, <2>2, QuietRests DEF DrainBuffer, journal, counters
  <2> QED
    BY <2>1, <2>2
<1>4. CASE JournalReplay
  <2>1. /\ UNCHANGED <<sent, outbound, commands, next_out>>
        /\ meta' = [meta EXCEPT !.next_transmission = @ + 1]
    BY <1>4 DEF JournalReplay, Journal!CommitTransmission, counters
  <2>2. meta' = [next_out |-> meta.next_out, next_in |-> meta.next_in,
                 next_event |-> meta.next_event,
                 next_transmission |-> meta.next_transmission + 1]
    BY <2>1 DEF IInv, MetaOK
  <2>3. meta'.next_out = meta.next_out
    BY <2>2
  <2> QED
    BY <1>1, <2>1, <2>3, QuietRests
<1>5. CASE MarkReplayWritten
  BY <1>1, <1>5, QuietRests DEF MarkReplayWritten, Journal!MarkTransmissionWritten, counters
<1> QED
  BY <1>2, <1>3, <1>4, <1>5

\* A Logout command and the timer give nothing away yet.
LEMMA AskedRests ==
  ASSUME IInv, IInv',
         RequestLogout \/ \E expired, silent \in BOOLEAN : Tick(expired, silent)
  PROVE  Rests
<1>1. running /\ ~InFlight /\ Ready
  BY DEF RequestLogout, Tick, AtSelect, InFlight, Doing, Ready
<1>2. CASE Fatal
  BY <1>2, FatalRests
<1>3. CASE ~Fatal
  <2>1. UNCHANGED <<journal, counters, sent>>
    BY <1>3 DEF RequestLogout, Tick
  <2> QED
    BY <1>1, <2>1, QuietRests DEF journal, counters
<1> QED
  BY <1>2, <1>3

\* A new connection begins with the reset or with the Logon.
LEMMA ConnectOpens ==
  ASSUME LinkConstants, Connect
  PROVE  Opens
<1>1. /\ sent' = <<>> /\ UNCHANGED <<meta, outbound, commands>>
      /\ \E reset \in ResetOnLogon :
           todo' = (IF reset THEN <<Reset>> ELSE <<>>) \o <<Logon>>
  BY DEF Connect, journal, Logon
<1>2. Reset.do = "reset" /\ Logon.do = "commit"
  BY DEF Reset, Logon, Send
<1>3. PICK reset \in ResetOnLogon : todo' = (IF reset THEN <<Reset>> ELSE <<>>) \o <<Logon>>
  BY <1>1
<1>4. CASE reset
  <2>1. todo' = <<Reset, Logon>>
    BY <1>3, <1>4, Double
  <2>2. todo' # <<>> /\ Head(todo') = Reset
    BY <2>1, Double
  <2> QED
    BY <1>1, <1>2, <2>2 DEF Opens, Doing, Ready
<1>5. CASE ~reset
  <2>1. todo' = <<Logon>> /\ ~StartsOver
    <3>1. todo' = <<>> \o <<Logon>>
      BY <1>3, <1>5
    <3>2. ~StartsOver
      <4>1. ResetOnLogon = {FALSE} \/ ResetOnLogon = {TRUE}
        BY DEF LinkConstants
      <4>2. ASSUME ResetOnLogon = {TRUE} PROVE FALSE
        BY <1>3, <1>5, <4>2
      <4>3. ASSUME ResetOnLogon = {FALSE} PROVE ~StartsOver
        BY <4>3 DEF StartsOver
      <4> QED
        BY <4>1, <4>2, <4>3
    <3> QED
      BY <3>1, <3>2, Single
  <2>2. Head(todo') = Logon
    BY <2>1, Single
  <2> QED
    BY <1>1, <1>2, <2>1, <2>2 DEF Opens, Doing
<1> QED
  BY <1>4, <1>5

\* The reset, before the first message.
LEMMA ResetResets ==
  ASSUME IInv, IInv', ResetJournal
  PROVE  Resets
<1>1. /\ todo # <<>> /\ Head(todo).do = "reset"
      /\ DOMAIN outbound' = {} /\ UNCHANGED <<commands, sent>>
      /\ meta' = [next_out |-> 1, next_in |-> 1, next_transmission |-> 1,
                  next_event |-> meta.next_event + 1]
      /\ next_out' = 1
  BY DEF ResetJournal, Journal!ResetSequences, Journal!NoRows, Doing
<1>2. sent = <<>> /\ StartsOver
  BY <1>1, RestLater DEF IInv, HeadOK, Later, StartsOver
<1>3. meta'.next_out = 1 /\ meta'.next_in = 1
  BY <1>1
<1>4. ~Doing("write")'
  BY <1>1, <1>3, NothingInFlight
<1> QED
  BY <1>1, <1>2, <1>3, <1>4 DEF Resets

\* A failed write may have been one.
LEMMA AwaitOut ==
  ASSUME AwaitFails
  PROVE  Rests \/ Writes
<1>1. /\ running /\ ~running' /\ UNCHANGED <<meta, outbound, commands>>
      /\ \/ UNCHANGED sent
         \/ /\ Doing("write") \/ Doing("write replay")
            /\ sent' = Append(sent, Head(todo).frame)
  BY DEF AwaitFails, Stop, journal, Doing
<1>2. CASE UNCHANGED sent
  BY <1>1, <1>2, StopRests
<1>3. CASE /\ Doing("write") \/ Doing("write replay")
           /\ sent' = Append(sent, Head(todo).frame)
  BY <1>1, <1>3 DEF Writes, Ready, Doing
<1> QED
  BY <1>1, <1>2, <1>3

Effect == Rests \/ Writes \/ Opens \/ Resets \/ \E key, frame : Commits(key, frame)

\* Every step of the session has one of these effects.
LEMMA Effects ==
  ASSUME Gated, LinkConstants, SessionInv, SessionInv',
         [Next]_vars \/ \E m : Asks(m) /\ ReceiveFrame(m)
  PROVE  Effect
<1> USE DEF SessionInv, Effect
<1>1. CASE UNCHANGED vars
  BY <1>1, StutterRests
<1>2. CASE Proceed
  BY <1>2, CommitAdminCommits, WritesOut, MarkRests, WorkRests, ResetResets DEF Proceed
<1>3. ASSUME NEW r \in Requests, NEW f \in Fingerprints, Submit(r, f) PROVE Effect
  BY <1>3, SubmitCommits
<1>4. CASE RequestLogout \/ \E expired, silent \in BOOLEAN : Tick(expired, silent)
  BY <1>4, AskedRests
<1>5. CASE Connect
  BY <1>5, ConnectOpens
<1>6. CASE Disconnect
  BY <1>6, StopRests DEF Disconnect, Stop, journal
<1>7. CASE AwaitFails
  BY <1>7, AwaitOut
<1>8. ASSUME NEW m, ReceiveFrame(m) PROVE Effect
  BY <1>8, ReceiveRests
<1>9. CASE RejectFrame
  BY <1>9, FatalRests DEF RejectFrame
<1>10. CASE Horizon
  BY <1>1, <1>10 DEF Horizon
<1> QED
  BY <1>1, <1>2, <1>3, <1>4, <1>5, <1>6, <1>7, <1>8, <1>9, <1>10 DEF Next, Local

-----------------------------------------------------------------------------
\* What the venue says: no gap fill is new, and it asks for a number.
Speech(x) == x.type # "4" /\ (x.type = "2" => x.arg \in Nat)

Speeches(messages) == \E S : messages \in Seq(S) /\ \A x \in S : Speech(x)

\* What a step of the venue does to the frames on their way.
Answers ==
  \E messages, replay :
    /\ VenueSends(messages, replay) /\ Speeches(messages)
    /\ replay = <<>> \/ \E begin : replay = VenueReplay(venue_log, begin)

Renumbers ==
  /\ StartsOver /\ Unread /\ venue_state = "connected"
  /\ \E answer :
       /\ Speech(answer)
       /\ venue_log' = <<answer>> /\ in_flight' = <<FrameOf(<<answer>>, 1)>>

Forgets == VenueRestarts /\ venue_log' = <<>> /\ UNCHANGED in_flight

\* Sequences of none, one and two.
LEMMA NoSpeech == Speeches(<<>>)
<1> DEFINE S == {}
<1>1. <<>> \in Seq(S) /\ \A x \in S : Speech(x)
  OBVIOUS
<1> HIDE DEF S
<1> QED
  BY <1>1 DEF Speeches

\* One message.
LEMMA OneSpeech ==
  ASSUME NEW x, Speech(x)
  PROVE  Speeches(<<x>>)
<1> DEFINE S == {x}
<1>1. <<x>> \in Seq(S) /\ \A y \in S : Speech(y)
  OBVIOUS
<1> HIDE DEF S
<1> QED
  BY <1>1 DEF Speeches

\* Two messages.
LEMMA TwoSpeeches ==
  ASSUME NEW x, NEW y, Speech(x), Speech(y)
  PROVE  Speeches(<<x, y>>)
<1> DEFINE S == {x, y}
<1>1. <<x, y>> \in Seq(S) /\ \A z \in S : Speech(z)
  OBVIOUS
<1> HIDE DEF S
<1> QED
  BY <1>1 DEF Speeches

\* A message of a type other than these is one.
LEMMA Says ==
  /\ \A type, arg : type \notin {"2", "4"} => Speech(Message(type, arg))
  /\ venue_next \in Nat => Speech(ResendRequest)
  BY DEF Speech, Message, ResendRequest

\* What a message that is expected makes the venue send.
LEMMA AnswersSpeech ==
  ASSUME NEW frame
  PROVE  Speeches(NewAnswers(frame))
<1>1. CASE frame.type = "5"
  BY <1>1, Says, OneSpeech DEF NewAnswers
<1>2. CASE frame.type = "1"
  BY <1>2, Says, OneSpeech DEF NewAnswers
<1>3. CASE frame.type \notin {"5", "1"}
  BY <1>3, NoSpeech DEF NewAnswers
<1> QED
  BY <1>1, <1>2, <1>3

\* Every step of the venue has one of these effects.
LEMMA VenueSpeaks ==
  ASSUME venue_next \in Nat, VenueNext
  PROVE  Answers \/ Renumbers \/ Forgets \/ UNCHANGED <<venue_log, in_flight>>
<1>1. CASE VenueLogon
  <2> DEFINE answer == Message("A", HeartBtInt)
  <2>1. Speech(answer) /\ Speech(ResendRequest)
    BY Says
  <2>2. \/ VenueSends(<<answer>>, <<>>)
        \/ VenueSends(<<answer, ResendRequest>>, <<>>)
        \/ /\ StartsOver /\ Unread /\ venue_state = "connected"
           /\ venue_log' = <<answer>> /\ in_flight' = <<FrameOf(<<answer>>, 1)>>
    BY <1>1 DEF VenueLogon
  <2> HIDE DEF answer
  <2> QED
    BY <2>1, <2>2, OneSpeech, TwoSpeeches DEF Answers, Renumbers
<1>2. CASE VenueReceive
  <2>1. CASE VenueTakes(NextUnread)
    <3>1. VenueSends(NewAnswers(NextUnread), ReplayAnswer(NextUnread))
      BY <2>1 DEF VenueTakes
    <3> QED
      BY <3>1, AnswersSpeech DEF ReplayAnswer, Answers
  <2>2. CASE VenueMisses(NextUnread)
    <3>1. VenueSends(IF venue_asked THEN <<>> ELSE <<ResendRequest>>, ReplayAnswer(NextUnread))
      BY <2>2 DEF VenueMisses
    <3>2. Speeches(IF venue_asked THEN <<>> ELSE <<ResendRequest>>)
      BY Says, NoSpeech, OneSpeech
    <3> QED
      BY <3>1, <3>2 DEF ReplayAnswer, Answers
  <2>3. CASE VenueSeesAgain(NextUnread)
    BY <2>3 DEF VenueSeesAgain
  <2> QED
    BY <1>2, <2>1, <2>2, <2>3 DEF VenueReceive
<1>3. CASE VenueExecutes
  <2>1. VenueSends(<<Message("8", Len(venue_log) + 1)>>, <<>>)
    BY <1>3 DEF VenueExecutes
  <2> QED
    BY <2>1, Says, OneSpeech DEF Answers
<1>4. CASE VenueLogsOut
  <2>1. VenueSends(<<Message("5", 0)>>, <<>>)
    BY <1>4 DEF VenueLogsOut
  <2> QED
    BY <2>1, Says, OneSpeech DEF Answers
<1>5. CASE VenueCloses
  BY <1>5 DEF VenueCloses
<1>6. CASE VenueRestart
  BY <1>6 DEF VenueRestart, Forgets
<1> QED
  BY <1>1, <1>2, <1>3, <1>4, <1>5, <1>6 DEF VenueNext

\* One sequence behind another.
LEMMA Joined ==
  ASSUME NEW S, NEW s \in Seq(S), NEW t \in Seq(S)
  PROVE  s \o t \in Seq(S) /\ Len(s \o t) = Len(s) + Len(t)
  OBVIOUS

\* What the venue sends goes behind what is on its way, in its log and on the
\* wire.
LEMMA Sends ==
  ASSUME NEW messages, NEW replay, VenueSends(messages, replay),
         IsSequence(venue_log), IsSequence(in_flight),
         IsSequence(messages), IsSequence(replay)
  PROVE  /\ IsSequence(venue_log')
         /\ Len(venue_log') = Len(venue_log) + Len(messages)
         /\ \A n \in 1..Len(venue_log) : venue_log'[n] = venue_log[n]
         /\ \A n \in 1..Len(messages) : venue_log'[Len(venue_log) + n] = messages[n]
         /\ IsSequence(in_flight')
         /\ \A i \in DOMAIN in_flight' :
              \/ \E k \in DOMAIN in_flight : in_flight'[i] = in_flight[k]
              \/ \E n \in 1..Len(messages) :
                   in_flight'[i] = FrameOf(venue_log', Len(venue_log) + n)
              \/ \E k \in DOMAIN replay : in_flight'[i] = replay[k]
<1>a. PICK L : venue_log \in Seq(L)
  BY DEF IsSequence
<1>b. PICK F : in_flight \in Seq(F)
  BY DEF IsSequence
<1>c. PICK M : messages \in Seq(M)
  BY DEF IsSequence
<1>d. PICK R : replay \in Seq(R)
  BY DEF IsSequence
<1> DEFINE N == {FrameOf(venue_log', Len(venue_log) + i) : i \in 1..Len(messages)}
           A == L \cup M
           B == F \cup N \cup R
<1>1. venue_log \in Seq(A) /\ messages \in Seq(A)
  BY <1>a, <1>c, WiderLine
<1> HIDE DEF A
<1>2. /\ venue_log' = venue_log \o messages
      /\ in_flight' = in_flight
           \o [i \in DOMAIN messages |-> FrameOf(venue_log', Len(venue_log) + i)]
           \o replay
  BY DEF VenueSends
<1>3. /\ venue_log' \in Seq(A)
      /\ Len(venue_log') = Len(venue_log) + Len(messages)
      /\ \A n \in 1..Len(venue_log) : venue_log'[n] = venue_log[n]
      /\ \A n \in 1..Len(messages) : venue_log'[Len(venue_log) + n] = messages[n]
  BY <1>1, <1>2
<1> DEFINE news == [i \in DOMAIN messages |-> FrameOf(venue_log', Len(venue_log) + i)]
<1>4. /\ news \in Seq(N) /\ Len(news) = Len(messages)
      /\ \A i \in 1..Len(messages) : news[i] = FrameOf(venue_log', Len(venue_log) + i)
  <2>1. DOMAIN messages = 1..Len(messages) /\ Len(messages) \in Nat
    BY <1>1
  <2>2. news \in [1..Len(messages) -> N]
    BY <2>1
  <2> QED
    BY <2>1, <2>2
<1> HIDE DEF news, N
<1>5. in_flight \in Seq(B) /\ news \in Seq(B) /\ replay \in Seq(B)
  BY <1>4, <1>b, <1>d, WiderLine
<1> HIDE DEF B
<1>6. in_flight' = in_flight \o news \o replay
  BY <1>2 DEF news
<1>7. /\ in_flight' \in Seq(B) /\ Len(in_flight) \in Nat /\ Len(replay) \in Nat
      /\ Len(messages) \in Nat
      /\ Len(in_flight') = Len(in_flight) + Len(messages) + Len(replay)
  <2>1. in_flight \o news \in Seq(B) /\ Len(in_flight \o news) = Len(in_flight) + Len(news)
    BY <1>5, Joined
  <2>2. /\ in_flight' \in Seq(B)
        /\ Len(in_flight') = Len(in_flight \o news) + Len(replay)
    BY <1>5, <1>6, <2>1, Joined
  <2>3. Len(in_flight) \in Nat /\ Len(replay) \in Nat /\ Len(messages) \in Nat
    BY <1>1, <1>5
  <2> QED
    BY <1>4, <2>1, <2>2, <2>3
<1>8. ASSUME NEW i \in DOMAIN in_flight'
      PROVE  \/ \E k \in DOMAIN in_flight : in_flight'[i] = in_flight[k]
             \/ \E n \in 1..Len(messages) : in_flight'[i] = news[n]
             \/ \E k \in DOMAIN replay : in_flight'[i] = replay[k]
  <2>1. i \in 1..(Len(in_flight) + Len(messages) + Len(replay))
    BY <1>7
  <2>2. CASE i <= Len(in_flight)
    <3>1. i \in DOMAIN in_flight /\ in_flight'[i] = in_flight[i]
      BY <1>4, <1>5, <1>6, <1>7, <2>1, <2>2
    <3> QED
      BY <3>1
  <2>3. CASE Len(in_flight) < i /\ i <= Len(in_flight) + Len(messages)
    <3>1. PICK n : n = i - Len(in_flight)
      OBVIOUS
    <3>2. n \in 1..Len(messages) /\ in_flight'[i] = news[n]
      BY <1>4, <1>5, <1>6, <1>7, <2>1, <2>3, <3>1
    <3> QED
      BY <3>2
  <2>4. CASE Len(in_flight) + Len(messages) < i
    <3>1. PICK k : k = i - (Len(in_flight) + Len(messages))
      OBVIOUS
    <3>2. k \in DOMAIN replay /\ in_flight'[i] = replay[k]
      BY <1>4, <1>5, <1>6, <1>7, <2>1, <2>4, <3>1
    <3> QED
      BY <3>2
  <2> QED
    BY <1>7, <2>1, <2>2, <2>3, <2>4
<1>9. \A i \in DOMAIN in_flight' :
        \/ \E k \in DOMAIN in_flight : in_flight'[i] = in_flight[k]
        \/ \E n \in 1..Len(messages) :
             in_flight'[i] = FrameOf(venue_log', Len(venue_log) + n)
        \/ \E k \in DOMAIN replay : in_flight'[i] = replay[k]
  BY <1>4, <1>8
<1>10. IsSequence(venue_log') /\ IsSequence(in_flight')
  BY <1>3, <1>7 DEF IsSequence
<1> QED
  BY <1>3, <1>9, <1>10

\* What a replay repeats is an execution or a gap fill.
LEMMA ReplayOfIs ==
  ASSUME NEW log, NEW n
  PROVE  /\ ReplayOf(log, n).seq = n
         /\ IsExecution(log, n) =>
              ReplayOf(log, n).type = log[n].type /\ ReplayOf(log, n).arg = log[n].arg
         /\ ~IsExecution(log, n) =>
              /\ ReplayOf(log, n).type = "4"
              /\ ReplayOf(log, n).arg = VenueFill(log, n).arg
<1>1. CASE IsExecution(log, n)
  <2>1. FrameOf(log, n) = Frame(log[n].type, n, log[n].arg)
    BY DEF FrameOf, Frame
  <2>2. ReplayOf(log, n) = Repeated(FrameOf(log, n))
    BY <1>1 DEF ReplayOf
  <2> QED
    BY <1>1, <2>1, <2>2, RepeatedKeeps
<1>2. CASE ~IsExecution(log, n)
  <2>1. PICK arg : VenueFill(log, n) = Frame("4", n, arg)
    BY DEF VenueFill
  <2>2. VenueFill(log, n).arg = arg
    BY <2>1 DEF Frame
  <2>3. ReplayOf(log, n) = Repeated(VenueFill(log, n))
    BY <1>2 DEF ReplayOf
  <2> QED
    BY <1>2, <2>1, <2>2, <2>3, RepeatedKeeps
<1> QED
  BY <1>1, <1>2

\* The starts of a replay are numbers of the log, finitely many.
LEMMA StartsFinite ==
  ASSUME NEW log, NEW L, log \in Seq(L), NEW begin
  PROVE  /\ ReplayStarts(log, begin) \subseteq 1..Len(log)
         /\ IsFiniteSet(ReplayStarts(log, begin))
         /\ Cardinality(ReplayStarts(log, begin)) \in Nat
<1>1. DOMAIN log = 1..Len(log) /\ Len(log) \in Nat
  OBVIOUS
<1>2. ReplayStarts(log, begin) \subseteq 1..Len(log)
  BY <1>1 DEF ReplayStarts
<1>3. IsFiniteSet(1..Len(log))
  BY <1>1, FS_Interval
<1>4. IsFiniteSet(ReplayStarts(log, begin))
  BY <1>2, <1>3, FS_Subset
<1> QED
  BY <1>2, <1>4, FS_CardinalityType

\* A replay is a sequence of such frames, and asks for nothing.
LEMMA ReplayTyped ==
  ASSUME NEW log, NEW L, log \in Seq(L), NEW begin
  PROVE  /\ IsSequence(VenueReplay(log, begin))
         /\ \A i \in DOMAIN VenueReplay(log, begin) :
              /\ VenueReplay(log, begin)[i].type # "2"
              /\ \E n : VenueReplay(log, begin)[i] = ReplayOf(log, n)
<1> DEFINE starts == ReplayStarts(log, begin)
           start(i) == CHOOSE n \in starts : Cardinality({k \in starts : k < n}) = i - 1
           R == {ReplayOf(log, start(i)) : i \in 1..Cardinality(starts)}
<1>1. VenueReplay(log, begin) = [i \in 1..Cardinality(starts) |-> ReplayOf(log, start(i))]
  BY DEF VenueReplay
<1>2. Cardinality(starts) \in Nat
  BY StartsFinite
<1> HIDE DEF starts, start
<1>3. VenueReplay(log, begin) \in [1..Cardinality(starts) -> R]
  BY <1>1
<1>4. VenueReplay(log, begin) \in Seq(R)
  BY <1>2, <1>3
<1>5. ASSUME NEW n PROVE ReplayOf(log, n).type # "2"
  BY ReplayOfIs DEF IsExecution
<1>6. \A i \in DOMAIN VenueReplay(log, begin) :
        VenueReplay(log, begin)[i] = ReplayOf(log, start(i))
  BY <1>1
<1> HIDE DEF R
<1> QED
  BY <1>4, <1>5, <1>6 DEF IsSequence

-----------------------------------------------------------------------------
\* A message of the log, as it is sent.
LEMMA FirstSpeech ==
  ASSUME NEW log, NEW n, Speech(log[n])
  PROVE  /\ Asks(FrameOf(log, n)) /\ FrameOf(log, n).type # "4"
         /\ FrameOf(log, n).seq = n
         /\ FrameOf(log, n).type = log[n].type /\ FrameOf(log, n).arg = log[n].arg
  BY DEF Asks, FrameOf, Speech

\* What the venue sends keeps that.
LEMMA AnswersCarried ==
  ASSUME Carried, Answers
  PROVE  Carried'
<1>1. PICK messages, replay :
        /\ VenueSends(messages, replay) /\ Speeches(messages)
        /\ replay = <<>> \/ \E begin : replay = VenueReplay(venue_log, begin)
  BY DEF Answers
<1>2. PICK M : messages \in Seq(M) /\ \A x \in M : Speech(x)
  BY <1>1 DEF Speeches
<1>3. IsSequence(messages)
  BY <1>2 DEF IsSequence
<1>4. IsSequence(replay) /\ \A k \in DOMAIN replay : Asks(replay[k])
  <2>1. CASE replay = <<>>
    <3>1. replay \in Seq({1}) /\ DOMAIN replay = {}
      BY <2>1
    <3> QED
      BY <3>1 DEF IsSequence
  <2>2. ASSUME NEW begin, replay = VenueReplay(venue_log, begin)
        PROVE  IsSequence(replay) /\ \A k \in DOMAIN replay : Asks(replay[k])
    <3>1. PICK L : venue_log \in Seq(L)
      BY DEF Carried, IsSequence
    <3> QED
      BY <2>2, <3>1, ReplayTyped DEF Asks
  <2> QED
    BY <1>1, <2>1, <2>2
<1>5. IsSequence(venue_log) /\ IsSequence(in_flight)
  BY DEF Carried
<1>6. /\ IsSequence(venue_log') /\ IsSequence(in_flight')
      /\ \A n \in 1..Len(messages) : venue_log'[Len(venue_log) + n] = messages[n]
      /\ \A i \in DOMAIN in_flight' :
           \/ \E k \in DOMAIN in_flight : in_flight'[i] = in_flight[k]
           \/ \E n \in 1..Len(messages) :
                in_flight'[i] = FrameOf(venue_log', Len(venue_log) + n)
           \/ \E k \in DOMAIN replay : in_flight'[i] = replay[k]
  BY <1>1, <1>3, <1>4, <1>5, Sends
<1>7. \A n \in 1..Len(messages) : Speech(messages[n])
  BY <1>2
<1>8. \A n \in 1..Len(messages) : Asks(FrameOf(venue_log', Len(venue_log) + n))
  BY <1>6, <1>7, FirstSpeech
<1>9. \A i \in DOMAIN in_flight' : Asks(in_flight'[i])
  BY <1>4, <1>6, <1>8 DEF Carried
<1> QED
  BY <1>6, <1>9 DEF Carried

\* So does every step over the connection.
LEMMA CarriedKept ==
  ASSUME Carried, venue_next \in Nat, [LinkNext]_linkvars
  PROVE  Carried'
<1>1. CASE VenueNext
  <2>1. CASE Answers
    BY <2>1, AnswersCarried
  <2>2. CASE Renumbers
    <3>1. PICK answer :
            /\ Speech(answer)
            /\ venue_log' = <<answer>> /\ in_flight' = <<FrameOf(<<answer>>, 1)>>
      BY <2>2 DEF Renumbers
    <3>2. Asks(FrameOf(<<answer>>, 1))
      <4>1. <<answer>>[1] = answer
        OBVIOUS
      <4> QED
        BY <3>1, <4>1, FirstSpeech
    <3>3. PICK f : f = FrameOf(<<answer>>, 1)
      OBVIOUS
    <3>4. venue_log' \in Seq({answer}) /\ in_flight' \in Seq({f})
      BY <3>1, <3>3
    <3>5. \A i \in DOMAIN in_flight' : in_flight'[i] = f
      BY <3>1, <3>3
    <3> QED
      BY <3>2, <3>3, <3>4, <3>5 DEF Carried, IsSequence
  <2>3. CASE Forgets
    <3>1. venue_log' \in Seq({1}) /\ in_flight' = in_flight
      BY <2>3 DEF Forgets
    <3> QED
      BY <3>1 DEF Carried, IsSequence
  <2>4. CASE UNCHANGED <<venue_log, in_flight>>
    BY <2>4 DEF Carried
  <2> QED
    BY <1>1, <2>1, <2>2, <2>3, <2>4, VenueSpeaks
<1>2. CASE Deliver
  <2>1. PICK S : in_flight \in Seq(S)
    BY DEF Carried, IsSequence
  <2>2. in_flight # <<>> /\ in_flight' = Tail(in_flight) /\ UNCHANGED venue_log
    BY <1>2 DEF Deliver
  <2>3. /\ in_flight' \in Seq(S) /\ Len(in_flight') = Len(in_flight) - 1
        /\ \A i \in 1..Len(in_flight') : in_flight'[i] = in_flight[i + 1]
    BY <2>1, <2>2
  <2>4. \A i \in DOMAIN in_flight' : i + 1 \in DOMAIN in_flight
    BY <2>1, <2>3
  <2> QED
    BY <2>2, <2>3, <2>4 DEF Carried, IsSequence
<1>3. CASE Reconnect
  <2>1. in_flight' = <<>> /\ UNCHANGED venue_log
    BY <1>3 DEF Reconnect
  <2>2. in_flight' \in Seq({1}) /\ DOMAIN in_flight' = {}
    BY <2>1
  <2> QED
    BY <2>1, <2>2 DEF Carried, IsSequence
<1>4. CASE UNCHANGED <<venue_log, in_flight>>
  BY <1>4 DEF Carried
<1> QED
  BY <1>1, <1>2, <1>3, <1>4 DEF LinkNext, SessionAlone, HangUp, linkvars, venue

-----------------------------------------------------------------------------
\* A frame that was sent ends behind its number, before the next one.
LEMMA UptoIs ==
  ASSUME SessionInv, NEW i \in DOMAIN sent
  PROVE  /\ sent[i].seq \in Nat /\ Upto(sent[i]) \in Nat /\ meta.next_out \in Nat
         /\ sent[i].seq < Upto(sent[i]) /\ Upto(sent[i]) <= meta.next_out
<1>1. FillOK(sent[i]) /\ meta.next_out \in Nat
  BY DEF SessionInv, Fills, SentFills, IInv, MetaOK
<1> QED
  BY <1>1 DEF FillOK, Upto

\* What is written is new if it was committed, a repetition if it is replayed.
LEMMA AtHand ==
  ASSUME SessionInv
  PROVE  /\ Doing("write") => ~Head(todo).frame.possdup
         /\ Doing("write replay") => Head(todo).frame.possdup
<1>1. CASE todo = <<>>
  BY <1>1 DEF Doing
<1>2. CASE todo # <<>>
  <2>1. HeadOK(Head(todo))
    BY <1>2, RestLater DEF SessionInv, IInv
  <2> QED
    BY <2>1 DEF HeadOK, Later, WriteOK, ReplayOK, Doing
<1> QED
  BY <1>1, <1>2

\* A frame is as its row has it.
LEMMA AsJournaled ==
  ASSUME NEW f, NEW type, NEW n, NEW arg, AsFirstSent(f) = Frame(type, n, arg)
  PROVE  f.type = type /\ f.arg = arg
<1>1. DOMAIN AsFirstSent(f) = DOMAIN f
  BY DEF AsFirstSent, Flagged
<1>2. DOMAIN Frame(type, n, arg) = {"type", "seq", "possdup", "arg", "end"}
  BY DEF Frame
<1>3. "type" \in DOMAIN f /\ "arg" \in DOMAIN f
  BY <1>1, <1>2
<1>4. AsFirstSent(f).type = f.type /\ AsFirstSent(f).arg = f.arg
  BY <1>3 DEF AsFirstSent, Flagged
<1>5. Frame(type, n, arg).type = type /\ Frame(type, n, arg).arg = arg
  BY DEF Frame
<1> QED
  BY <1>4, <1>5

\* The order that is sent is the one of its row.
LEMMA SentOrder ==
  ASSUME SessionInv, OrderRows, NEW i \in DOMAIN sent, sent[i].type = "D"
  PROVE  /\ sent[i].seq \in DOMAIN outbound
         /\ outbound[sent[i].seq].wire.type = "D"
         /\ outbound[sent[i].seq].wire.arg = sent[i].arg
         /\ sent[i].arg \in DOMAIN commands
<1> DEFINE n == sent[i].seq
<1>1. n \in DOMAIN outbound /\ outbound[n].wire = AsFirstSent(sent[i])
  BY DEF SessionInv, IInv, WireJournaled
<1>2. outbound[n].wire = Frame(outbound[n].wire.type, n, outbound[n].wire.arg)
  BY <1>1 DEF SessionInv, IInv, RowsOK, RowOK
<1> HIDE DEF n
<1>3. outbound[n].wire.type = "D" /\ outbound[n].wire.arg = sent[i].arg
  BY <1>1, <1>2, AsJournaled
<1>4. sent[i].arg \in DOMAIN commands
  BY <1>1, <1>3 DEF OrderRows
<1> QED
  BY <1>1, <1>3, <1>4 DEF n

-----------------------------------------------------------------------------
\* What the session does leaves the venue's side, but for the frames on their
\* way.
SameVenue == UNCHANGED <<venue_state, venue_next, venue_read, venue_orders>>

\* Nothing new is written: all of it stays.
LEMMA RestsOrderly ==
  ASSUME Orderly, Rests, SameVenue
  PROVE  Orderly'
<1>1. Ascending' /\ OrderRows'
  BY DEF Orderly, Rests, SameRows, Ascending, OrderRows
<1>2. Expects'
  BY DEF Orderly, Rests, SameVenue, Expects, Follows
<1>3. \A n : Taken(n)' => Taken(n)
  BY DEF Rests, SameRows, SameVenue, Taken
<1>4. Settled'
  BY <1>3 DEF Orderly, Rests, SameRows, SameVenue, Settled, Follows
<1>5. Unheard'
  BY <1>3 DEF Orderly, Rests, SameRows, SameVenue, Unheard
<1>6. VenueOK' /\ OrdersTakenOnce'
  BY DEF Orderly, Rests, SameVenue, VenueOK, IsSequence, OrdersTakenOnce
<1> QED
  BY <1>1, <1>2, <1>4, <1>5, <1>6 DEF Orderly

\* A commit takes the next number, which is behind everything, and a key no
\* order had.
LEMMA CommitsOrderly ==
  ASSUME SessionInv, Orderly, SameVenue, NEW key, NEW frame, Commits(key, frame)
  PROVE  Orderly'
<1>1. /\ meta.next_out \in Nat /\ meta.next_out >= 1
      /\ \A n \in DOMAIN outbound : n \in Nat /\ n < meta.next_out
  BY DEF SessionInv, IInv, MetaOK, RowsOK, RowOK, Orderly, OrderRows
<1>2. Ascending'
  <2>1. \A i \in DOMAIN sent : Upto(sent[i]) <= meta.next_out
    BY UptoIs
  <2> QED
    BY <2>1 DEF Orderly, Commits, Ascending
<1>3. OrderRows'
  <2>1. meta'.next_out >= 1 /\ \A n \in DOMAIN outbound' : n >= 1
    BY <1>1 DEF Orderly, OrderRows, Commits
  <2>2. ASSUME NEW n \in DOMAIN outbound', outbound'[n].wire.type = "D"
        PROVE  /\ outbound'[n].wire.arg \in DOMAIN commands'
               /\ n = meta.next_out => outbound'[n].wire.arg = key
               /\ n # meta.next_out =>
                    /\ n \in DOMAIN outbound /\ outbound'[n].wire = outbound[n].wire
                    /\ outbound'[n].wire.arg \in DOMAIN commands
    BY <2>2 DEF Orderly, OrderRows, Commits
  <2>3. ASSUME NEW n \in DOMAIN outbound', NEW k \in DOMAIN outbound',
               outbound'[n].wire.type = "D", outbound'[k].wire.type = "D",
               outbound'[n].wire.arg = outbound'[k].wire.arg
        PROVE  n = k
    BY <2>2, <2>3 DEF Orderly, OrderRows, Commits
  <2> QED
    BY <2>1, <2>2, <2>3 DEF OrderRows
<1>4. Expects'
  <2>1. /\ Head(todo').frame.seq = meta.next_out /\ meta'.next_out = meta.next_out + 1
        /\ UNCHANGED <<sent, venue_next, venue_read>> /\ venue_next \in Nat
    BY DEF Orderly, Commits, SameVenue, VenueOK
  <2>2. ASSUME Follows'
        PROVE  /\ venue_next <= meta.next_out
               /\ \A k \in DOMAIN sent :
                    k > venue_read /\ ~sent[k].possdup => venue_next <= sent[k].seq
    BY <2>2 DEF Orderly, SameVenue, Expects, Follows
  <2>3. venue_next <= meta.next_out => venue_next <= meta.next_out + 1
    BY <1>1, <2>1
  <2> QED
    BY <2>1, <2>2, <2>3 DEF Expects
<1>5. ASSUME NEW n, Taken(n)' PROVE Taken(n)
  <2>1. PICK i \in DOMAIN venue_orders : venue_orders[i] = outbound'[n].wire.arg
    BY <1>5 DEF Taken, SameVenue
  <2>2. outbound'[n].wire.arg \in DOMAIN commands
    BY <2>1 DEF Orderly, OrdersTakenOnce
  <2>3. n \in DOMAIN outbound' /\ outbound'[n].wire.type = "D"
    BY <1>5 DEF Taken
  <2>4. n \in DOMAIN outbound /\ outbound'[n].wire = outbound[n].wire
    BY <2>2, <2>3 DEF Commits
  <2> QED
    BY <2>1, <2>3, <2>4 DEF Taken
<1>6. Settled'
  <2>1. \A n : Taken(n)' => n \in DOMAIN outbound
    BY <1>5 DEF Taken
  <2> QED
    BY <1>5, <2>1 DEF Orderly, SameVenue, Settled, Follows
<1>7. Unheard'
  <2>1. \A n : Taken(n)' => n \in DOMAIN outbound /\ Taken(n)
    BY <1>5 DEF Taken
  <2> QED
    BY <1>1, <2>1 DEF Orderly, SameVenue, Unheard, Commits
<1>8. VenueOK' /\ OrdersTakenOnce'
  BY DEF Orderly, Commits, SameVenue, VenueOK, IsSequence, OrdersTakenOnce
<1> QED
  BY <1>2, <1>3, <1>4, <1>6, <1>7, <1>8 DEF Orderly

\* A write brings the frame at hand onto the wire.
LEMMA WritesOrderly ==
  ASSUME SessionInv, SessionInv', Orderly, SameVenue, Writes
  PROVE  Orderly'
<1> DEFINE frame == Head(todo).frame
<1>1. sent' = Append(sent, frame) /\ UNCHANGED <<meta, outbound, commands>>
  BY DEF Writes
<1>2. frame.possdup \/ Doing("write")
  BY AtHand DEF Writes
<1> HIDE DEF frame
<1>3. /\ Len(sent) \in Nat
      /\ DOMAIN sent = 1..Len(sent) /\ DOMAIN sent' = 1..(Len(sent) + 1)
      /\ sent'[Len(sent) + 1] = frame
      /\ \A i \in 1..Len(sent) : sent'[i] = sent[i]
      /\ sent' # <<>>
      /\ sent # <<>> => sent'[1] = sent[1]
      /\ sent = <<>> => sent'[1] = frame
  BY <1>1, WireAppends DEF SessionInv, IInv
<1>4. ~Doing("write")' /\ Ready
  BY DEF Writes
<1>5. Ascending'
  <2>1. ASSUME NEW i \in DOMAIN sent', NEW k \in DOMAIN sent', i < k, ~sent'[k].possdup
        PROVE  Upto(sent'[i]) <= sent'[k].seq
    <3>1. i \in DOMAIN sent /\ sent'[i] = sent[i]
      BY <1>3, <2>1
    <3>2. CASE k \in DOMAIN sent
      <4>1. sent'[k] = sent[k]
        BY <1>3, <3>2
      <4> QED
        BY <2>1, <3>1, <3>2, <4>1 DEF Orderly, Ascending
    <3>3. CASE k = Len(sent) + 1
      <4>1. sent'[k] = frame /\ Doing("write")
        BY <1>2, <1>3, <2>1, <3>3
      <4> QED
        BY <3>1, <4>1 DEF Orderly, Ascending, frame
    <3> QED
      BY <1>3, <3>2, <3>3
  <2>2. \A i, k \in DOMAIN sent' : i < k /\ ~sent'[k].possdup => Upto(sent'[i]) <= sent'[k].seq
    BY <2>1
  <2> QED
    BY <1>4, <2>2 DEF Ascending, Upto
<1>6. OrderRows'
  BY <1>1 DEF Orderly, OrderRows
<1>7. Expects'
  <2>1. ASSUME Follows, NEW k \in DOMAIN sent', k > venue_read, ~sent'[k].possdup
        PROVE  venue_next <= sent'[k].seq
    <3>1. CASE k \in DOMAIN sent
      BY <1>3, <2>1, <3>1 DEF Orderly, Expects
    <3>2. CASE k = Len(sent) + 1
      BY <1>2, <1>3, <2>1, <3>2 DEF Orderly, Expects, frame
    <3> QED
      BY <1>3, <3>1, <3>2
  <2>2. Follows' => Follows
    BY DEF SameVenue, Follows
  <2> QED
    BY <1>1, <1>4, <2>1, <2>2 DEF Orderly, SameVenue, Expects
<1>8. \A n : Taken(n)' => Taken(n)
  BY <1>1 DEF SameVenue, Taken
<1>9. Settled'
  BY <1>1, <1>8 DEF Orderly, SameVenue, Settled, Follows
<1>10. Unheard'
  <2>1. sent = <<>> => Doing("write")
    <3>1. ~sent'[1].possdup
      BY <1>3 DEF SessionInv, Numbered
    <3> QED
      BY <1>2, <1>3, <3>1
  <2>2. ASSUME venue_state = "connected", NEW n \in DOMAIN outbound, Taken(n)
        PROVE  n < sent'[1].seq /\ ~StartsOver
    BY <1>3, <1>4, <2>1, <2>2 DEF Orderly, Unheard, frame
  <2> QED
    BY <1>1, <1>3, <1>4, <1>8, <2>2 DEF Orderly, SameVenue, Unheard
<1>11. VenueOK' /\ OrdersTakenOnce'
  BY <1>1, <1>3 DEF Orderly, SameVenue, VenueOK, IsSequence, OrdersTakenOnce
<1> QED
  BY <1>5, <1>6, <1>7, <1>9, <1>10, <1>11 DEF Orderly

\* On a new connection nothing was sent yet.
LEMMA OpensOrderly ==
  ASSUME Orderly, Opens, Reconnect
  PROVE  Orderly'
<1>1. /\ sent' = <<>> /\ DOMAIN sent' = {} /\ ~Doing("write")'
      /\ UNCHANGED <<meta, outbound, commands>>
      /\ StartsOver => ~Ready'
  BY DEF Opens
<1>2. /\ venue_state' = "connected" /\ venue_read' = 0
      /\ UNCHANGED <<venue_next, venue_orders>>
  BY DEF Reconnect
<1>3. Ascending' /\ OrderRows'
  BY <1>1 DEF Orderly, Ascending, OrderRows
<1>4. Follows' => Follows
  BY <1>2 DEF Follows
<1>5. Expects'
  BY <1>1, <1>2, <1>4 DEF Orderly, Expects
<1>6. Settled'
  BY <1>1, <1>2, <1>4 DEF Orderly, Settled, Taken
<1>7. Unheard'
  BY <1>1, <1>2 DEF Unheard
<1>8. VenueOK' /\ OrdersTakenOnce'
  BY <1>1, <1>2 DEF Orderly, VenueOK, IsSequence, OrdersTakenOnce
<1> QED
  BY <1>3, <1>5, <1>6, <1>7, <1>8 DEF Orderly

\* A reset leaves no row, and the venue has not heard anything.
LEMMA ResetsOrderly ==
  ASSUME Orderly, Resets, SameVenue
  PROVE  Orderly'
<1>1. /\ sent = <<>> /\ sent' = <<>> /\ DOMAIN sent' = {} /\ ~Doing("write")'
      /\ DOMAIN outbound' = {} /\ meta'.next_out = 1 /\ UNCHANGED commands /\ StartsOver
  BY DEF Resets
<1>2. ~Follows'
  BY <1>1 DEF Orderly, VenueOK, Follows, SameVenue
<1>3. Ascending' /\ OrderRows' /\ Expects' /\ Settled'
  BY <1>1, <1>2 DEF Ascending, OrderRows, Expects, Settled
<1>4. Unheard'
  BY <1>1 DEF Orderly, Unheard, SameVenue
<1>5. VenueOK' /\ OrdersTakenOnce'
  BY <1>1 DEF Orderly, SameVenue, VenueOK, IsSequence, OrdersTakenOnce
<1> QED
  BY <1>3, <1>4, <1>5 DEF Orderly

-----------------------------------------------------------------------------
\* What the venue does leaves the session's side.
SameSession == UNCHANGED vars

\* The frame the venue reads next.
LEMMA AtReading ==
  ASSUME SessionInv, Orderly, Unread
  PROVE  /\ venue_read + 1 \in DOMAIN sent /\ NextUnread = sent[venue_read + 1]
         /\ NextUnread.seq \in Nat /\ Upto(NextUnread) \in Nat
         /\ NextUnread.seq < Upto(NextUnread) /\ Upto(NextUnread) <= meta.next_out
         /\ \A k \in DOMAIN sent :
              k > venue_read + 1 /\ ~sent[k].possdup => Upto(NextUnread) <= sent[k].seq
         /\ Doing("write") => Upto(NextUnread) <= Head(todo).frame.seq
<1>1. PICK S : sent \in Seq(S)
  BY DEF SessionInv, IInv, SentOK
<1>2. venue_read \in Nat /\ venue_read < Len(sent)
  BY DEF Orderly, VenueOK, Unread
<1>3. venue_read + 1 \in DOMAIN sent /\ NextUnread = sent[venue_read + 1]
  BY <1>1, <1>2 DEF NextUnread
<1> QED
  BY <1>3, UptoIs DEF Orderly, Ascending

\* An expectation that is not beyond what the venue reads is not beyond what
\* follows it.
LEMMA Awaits ==
  ASSUME SessionInv, Orderly, Unread, SameSession, venue_read' = venue_read + 1,
         venue_next' \in Nat, venue_next' <= Upto(NextUnread)
  PROVE  Expects'
<1> DEFINE upto == Upto(NextUnread)
<1>1. /\ upto \in Nat /\ upto <= meta.next_out /\ meta.next_out \in Nat
      /\ \A k \in DOMAIN sent : k > venue_read + 1 /\ ~sent[k].possdup => upto <= sent[k].seq
      /\ Doing("write") => upto <= Head(todo).frame.seq
  BY AtReading DEF SessionInv, IInv, MetaOK
<1>2. UNCHANGED <<meta, sent, todo, running>>
  BY DEF SameSession, vars, journal
<1>3. \A k \in DOMAIN sent : sent[k].seq \in Nat
  BY UptoIs
<1>4. Doing("write") => Head(todo).frame.seq \in Nat
  BY NewFrame DEF SessionInv, Doing
<1> HIDE DEF upto
<1>5. venue_next' <= upto
  BY DEF upto
<1>6. venue_next' <= meta.next_out
  BY <1>1, <1>5
<1>7. Doing("write") => venue_next' <= Head(todo).frame.seq
  BY <1>1, <1>4, <1>5
<1>8. \A k \in DOMAIN sent : k > venue_read' /\ ~sent[k].possdup => venue_next' <= sent[k].seq
  BY <1>1, <1>3, <1>5
<1> QED
  BY <1>2, <1>6, <1>7, <1>8 DEF Expects, Doing

\* What only the session's side decides stays while the venue acts.
LEMMA SessionSide ==
  ASSUME Orderly, SameSession
  PROVE  Ascending' /\ OrderRows' /\ UNCHANGED <<meta, outbound, commands, sent, todo, running>>
  BY DEF Orderly, SameSession, vars, journal, Ascending, OrderRows, Doing

\* The venue answers the Logon: the first frame of the connection, behind all
\* orders it took before.
LEMMA LogonOrderly ==
  ASSUME SessionInv, Orderly, SameSession, VenueLogon
  PROVE  Orderly'
<1> DEFINE f == NextUnread
<1>1. /\ Unread /\ venue_state = "connected" /\ venue_state' = "logged_on"
      /\ venue_read' = venue_read + 1 /\ venue_orders' = venue_orders
  BY DEF VenueLogon
<1>2. /\ f.seq \in Nat /\ Upto(f) \in Nat /\ f.seq < Upto(f)
      /\ venue_read + 1 \in DOMAIN sent /\ f = sent[venue_read + 1]
  BY <1>1, AtReading
<1>3. venue_read = 0 /\ f = sent[1] /\ sent # <<>>
  <2>1. venue_read = 0
    BY <1>1 DEF Orderly, Unheard
  <2> QED
    BY <1>2, <2>1
<1>4. f.seq >= 1
  <2>1. ~sent[1].possdup
    BY <1>3 DEF SessionInv, Numbered
  <2>2. f.seq \in DOMAIN outbound
    BY <1>2, <1>3, <2>1 DEF SessionInv, IInv, WireJournaled
  <2> QED
    BY <2>2 DEF Orderly, OrderRows
<1>5. \/ StartsOver /\ venue_next' = 2
      \/ ~StartsOver /\ venue_next' = f.seq + 1
      \/ ~StartsOver /\ venue_next' = venue_next /\ venue_next # 0 /\ venue_next < f.seq
  <2> DEFINE expected == IF venue_next = 0 THEN f.seq ELSE venue_next
  <2>1. \/ StartsOver /\ venue_next' = 2
        \/ ~StartsOver /\ venue_next' = f.seq + 1
        \/ ~StartsOver /\ f.seq > expected /\ venue_next' = expected
    BY DEF VenueLogon
  <2>2. ~(f.seq > f.seq)
    BY <1>2
  <2> QED
    BY <1>2, <2>1, <2>2 DEF Orderly, VenueOK
<1>6. venue_next \in Nat
  BY DEF Orderly, VenueOK
<1> HIDE DEF f
<1>7. venue_next' \in Nat /\ venue_next' >= 1 /\ venue_next' <= Upto(f)
  BY <1>2, <1>4, <1>5, <1>6
<1>8. Expects'
  BY <1>1, <1>7, Awaits DEF f
<1>9. ASSUME NEW n \in DOMAIN outbound, Taken(n)
      PROVE  n < venue_next'
  <2>1. n < f.seq /\ ~StartsOver
    BY <1>1, <1>3, <1>9 DEF Orderly, Unheard
  <2>2. n \in Nat
    BY DEF SessionInv, IInv, RowsOK, RowOK
  <2>3. CASE venue_next' = f.seq + 1
    BY <1>2, <2>1, <2>2, <2>3
  <2>4. CASE venue_next' = venue_next /\ venue_next # 0
    <3>1. Follows
      BY <2>1 DEF Follows
    <3> QED
      BY <1>9, <2>4, <3>1 DEF Orderly, Settled
  <2> QED
    BY <1>5, <2>1, <2>3, <2>4
<1>10. /\ Ascending' /\ OrderRows'
       /\ UNCHANGED <<meta, outbound, commands, sent, todo, running>>
  BY SessionSide
<1>11. Settled'
  BY <1>1, <1>9, <1>10 DEF Settled, Taken
<1>12. Unheard' /\ OrdersTakenOnce'
  BY <1>1, <1>10 DEF Unheard, Orderly, OrdersTakenOnce
<1>13. VenueOK'
  <2>1. venue_read' \in Nat
    BY <1>1, <1>3
  <2>2. IsSequence(venue_orders')
    BY <1>1 DEF Orderly, VenueOK
  <2> QED
    BY <1>1, <1>3, <1>7, <1>10, <2>1, <2>2 DEF VenueOK
<1> QED
  BY <1>8, <1>10, <1>11, <1>12, <1>13 DEF Orderly

\* One more element at the end of a sequence.
LEMMA Appended ==
  ASSUME NEW S, NEW s \in Seq(S), NEW x \in S
  PROVE  /\ Append(s, x) \in Seq(S)
         /\ DOMAIN Append(s, x) = DOMAIN s \cup {Len(s) + 1}
         /\ Len(s) + 1 \notin DOMAIN s
         /\ Append(s, x)[Len(s) + 1] = x
         /\ \A k \in DOMAIN s : Append(s, x)[k] = s[k]
  OBVIOUS

\* The venue takes the frame it expects: an order that was taken before would
\* have a number behind it.
LEMMA TakesOrderly ==
  ASSUME SessionInv, Orderly, SameSession, Unread, venue_state = "logged_on",
         venue_read' = venue_read + 1, VenueTakes(NextUnread)
  PROVE  Orderly'
<1> DEFINE f == NextUnread
           i == venue_read + 1
<1>1. /\ f.seq = venue_next /\ venue_next' = Upto(f)
      /\ venue_orders' = IF f.type = "D" THEN Append(venue_orders, f.arg) ELSE venue_orders
      /\ venue_state' \in {"closed", "logged_on"}
  BY DEF VenueTakes, Upto
<1>2. /\ f.seq \in Nat /\ Upto(f) \in Nat /\ f.seq < Upto(f)
      /\ i \in DOMAIN sent /\ f = sent[i]
  BY AtReading
<1>3. venue_next \in Nat /\ venue_next >= 1 /\ Follows /\ sent # <<>>
  BY DEF Orderly, VenueOK, Follows
<1>4. f.type = "D" =>
        /\ f.seq \in DOMAIN outbound
        /\ outbound[f.seq].wire.type = "D" /\ outbound[f.seq].wire.arg = f.arg
        /\ f.arg \in DOMAIN commands
  BY <1>2, SentOrder DEF Orderly
<1>5. ASSUME NEW n, Taken(n) PROVE n < f.seq
  <2>1. n \in DOMAIN outbound /\ (venue_next = 0 \/ n < venue_next)
    BY <1>3, <1>5 DEF Orderly, Settled, Taken
  <2>2. venue_next # 0
    BY <1>3
  <2> QED
    BY <1>1, <2>1, <2>2
<1>6. PICK S : venue_orders \in Seq(S)
  BY DEF Orderly, VenueOK, IsSequence
<1>7. f.type = "D" => \A k \in DOMAIN venue_orders : venue_orders[k] # f.arg
  <2>1. ASSUME f.type = "D", NEW k \in DOMAIN venue_orders, venue_orders[k] = f.arg
        PROVE  FALSE
    <3>1. Taken(f.seq)
      BY <1>4, <2>1 DEF Taken
    <3>2. ~(f.seq < f.seq)
      BY <1>2
    <3> QED
      BY <1>5, <3>1, <3>2
  <2> QED
    BY <2>1
<1>8. /\ Ascending' /\ OrderRows'
      /\ UNCHANGED <<meta, outbound, commands, sent, todo, running>>
  BY SessionSide
<1> HIDE DEF f
<1>9. Expects'
  <2>1. Upto(f) <= Upto(f)
    BY <1>2
  <2>2. venue_next' \in Nat /\ venue_next' <= Upto(f)
    BY <1>1, <1>2, <2>1
  <2> QED
    BY <2>2, Awaits DEF f
<1>10. \/ venue_orders' = venue_orders
       \/ /\ f.type = "D" /\ IsSequence(venue_orders')
          /\ DOMAIN venue_orders' = DOMAIN venue_orders \cup {Len(venue_orders) + 1}
          /\ Len(venue_orders) + 1 \notin DOMAIN venue_orders
          /\ venue_orders'[Len(venue_orders) + 1] = f.arg
          /\ \A k \in DOMAIN venue_orders : venue_orders'[k] = venue_orders[k]
  <2>1. CASE f.type = "D"
    <3>1. PICK R : R = S \cup {f.arg}
      OBVIOUS
    <3>2. venue_orders \in Seq(R) /\ f.arg \in R
      BY <1>6, <3>1, WiderLine
    <3>3. venue_orders' = Append(venue_orders, f.arg)
      BY <1>1, <2>1
    <3>4. PICK a : a = f.arg
      OBVIOUS
    <3>5. /\ venue_orders' \in Seq(R)
          /\ DOMAIN venue_orders' = DOMAIN venue_orders \cup {Len(venue_orders) + 1}
          /\ Len(venue_orders) + 1 \notin DOMAIN venue_orders
          /\ venue_orders'[Len(venue_orders) + 1] = a
          /\ \A k \in DOMAIN venue_orders : venue_orders'[k] = venue_orders[k]
      BY <3>2, <3>3, <3>4, Appended
    <3> QED
      BY <2>1, <3>4, <3>5 DEF IsSequence
  <2> QED
    BY <1>1, <2>1
<1>11. OrdersTakenOnce'
  <2>1. CASE venue_orders' = venue_orders
    BY <1>8, <2>1 DEF Orderly, OrdersTakenOnce
  <2>2. CASE venue_orders' # venue_orders
    BY <1>4, <1>7, <1>8, <1>10, <2>2 DEF Orderly, OrdersTakenOnce
  <2> QED
    BY <2>1, <2>2
<1>12. ASSUME NEW n, Taken(n)' PROVE n = f.seq \/ Taken(n)
  <2>1. /\ n \in DOMAIN outbound /\ outbound[n].wire.type = "D"
        /\ \E k \in DOMAIN venue_orders' : venue_orders'[k] = outbound[n].wire.arg
    BY <1>8, <1>12 DEF Taken
  <2>2. PICK k \in DOMAIN venue_orders' : venue_orders'[k] = outbound[n].wire.arg
    BY <2>1
  <2>3. CASE k \in DOMAIN venue_orders /\ venue_orders'[k] = venue_orders[k]
    BY <2>1, <2>2, <2>3 DEF Taken
  <2>4. CASE f.type = "D" /\ venue_orders'[k] = f.arg
    BY <1>4, <2>1, <2>2, <2>4 DEF Orderly, OrderRows
  <2> QED
    BY <1>10, <2>2, <2>3, <2>4
<1>13. Settled'
  <2>1. ASSUME NEW n \in DOMAIN outbound, Taken(n)' PROVE n < venue_next'
    <3>1. n \in Nat
      BY DEF SessionInv, IInv, RowsOK, RowOK
    <3>2. n <= f.seq
      BY <1>2, <1>5, <1>12, <2>1, <3>1
    <3> QED
      BY <1>1, <1>2, <3>1, <3>2
  <2> QED
    BY <1>8, <2>1 DEF Settled
<1>14. Unheard'
  BY <1>1 DEF Unheard
<1>15. VenueOK'
  <2>1. IsSequence(venue_orders')
    BY <1>10 DEF Orderly, VenueOK
  <2>2. venue_next' \in Nat /\ venue_next' >= 1
    <3>1. PICK upto : upto = Upto(f)
      OBVIOUS
    <3>2. upto \in Nat /\ upto >= 1
      BY <1>2, <3>1
    <3> QED
      BY <1>1, <3>1, <3>2
  <2>3. venue_read' \in Nat
    <3>1. venue_read \in Nat
      BY DEF Orderly, VenueOK
    <3> QED
      BY <3>1
  <2> QED
    BY <1>1, <1>3, <1>8, <2>1, <2>2, <2>3 DEF VenueOK
<1> QED
  BY <1>8, <1>9, <1>11, <1>13, <1>14, <1>15 DEF Orderly

\* Whatever else it does, it expects the same and has taken the same.
LEMMA QuietOrderly ==
  ASSUME SessionInv, Orderly, SameSession, UNCHANGED <<venue_next, venue_orders>>,
         venue_state' \in {venue_state, "closed"},
         venue_read' = venue_read \/ (venue_read' = venue_read + 1 /\ venue_state = "logged_on")
  PROVE  Orderly'
<1>1. /\ Ascending' /\ OrderRows'
      /\ UNCHANGED <<meta, outbound, commands, sent, todo, running>>
  BY SessionSide
<1>2. Follows' => Follows
  BY DEF Follows
<1>3. venue_read \in Nat /\ venue_read' \in Nat /\ venue_read <= venue_read'
  <2>1. venue_read \in Nat
    BY DEF Orderly, VenueOK
  <2> QED
    BY <2>1
<1>4. Expects'
  <2>1. \A k \in DOMAIN sent : k > venue_read' => k > venue_read
    <3>1. PICK S : sent \in Seq(S)
      BY DEF SessionInv, IInv, SentOK
    <3>2. \A k \in DOMAIN sent : k \in Nat
      BY <3>1
    <3> QED
      BY <1>3, <3>2
  <2> QED
    BY <1>1, <1>2, <2>1 DEF Orderly, Expects, Doing
<1>5. Settled'
  BY <1>1, <1>2 DEF Orderly, Settled, Taken
<1>6. Unheard'
  BY <1>1 DEF Orderly, Unheard, Taken, Doing, Ready
<1>7. VenueOK' /\ OrdersTakenOnce'
  BY <1>1, <1>3 DEF Orderly, VenueOK, IsSequence, OrdersTakenOnce
<1> QED
  BY <1>1, <1>4, <1>5, <1>6, <1>7 DEF Orderly

\* A venue that forgets its numbers expects nothing.
LEMMA RestartOrderly ==
  ASSUME SessionInv, Orderly, SameSession, VenueRestart
  PROVE  Orderly'
<1>1. /\ venue_state = "closed" /\ venue_next' = 0
      /\ UNCHANGED <<venue_state, venue_read, venue_orders>>
  BY DEF VenueRestart
<1>2. /\ Ascending' /\ OrderRows'
      /\ UNCHANGED <<meta, outbound, commands, sent, todo, running>>
  BY SessionSide
<1>3. /\ meta.next_out \in Nat
      /\ \A k \in DOMAIN sent : sent[k].seq \in Nat
      /\ Doing("write") => Head(todo).frame.seq \in Nat
  BY UptoIs, NewFrame DEF SessionInv, IInv, MetaOK, Doing
<1>4. Expects'
  BY <1>1, <1>2, <1>3 DEF Expects, Doing
<1>5. Settled' /\ Unheard'
  BY <1>1 DEF Settled, Unheard
<1>6. VenueOK' /\ OrdersTakenOnce'
  BY <1>1, <1>2 DEF Orderly, VenueOK, IsSequence, OrdersTakenOnce
<1> QED
  BY <1>2, <1>4, <1>5, <1>6 DEF Orderly

\* All that the venue does.
LEMMA VenueOrderly ==
  ASSUME SessionInv, Orderly, SameSession, VenueNext
  PROVE  Orderly'
<1>1. CASE VenueLogon
  BY <1>1, LogonOrderly
<1>2. CASE VenueReceive
  <2>1. Unread /\ venue_state = "logged_on" /\ venue_read' = venue_read + 1
    BY <1>2 DEF VenueReceive
  <2>2. CASE VenueTakes(NextUnread)
    BY <2>1, <2>2, TakesOrderly
  <2>3. CASE VenueMisses(NextUnread)
    BY <2>1, <2>3, QuietOrderly DEF VenueMisses
  <2>4. CASE VenueSeesAgain(NextUnread)
    BY <2>1, <2>4, QuietOrderly DEF VenueSeesAgain
  <2> QED
    BY <1>2, <2>2, <2>3, <2>4 DEF VenueReceive
<1>3. CASE VenueExecutes
  BY <1>3, QuietOrderly DEF VenueExecutes
<1>4. CASE VenueLogsOut
  BY <1>4, QuietOrderly DEF VenueLogsOut
<1>5. CASE VenueCloses
  BY <1>5, QuietOrderly DEF VenueCloses
<1>6. CASE VenueRestart
  BY <1>6, RestartOrderly
<1> QED
  BY <1>1, <1>2, <1>3, <1>4, <1>5, <1>6 DEF VenueNext

-----------------------------------------------------------------------------
\* The session, the frames between the two, and the order on the wire.
LinkInv == SessionInv /\ Carried /\ Orderly

\* Nothing was sent, taken or journaled at first.
LEMMA LinkInvInitial == LinkInit => LinkInv
<1> SUFFICES ASSUME LinkInit PROVE LinkInv
  OBVIOUS
<1>1. Init /\ venue_state = "closed" /\ venue_log = <<>> /\ venue_next = 1
      /\ venue_read = 0 /\ venue_orders = <<>> /\ in_flight = <<>>
  BY DEF LinkInit
<1>2. SessionInv
  BY <1>1, IInvInitial, FlowInitial, NumbersInitial, FillsInitial DEF SessionInv
<1>3. \A s : s = <<>> => IsSequence(s) /\ DOMAIN s = {}
  <2>1. <<>> \in Seq({1}) /\ DOMAIN <<>> = {}
    OBVIOUS
  <2> QED
    BY <2>1 DEF IsSequence
<1>4. Carried
  BY <1>1, <1>3 DEF Carried
<1>5. /\ sent = <<>> /\ ~running /\ DOMAIN outbound = {} /\ meta.next_out = 1
  BY <1>1 DEF Init, Journal!Init, Journal!NoRows
<1>6. ~Doing("write") /\ DOMAIN sent = {}
  BY <1>3, <1>5 DEF Doing
<1>7. Ascending /\ OrderRows /\ Expects /\ Settled /\ Unheard
  BY <1>1, <1>5, <1>6 DEF Ascending, OrderRows, Expects, Settled, Unheard
<1>8. VenueOK /\ OrdersTakenOnce
  BY <1>1, <1>3 DEF VenueOK, OrdersTakenOnce
<1> QED
  BY <1>2, <1>4, <1>7, <1>8 DEF LinkInv, Orderly

\* A step is one of the venue's, a new connection, or one of the session with
\* the connection as it is.
LEMMA Sides ==
  ASSUME [LinkNext]_linkvars
  PROVE  \/ SameSession /\ VenueNext
         \/ Reconnect
         \/ SameVenue /\ ~Connect
         \/ SameVenue /\ SameSession
<1>1. CASE SessionAlone
  <2>1. running
    BY <1>1 DEF SessionAlone, Proceed, CommitAdmin, WriteWire, MarkWritten, JournalReplay,
       WriteReplayWire, MarkReplayWritten, CommitResynced, DrainBuffer, ResetJournal,
       Submit, RequestLogout, Tick, AwaitFails, AtSelect, Doing
  <2> QED
    BY <1>1, <2>1 DEF SessionAlone, venue, SameVenue, Connect
<1>2. CASE Deliver
  BY <1>2 DEF Deliver, ReceiveFrame, AtSelect, SameVenue, Connect
<1>3. CASE HangUp
  BY <1>3 DEF HangUp, Disconnect, AtSelect, venue, SameVenue, Connect
<1>4. CASE Horizon /\ UNCHANGED venue
  BY <1>4 DEF Horizon, venue, SameVenue, SameSession
<1>5. CASE UNCHANGED linkvars
  BY <1>5 DEF linkvars, venue, SameVenue, SameSession
<1> QED
  BY <1>1, <1>2, <1>3, <1>4, <1>5 DEF LinkNext, SameSession

\* Every step keeps the session's invariants.
LEMMA SessionHolds ==
  ASSUME Gated, LinkInv, [LinkNext]_linkvars
  PROVE  SessionInv' /\ ([Next]_vars \/ \E m : Asks(m) /\ ReceiveFrame(m))
<1>1. [Next]_vars \/ (in_flight # <<>> /\ ReceiveFrame(Head(in_flight)))
  BY SessionSteps
<1>2. in_flight # <<>> => Asks(Head(in_flight))
  <2>1. PICK S : in_flight \in Seq(S)
    BY DEF LinkInv, Carried, IsSequence
  <2>2. in_flight # <<>> => 1 \in DOMAIN in_flight /\ Head(in_flight) = in_flight[1]
    BY <2>1
  <2> QED
    BY <2>2 DEF LinkInv, Carried
<1>3. [Next]_vars \/ \E m : Asks(m) /\ ReceiveFrame(m)
  BY <1>1, <1>2
<1> QED
  BY <1>3, SessionKeeps DEF LinkInv

\* Every step keeps the order.
LEMMA LinkInvInductive ==
  ASSUME Gated, LinkInv, [LinkNext]_linkvars
  PROVE  LinkInv'
<1>1. SessionInv' /\ ([Next]_vars \/ \E m : Asks(m) /\ ReceiveFrame(m))
  BY SessionHolds
<1>2. Carried'
  BY CarriedKept DEF LinkInv, Orderly, VenueOK
<1>3. SessionInv /\ Orderly
  BY DEF LinkInv
<1>4. Effect
  BY <1>1, <1>3, LinkConstants, Effects
<1>5. Orderly'
  <2>1. CASE SameSession /\ VenueNext
    BY <1>3, <2>1, VenueOrderly
  <2>2. CASE Reconnect
    <3>1. Opens
      BY <2>2, LinkConstants, ConnectOpens DEF Reconnect
    <3> QED
      BY <1>3, <2>2, <3>1, OpensOrderly
  <2>3. CASE SameVenue /\ ~Connect
    <3>1. Rests \/ Writes \/ Resets \/ \E key, frame : Commits(key, frame)
      BY <1>4, <2>3 DEF Effect, Opens
    <3> QED
      BY <1>1, <1>3, <2>3, <3>1, RestsOrderly, WritesOrderly, ResetsOrderly, CommitsOrderly
  <2>4. CASE SameVenue /\ SameSession
    BY <1>3, <2>4, StutterRests, RestsOrderly DEF SameSession
  <2> QED
    BY <2>1, <2>2, <2>3, <2>4, Sides
<1> QED
  BY <1>1, <1>2, <1>5 DEF LinkInv

\* The venue takes each order at most once, and only orders the journal has:
\* whatever is replayed after whatever was lost, an order's number decides
\* whether it is new to the venue (submit_application, replay_validated_range).
THEOREM TakesOrdersOnce ==
  ASSUME Gated
  PROVE  LinkSpec => []OrdersTakenOnce
<1>1. LinkInit => LinkInv
  BY LinkInvInitial
<1>2. LinkInv /\ [LinkNext]_linkvars => LinkInv'
  BY LinkInvInductive
<1>3. LinkInv => OrdersTakenOnce
  BY DEF LinkInv, Orderly
<1> QED
  BY <1>1, <1>2, <1>3, PTL DEF LinkSpec

\* No new message is behind what the venue expects: reconnects, errors and
\* replays never make the session give a number twice (spawn_initiator
\* recovers its counters from the journal).
THEOREM SeesNoNumberTwice ==
  ASSUME Gated
  PROVE  LinkSpec => []NumbersNeverReused
<1>1. LinkInit => LinkInv
  BY LinkInvInitial
<1>2. LinkInv /\ [LinkNext]_linkvars => LinkInv'
  BY LinkInvInductive
<1>3. LinkInv => NumbersNeverReused
  <2> SUFFICES ASSUME LinkInv, Unread, ~NextUnread.possdup,
                      ~(venue_state = "connected" /\ StartsOver)
               PROVE  NextUnread.seq >= venue_next
    BY DEF NumbersNeverReused
  <2>1. venue_read + 1 \in DOMAIN sent /\ NextUnread = sent[venue_read + 1]
        /\ NextUnread.seq \in Nat
    BY AtReading DEF LinkInv
  <2>2. venue_next \in Nat /\ venue_read \in Nat /\ Follows
    BY DEF LinkInv, Orderly, VenueOK, Unread, Follows
  <2>3. venue_read + 1 > venue_read
    BY <2>2
  <2>4. venue_next <= NextUnread.seq
    BY <2>1, <2>2, <2>3 DEF LinkInv, Orderly, Expects
  <2> QED
    BY <2>1, <2>2, <2>4
<1> QED
  BY <1>1, <1>2, <1>3, PTL DEF LinkSpec

-----------------------------------------------------------------------------
\* What a step of the session does to what it has received.
\* No frame is kept that was not kept before.
FewerKept ==
  \A n \in DOMAIN gap_buffer' : n \in DOMAIN gap_buffer /\ gap_buffer'[n] = gap_buffer[n]

\* Nothing is committed.
Waits ==
  /\ meta'.next_in = meta.next_in /\ UNCHANGED inbound
  /\ FewerKept
  /\ Doing("expected")' => Doing("expected") /\ Head(todo').frame = Head(todo).frame

\* The frame that is due is committed.
Takes(m) ==
  /\ m.seq = meta.next_in /\ meta'.next_in = Upto(m)
  /\ m.seq \in DOMAIN inbound' /\ inbound'[m.seq].wire = m
  /\ \A n \in DOMAIN inbound \ {m.seq} : n \in DOMAIN inbound' /\ inbound'[n] = inbound[n]
  /\ FewerKept /\ ~Doing("expected")'

\* A frame is kept for later.
Buffers(m) ==
  /\ meta'.next_in = meta.next_in /\ UNCHANGED inbound
  /\ \A n \in DOMAIN gap_buffer' :
       gap_buffer'[n] = m \/ (n \in DOMAIN gap_buffer /\ gap_buffer'[n] = gap_buffer[n])
  /\ ~Doing("expected")'

\* The expectation moves back to a frame, which is committed next.
Realigns(m) ==
  /\ m.seq < meta.next_in /\ meta'.next_in = m.seq /\ UNCHANGED inbound
  /\ FewerKept
  /\ Doing("expected")' => Head(todo').frame = m

\* The numbering starts again.
Restarts == meta'.next_in = 1 /\ FewerKept /\ ~Doing("expected")'

\* A frame that is kept or realigned to.
Kept(m) ==
  \/ \E n \in DOMAIN gap_buffer : m = gap_buffer[n]
  \/ Doing("expected") /\ m = Head(todo).frame

\* What stops the task loses what it has received.
LEMMA StopWaits ==
  ASSUME NEW last, Stop(last), UNCHANGED journal
  PROVE  Waits
<1>1. DOMAIN gap_buffer' = {} /\ ~running' /\ UNCHANGED <<meta, inbound>>
  BY DEF Stop, Journal!NoRows, journal
<1> QED
  BY <1>1 DEF Waits, FewerKept, Doing

\* An error is such an end.
LEMMA FatalWaits ==
  ASSUME Fatal
  PROVE  Waits
  BY StopWaits DEF Fatal

\* Nothing happens.
LEMMA StutterWaits ==
  ASSUME UNCHANGED vars
  PROVE  Waits
  BY DEF vars, journal, Waits, FewerKept, Doing

\* Behind a first entry other than "expected" there is none of that kind.
LEMMA NeverBehind ==
  ASSUME Flow, todo # <<>>
  PROVE  Tail(todo) = <<>> \/ Head(Tail(todo)).do # "expected"
<1>1. Worklist(Head(todo), Tail(todo))
  BY DEF Flow, Shaped
<1>2. Head(<<Drain>>).do # "expected"
  BY DrainOnly
<1>3. Head(<<Logon>>).do # "expected"
  <2>1. Logon.do = "commit"
    BY DEF Logon, Send
  <2> QED
    BY <2>1, Single
<1>4. \A t : t = <<Head(t), Drain>> => t # <<>>
  BY Double
<1> QED
  BY <1>1, <1>2, <1>3, <1>4 DEF Worklist

\* Nothing is committed and nothing realigned to.
LEMMA GoesOn ==
  ASSUME meta'.next_in = meta.next_in, UNCHANGED <<inbound, gap_buffer>>,
         todo' = <<>> \/ Head(todo').do # "expected"
  PROVE  Waits
  BY DEF Waits, FewerKept, Doing

\* What was committed is written next.
LEMMA SendWaits ==
  ASSUME IInv, NEW c, NEW seq, NEW then, WriteCommitted(c, seq, then),
         meta'.next_in = meta.next_in, UNCHANGED inbound
  PROVE  Waits
<1> DEFINE job == Write(c.wire, c.request_id, seq, then)
           rest == IF todo = <<>> THEN <<>> ELSE Tail(todo)
<1>1. IsLine(rest)
  BY NothingLater, RestLater DEF IInv
<1>2. todo' = <<job>> \o rest /\ UNCHANGED gap_buffer
  BY DEF WriteCommitted
<1>3. job.do = "write"
  BY DEF Write
<1> HIDE DEF job, rest
<1>4. Head(todo') = job
  BY <1>1, <1>2, LineFront
<1> QED
  BY <1>2, <1>3, <1>4, GoesOn

\* A row of the outbound side leaves the inbound counter.
LEMMA OutboundMeta ==
  ASSUME IInv, NEW c, Journal!CommitOutbound(c)
  PROVE  meta'.next_in = meta.next_in /\ UNCHANGED inbound
<1>1. meta' = [meta EXCEPT !.next_out = @ + 1] /\ UNCHANGED inbound
  BY DEF Journal!CommitOutbound
<1>2. meta' = [next_out |-> meta.next_out + 1, next_in |-> meta.next_in,
               next_event |-> meta.next_event,
               next_transmission |-> meta.next_transmission]
  BY <1>1 DEF IInv, MetaOK
<1> QED
  BY <1>1, <1>2

\* A session message is journaled, or an error ends the task.
LEMMA CommitWaits ==
  ASSUME IInv, CommitAdmin
  PROVE  Waits
<1> DEFINE c == AdminCommit(Head(todo))
<1>1. CASE Fatal
  BY <1>1, FatalWaits
<1>2. CASE ~Fatal
  <2>1. PICK seq, then : /\ UNCHANGED journal \/ Journal!CommitOutbound(c)
                         /\ WriteCommitted(c, seq, then)
    BY <1>2 DEF CommitAdmin
  <2> HIDE DEF c
  <2>2. meta'.next_in = meta.next_in /\ UNCHANGED inbound
    BY <2>1, OutboundMeta DEF journal
  <2> QED
    BY <2>1, <2>2, SendWaits
<1> QED
  BY <1>1, <1>2

\* So is an order.
LEMMA SubmitWaits ==
  ASSUME IInv, NEW r, NEW f, Submit(r, f)
  PROVE  Waits
<1> DEFINE c == OrderCommit(r, f)
<1>1. CASE Fatal \/ UNCHANGED vars
  BY <1>1, FatalWaits, StutterWaits
<1>2. CASE ~Fatal /\ ~UNCHANGED vars
  <2>1. PICK seq, then : /\ UNCHANGED journal \/ Journal!CommitOutbound(c)
                         /\ WriteCommitted(c, seq, then)
    BY <1>2 DEF Submit
  <2> HIDE DEF c
  <2>2. meta'.next_in = meta.next_in /\ UNCHANGED inbound
    BY <2>1, OutboundMeta DEF journal
  <2> QED
    BY <2>1, <2>2, SendWaits
<1> QED
  BY <1>1, <1>2

\* A write, and the mark behind it.
LEMMA WriteWaits ==
  ASSUME IInv, WriteWire \/ WriteReplayWire
  PROVE  Waits
<1>1. PICK job : /\ job.do # "expected" /\ todo # <<>>
                 /\ todo' = <<job>> \o Tail(todo)
                 /\ UNCHANGED <<meta, inbound, gap_buffer>>
  <2>1. \A key, seq, then, id :
          Mark(key, seq, then).do # "expected" /\ MarkReplay(id).do # "expected"
    BY DEF Mark, MarkReplay
  <2> QED
    BY <2>1 DEF WriteWire, WriteReplayWire, Doing, journal
<1>2. Head(todo') = job
  BY <1>1, RestLater, LineFront DEF IInv
<1> QED
  BY <1>1, <1>2, GoesOn

\* What is marked is done with.
LEMMA MarkWaits ==
  ASSUME Flow, MarkWritten \/ MarkReplayWritten
  PROVE  Waits
<1>1. CASE Fatal
  BY <1>1, FatalWaits
<1>2. CASE ~Fatal
  <2>1. /\ todo # <<>> /\ UNCHANGED <<meta, inbound>>
        /\ \/ DOMAIN gap_buffer' = {} /\ ~running'
           \/ UNCHANGED gap_buffer /\ todo' = Tail(todo)
    BY <1>2 DEF MarkWritten, MarkReplayWritten, Doing, Journal!MarkOutboundWritten,
       Journal!MarkTransmissionWritten, Journal!NoRows, counters
  <2>2. CASE DOMAIN gap_buffer' = {} /\ ~running'
    BY <2>1, <2>2 DEF Waits, FewerKept, Doing
  <2>3. CASE UNCHANGED gap_buffer /\ todo' = Tail(todo)
    BY <2>1, <2>3, NeverBehind, GoesOn
  <2> QED
    BY <2>1, <2>2, <2>3
<1> QED
  BY <1>1, <1>2

\* A replay is journaled on the outbound side only.
LEMMA ReplayWaits ==
  ASSUME IInv, Flow, JournalReplay
  PROVE  Waits
<1> DEFINE frame == ReplayFrame(Head(todo).at, Head(todo).end)
           next == ReplayEnd(Head(todo).at, Head(todo).end)
           job == WriteReplay(frame, meta.next_transmission)
           range == Replay(next, Head(todo).end)
           more == IF next <= Head(todo).end THEN <<range>> ELSE <<>>
<1>1. /\ todo # <<>> /\ todo' = <<job>> \o more \o Tail(todo)
      /\ meta' = [meta EXCEPT !.next_transmission = @ + 1]
      /\ UNCHANGED <<inbound, gap_buffer>>
  BY DEF JournalReplay, Doing, Journal!CommitTransmission
<1>2. job.do = "write replay" /\ range.do = "replay"
  BY DEF WriteReplay, Replay
<1> HIDE DEF job, range, next
<1>3. IsLine(more)
  <2>1. Later(range)
    BY <1>2 DEF Later
  <2> QED
    BY <2>1, NothingLater, OneLater
<1> HIDE DEF more
<1>4. IsLine(Tail(todo))
  BY <1>1, RestLater DEF IInv
<1>5. Head(todo') = job
  <2>1. todo' = <<job>> \o (more \o Tail(todo))
    BY <1>1, <1>3, <1>4, LineFrontTwice
  <2>2. IsLine(more \o Tail(todo))
    BY <1>3, <1>4, MoreLater
  <2> QED
    BY <2>1, <2>2, LineFront
<1>6. meta'.next_in = meta.next_in
  <2>1. meta' = [next_out |-> meta.next_out, next_in |-> meta.next_in,
                 next_event |-> meta.next_event,
                 next_transmission |-> meta.next_transmission + 1]
    BY <1>1 DEF IInv, MetaOK
  <2> QED
    BY <2>1
<1> QED
  BY <1>1, <1>2, <1>5, <1>6, GoesOn

\* A Logout command and the timer make the session send something.
LEMMA AskedWaits ==
  ASSUME RequestLogout \/ \E expired, silent \in BOOLEAN : Tick(expired, silent)
  PROVE  Waits
<1> DEFINE Job(j) == j.do = "commit"
<1>1. \A type, arg, then : Job(Send(type, arg, then))
  BY DEF Send
<1> HIDE DEF Job
<1>2. CASE Fatal
  BY <1>2, FatalWaits
<1>3. CASE ~Fatal /\ RequestLogout
  <2>1. todo' = <<Send("5", 0, "LogoutSent")>> /\ UNCHANGED <<meta, inbound, gap_buffer>>
    BY <1>3 DEF RequestLogout, journal
  <2>2. Job(Head(todo'))
    BY <1>1, <2>1, Single
  <2> QED
    BY <2>1, <2>2, GoesOn DEF Job
<1>4. ASSUME ~Fatal, NEW expired \in BOOLEAN, NEW silent \in BOOLEAN, Tick(expired, silent)
      PROVE  Waits
  <2>1. PICK heartbeat, type, arg, then :
          /\ heartbeat = <<>> \/ heartbeat = <<Send("0", 0, "None")>>
          /\ todo' = heartbeat \/ todo' = Append(heartbeat, Send(type, arg, then))
    BY <1>4 DEF Tick
  <2>2. UNCHANGED <<meta, inbound, gap_buffer>>
    BY <1>4 DEF Tick, journal
  <2>3. todo' = <<>> \/ Job(Head(todo'))
    <3>1. \A b : Append(<<>>, b) = <<b>>
      OBVIOUS
    <3> QED
      BY <1>1, <2>1, <3>1, Single, Double
  <2> QED
    BY <2>2, <2>3, GoesOn DEF Job
<1> QED
  BY <1>2, <1>3, <1>4

\* A new connection starts with a reset or a Logon.
LEMMA ConnectWaits ==
  ASSUME Connect
  PROVE  Waits
<1>1. /\ DOMAIN gap_buffer' = {} /\ UNCHANGED <<meta, inbound>>
      /\ \E reset \in ResetOnLogon :
           todo' = (IF reset THEN <<Reset>> ELSE <<>>) \o <<Logon>>
  BY DEF Connect, journal, Logon, Journal!NoRows
<1>2. Reset.do # "expected" /\ Logon.do # "expected"
  BY DEF Reset, Logon, Send
<1>3. todo' = <<Reset>> \o <<Logon>> \/ todo' = <<>> \o <<Logon>>
  BY <1>1
<1>4. Head(todo') = Reset \/ Head(todo') = Logon
  <2>1. <<>> \o <<Logon>> = <<Logon>>
    OBVIOUS
  <2> QED
    BY <1>3, <2>1, Single, Double
<1> QED
  BY <1>1, <1>2, <1>4 DEF Waits, FewerKept, Doing

\* The reset.
LEMMA ResetRestarts ==
  ASSUME Flow, ResetJournal
  PROVE  Restarts
<1>1. /\ todo # <<>> /\ todo' = Tail(todo) /\ UNCHANGED gap_buffer
      /\ meta' = [next_out |-> 1, next_in |-> 1, next_transmission |-> 1,
                  next_event |-> meta.next_event + 1]
  BY DEF ResetJournal, Journal!ResetSequences, Doing
<1>2. meta'.next_in = 1
  BY <1>1
<1> QED
  BY <1>1, <1>2, NeverBehind DEF Restarts, FewerKept, Doing

\* What a message makes the session do is not to realign.
LEMMA ResponseAtHand ==
  ASSUME NEW m, todo' = Response(m) \o <<Drain>>
  PROVE  Head(todo').do # "expected"
<1>1. CASE Response(m) = <<>>
  <2>1. <<>> \o <<Drain>> = <<Drain>>
    OBVIOUS
  <2> QED
    BY <1>1, <2>1, DrainOnly
<1>2. CASE Response(m) # <<>>
  <2>1. PICK job : Response(m) = <<job>> /\ job.do \in {"commit", "replay"}
    <3>1. \A type, arg, then : Send(type, arg, then).do = "commit"
      BY DEF Send
    <3>2. \A at, end : Replay(at, end).do = "replay"
      BY DEF Replay
    <3> QED
      BY <1>2, <3>1, <3>2 DEF Response
  <2>2. Head(todo') = job
    BY <2>1, Double
  <2> QED
    BY <2>1, <2>2
<1> QED
  BY <1>1, <1>2

\* The frame that is due is committed, and nothing more is kept.
LEMMA CommitTakes ==
  ASSUME IInv, NEW m, NEW buffer, CommitExpected(m, buffer, <<Drain>>),
         \A n \in DOMAIN buffer : n \in DOMAIN gap_buffer /\ buffer[n] = gap_buffer[n]
  PROVE  Waits \/ Takes(m)
<1>1. CASE Fatal
  BY <1>1, FatalWaits
<1>2. CASE ~Fatal
  <2> DEFINE c == [msg_seq_num |-> m.seq, wire |-> m, event_id |-> next_event,
                   event |-> "message", next_in_after |-> Upto(m)]
             row == [msg_seq_num |-> m.seq, wire |-> m, event_id |-> next_event]
  <2>1. /\ Journal!CommitInbound(c)
        /\ \/ ~running' /\ DOMAIN gap_buffer' = {}
           \/ gap_buffer' = buffer /\ todo' = Response(m) \o <<Drain>>
    BY <1>2 DEF CommitExpected, Upto, Journal!NoRows
  <2>2. /\ m.seq = meta.next_in
        /\ meta' = [meta EXCEPT !.next_in = Upto(m), !.next_event = @ + 1]
        /\ inbound' = [k \in DOMAIN inbound \cup {m.seq} |->
                         IF k = m.seq THEN row ELSE inbound[k]]
    BY <2>1 DEF Journal!CommitInbound, Journal!Inserted
  <2>3. row.wire = m
    OBVIOUS
  <2> HIDE DEF c, row
  <2>4. /\ m.seq \in DOMAIN inbound' /\ inbound'[m.seq].wire = m
        /\ \A n \in DOMAIN inbound \ {m.seq} : n \in DOMAIN inbound' /\ inbound'[n] = inbound[n]
    BY <2>2, <2>3
  <2>5. meta'.next_in = Upto(m)
    BY <2>2, InboundMeta DEF IInv
  <2>6. FewerKept
    BY <2>1 DEF FewerKept
  <2>7. ~Doing("expected")'
    BY <2>1, ResponseAtHand DEF Doing
  <2> QED
    BY <2>2, <2>4, <2>5, <2>6, <2>7 DEF Takes
<1> QED
  BY <1>1, <1>2

\* What becomes of a received frame (handle_inbound).
LEMMA Received ==
  ASSUME IInv, NEW m, ReceiveFrame(m)
  PROVE  Waits \/ Takes(m) \/ Buffers(m) \/ Realigns(m)
<1>1. running /\ todo = <<>> /\ next_in = meta.next_in
  BY DEF ReceiveFrame, AtSelect, IInv, Counted
<1>2. CASE Fatal \/ UNCHANGED vars
  BY <1>2, FatalWaits, StutterWaits
<1>3. CASE ReceiveAhead(m) /\ ~Fatal
  <2>1. /\ UNCHANGED <<meta, inbound>>
        /\ gap_buffer' = gap_buffer \/ gap_buffer' = Journal!Inserted(gap_buffer, m.seq, m)
        /\ todo' = <<>> \/ todo' = <<Send("2", next_in, "Recovering")>>
    BY <1>3 DEF ReceiveAhead, journal
  <2>2. todo' = <<>> \/ Head(todo').do = "commit"
    <3>1. Send("2", next_in, "Recovering").do = "commit"
      BY DEF Send
    <3> QED
      BY <2>1, <3>1, Single
  <2> QED
    BY <2>1, <2>2 DEF Buffers, Journal!Inserted, Doing
<1>4. CASE ReceiveBehind(m) /\ ~Fatal
  <2>1. /\ m.seq < next_in /\ UNCHANGED <<inbound, gap_buffer>>
        /\ meta' = [meta EXCEPT !.next_in = m.seq, !.next_event = @ + 1]
        /\ todo' = <<Expected(m), Drain>>
    BY <1>4 DEF ReceiveBehind, Journal!ResyncInbound
  <2>2. meta'.next_in = m.seq
    BY <2>1, InboundMeta DEF IInv
  <2>3. Head(todo') = Expected(m) /\ Expected(m).frame = m
    BY <2>1, Double DEF Expected
  <2> QED
    BY <1>1, <2>1, <2>2, <2>3 DEF Realigns, FewerKept
<1>5. CASE ReceiveExpected(m)
  BY <1>5, CommitTakes DEF ReceiveExpected
<1> QED
  BY <1>2, <1>3, <1>4, <1>5 DEF ReceiveFrame, ReceiveDuplicate

\* The work behind it: what was realigned to, and the gap buffer.
LEMMA WorksOff ==
  ASSUME IInv, Flow, CommitResynced \/ DrainBuffer
  PROVE  Waits \/ \E m : Kept(m) /\ Takes(m)
<1>1. CASE CommitResynced
  <2> DEFINE m == Head(todo).frame
  <2>1. Doing("expected") /\ todo # <<>> /\ CommitExpected(m, gap_buffer, Tail(todo))
    BY <1>1 DEF CommitResynced, Doing
  <2>2. Tail(todo) = <<Drain>>
    BY <2>1 DEF Flow, Shaped, Worklist, Carries, Doing
  <2> HIDE DEF m
  <2>3. Waits \/ Takes(m)
    BY <2>1, <2>2, CommitTakes
  <2> QED
    BY <2>1, <2>3 DEF Kept, m
<1>2. CASE DrainBuffer
  <2> DEFINE rest == [n \in {k \in DOMAIN gap_buffer : k > next_in} |-> gap_buffer[n]]
  <2>1. /\ todo # <<>> /\ Head(todo).do = "drain"
        /\ \/ /\ next_in \in DOMAIN gap_buffer
              /\ CommitExpected(gap_buffer[next_in], rest, <<Drain>>)
           \/ /\ gap_buffer' = rest /\ todo' = Tail(todo)
              /\ UNCHANGED <<meta, inbound>>
    BY <1>2 DEF DrainBuffer, Doing, journal
  <2>2. \A n \in DOMAIN rest : n \in DOMAIN gap_buffer /\ rest[n] = gap_buffer[n]
    OBVIOUS
  <2> HIDE DEF rest
  <2>3. CASE /\ next_in \in DOMAIN gap_buffer
             /\ CommitExpected(gap_buffer[next_in], rest, <<Drain>>)
    <3>1. PICK m : m = gap_buffer[next_in]
      OBVIOUS
    <3>2. Waits \/ Takes(m)
      BY <2>2, <2>3, <3>1, CommitTakes
    <3> QED
      BY <2>3, <3>1, <3>2 DEF Kept
  <2>4. CASE gap_buffer' = rest /\ todo' = Tail(todo) /\ UNCHANGED <<meta, inbound>>
    BY <2>1, <2>2, <2>4, NeverBehind DEF Waits, FewerKept, Doing
  <2> QED
    BY <2>1, <2>3, <2>4
<1> QED
  BY <1>1, <1>2

\* What a step of the session does with the connection as it is.
LEMMA InboundEffects ==
  ASSUME SessionInv, [LinkNext]_linkvars, SameVenue
  PROVE  \/ Waits \/ Restarts \/ \E m : Kept(m) /\ Takes(m)
         \/ \E m : /\ in_flight # <<>> /\ m = Head(in_flight)
                   /\ Takes(m) \/ Buffers(m) \/ Realigns(m)
<1> USE DEF SessionInv
<1>1. CASE UNCHANGED vars
  BY <1>1, StutterWaits
<1>2. CASE Proceed
  BY <1>2, CommitWaits, WriteWaits, MarkWaits, ReplayWaits, WorksOff, ResetRestarts DEF Proceed
<1>3. ASSUME NEW r \in Requests, NEW f \in Fingerprints, Submit(r, f) PROVE Waits
  BY <1>3, SubmitWaits
<1>4. CASE RequestLogout \/ \E expired, silent \in BOOLEAN : Tick(expired, silent)
  BY <1>4, AskedWaits
<1>5. CASE Connect
  BY <1>5, ConnectWaits
<1>6. CASE Disconnect
  BY <1>6, StopWaits DEF Disconnect
<1>7. CASE AwaitFails
  BY <1>7, StopWaits DEF AwaitFails
<1>8. CASE Deliver
  <2>1. PICK m : in_flight # <<>> /\ m = Head(in_flight) /\ ReceiveFrame(m)
    BY <1>8 DEF Deliver
  <2> QED
    BY <2>1, Received
<1> QED
  BY <1>1, <1>2, <1>3, <1>4, <1>5, <1>6, <1>7, <1>8 DEF LinkNext, linkvars, SessionAlone,
     Reconnect, HangUp, Horizon


-----------------------------------------------------------------------------
\* A gap fill of the venue ends at the next execution, or behind the log.
LEMMA FillIs ==
  ASSUME NEW log, NEW L, log \in Seq(L), NEW n \in DOMAIN log, ~IsExecution(log, n)
  PROVE  /\ VenueFill(log, n).arg \in Nat /\ n < VenueFill(log, n).arg
         /\ VenueFill(log, n).arg <= Len(log) + 1
         /\ \A k \in n..(VenueFill(log, n).arg - 1) : ~IsExecution(log, k)
<1> DEFINE Stops == {k \in DOMAIN log : k > n /\ IsExecution(log, k)} \cup {Len(log) + 1}
<1>1. DOMAIN log = 1..Len(log) /\ Len(log) \in Nat /\ n \in 1..Len(log)
  OBVIOUS
<1>2. Stops \in SUBSET Nat /\ Stops # {}
  BY <1>1
<1>3. PICK least \in Stops : \A k \in Stops : least <= k
  BY <1>2, Least
<1>4. PICK end : end = Min(Stops)
  OBVIOUS
<1>5. end \in Stops /\ \A k \in Stops : end <= k
  BY <1>3, <1>4 DEF Min
<1>6. VenueFill(log, n).arg = end
  BY <1>4 DEF VenueFill, Frame
<1>7. end \in Nat /\ n < end /\ end <= Len(log) + 1
  BY <1>1, <1>5
<1>8. ASSUME NEW k \in n..(end - 1), IsExecution(log, k) PROVE FALSE
  <2>1. k \in Nat /\ n <= k /\ k < end
    BY <1>1, <1>7
  <2>2. CASE k = n
    BY <1>8, <2>2
  <2>3. CASE k > n
    <3>1. k \in Stops
      BY <1>1, <1>7, <1>8, <2>1, <2>3
    <3>2. end <= k
      BY <1>5, <3>1
    <3> QED
      BY <1>7, <2>1, <3>2
  <2> QED
    BY <1>1, <2>1, <2>2, <2>3
<1> QED
  BY <1>6, <1>7, <1>8

\* In a finite set of numbers one is behind exactly r others, if it has more.
LEMMA Ranked ==
  ASSUME NEW top \in Nat, NEW S \in SUBSET (1..top), NEW r \in Nat, r < Cardinality(S)
  PROVE  \E n \in S : Cardinality({k \in S : k < n}) = r
<1> DEFINE Below(n) == {k \in S : k < n}
           Deep == {n \in Nat : Cardinality(Below(n)) > r}
<1>0. \A k \in S : k \in Nat /\ 1 <= k /\ k <= top
  OBVIOUS
<1>1. IsFiniteSet(S) /\ \A n : IsFiniteSet(Below(n)) /\ Cardinality(Below(n)) \in Nat
  <2>1. IsFiniteSet(1..top)
    BY FS_Interval
  <2>2. IsFiniteSet(S) /\ \A n : IsFiniteSet(Below(n))
    BY <2>1, FS_Subset
  <2> QED
    BY <2>2, FS_CardinalityType
<1>2. top + 1 \in Deep
  <2>1. \A k \in S : k < top + 1
    BY <1>0
  <2>2. Below(top + 1) = S
    BY <2>1
  <2> QED
    BY <2>2
<1>3. PICK m \in Deep : \A n \in Deep : m <= n
  <2>1. Deep \in SUBSET Nat /\ Deep # {}
    BY <1>2
  <2> HIDE DEF Deep
  <2> QED
    BY <2>1, Least
<1>4. m # 0
  <2>1. Below(0) = {}
    <3>1. \A k \in S : ~(k < 0)
      BY <1>0
    <3> QED
      BY <3>1
  <2>2. Cardinality(Below(0)) = 0
    BY <2>1, FS_EmptySet
  <2> HIDE DEF Below
  <2> QED
    BY <2>2
<1>5. PICK n \in Nat : m = n + 1
  <2>1. m - 1 \in Nat /\ m = (m - 1) + 1
    BY <1>4
  <2> QED
    BY <2>1
<1>6. n \notin Deep
  <2>1. ~(m <= n)
    BY <1>5
  <2> QED
    BY <1>3, <2>1
<1>7. Cardinality(Below(n)) <= r /\ Cardinality(Below(m)) > r
  <2> HIDE DEF Below
  <2> QED
    BY <1>1, <1>6
<1>8. n \in S
  <2>1. ASSUME n \notin S PROVE FALSE
    <3>1. \A k \in S : k < m <=> k < n
      BY <1>0, <1>5, <2>1
    <3>2. Below(m) = Below(n)
      BY <3>1
    <3> HIDE DEF Below
    <3> QED
      BY <1>1, <1>7, <3>2
  <2> QED
    BY <2>1
<1>9. Below(m) = Below(n) \cup {n} /\ n \notin Below(n)
  <2>1. \A k \in S : k < m <=> (k < n \/ k = n)
    BY <1>0, <1>5
  <2>2. ~(n < n)
    BY <1>5
  <2> QED
    BY <1>8, <2>1, <2>2
<1>10. Cardinality(Below(m)) = Cardinality(Below(n)) + 1
  <2> HIDE DEF Below
  <2> QED
    BY <1>1, <1>9, FS_AddElement
<1>11. Cardinality(Below(n)) = r
  <2> HIDE DEF Below
  <2> QED
    BY <1>1, <1>7, <1>10
<1> QED
  BY <1>8, <1>11

\* A replay repeats messages of the log.
LEMMA ReplayInLog ==
  ASSUME NEW log, NEW L, log \in Seq(L), NEW begin
  PROVE  \A i \in DOMAIN VenueReplay(log, begin) :
           \E n \in DOMAIN log : VenueReplay(log, begin)[i] = ReplayOf(log, n)
<1> DEFINE starts == ReplayStarts(log, begin)
           start(i) == CHOOSE n \in starts : Cardinality({k \in starts : k < n}) = i - 1
<1>1. VenueReplay(log, begin) = [i \in 1..Cardinality(starts) |-> ReplayOf(log, start(i))]
  BY DEF VenueReplay
<1>2. /\ starts \subseteq 1..Len(log) /\ Cardinality(starts) \in Nat
      /\ Len(log) \in Nat /\ DOMAIN log = 1..Len(log)
  BY StartsFinite
<1> HIDE DEF starts
<1>3. ASSUME NEW i \in 1..Cardinality(starts)
      PROVE  start(i) \in starts
  <2>1. i - 1 \in Nat /\ i - 1 < Cardinality(starts)
    BY <1>2
  <2>2. PICK r \in Nat : r = i - 1
    BY <2>1
  <2>3. starts \in SUBSET (1..Len(log)) /\ r < Cardinality(starts)
    BY <1>2, <2>1, <2>2
  <2>4. \E n \in starts : Cardinality({k \in starts : k < n}) = r
    BY <1>2, <2>3, Ranked
  <2> QED
    BY <2>2, <2>4
<1> HIDE DEF start
<1> QED
  BY <1>1, <1>2, <1>3

\* What it repeats is as it was.
LEMMA ReplayTruthful ==
  ASSUME NEW log, NEW L, log \in Seq(L), NEW begin
  PROVE  \A i \in DOMAIN VenueReplay(log, begin) : Truthful(log, VenueReplay(log, begin)[i])
<1>1. ASSUME NEW n \in DOMAIN log PROVE Truthful(log, ReplayOf(log, n))
  <2>1. PICK m : m = ReplayOf(log, n)
    OBVIOUS
  <2>2. CASE IsExecution(log, n)
    <3>1. m.seq = n /\ m.type = log[n].type /\ m.arg = log[n].arg /\ m.type # "4"
      BY <2>1, <2>2, ReplayOfIs DEF IsExecution
    <3> QED
      BY <2>1, <3>1 DEF Truthful
  <2>3. CASE ~IsExecution(log, n)
    <3>1. m.seq = n /\ m.type = "4" /\ m.arg = VenueFill(log, n).arg
      BY <2>1, <2>3, ReplayOfIs
    <3> QED
      BY <2>1, <2>3, <3>1, FillIs DEF Truthful
  <2> QED
    BY <2>2, <2>3
<1>2. PICK replay : replay = VenueReplay(log, begin)
  OBVIOUS
<1>3. \A i \in DOMAIN replay : \E n \in DOMAIN log : replay[i] = ReplayOf(log, n)
  BY <1>2, ReplayInLog
<1> QED
  BY <1>1, <1>2, <1>3

\* What was true stays true as the log grows.
LEMMA TruthGrows ==
  ASSUME NEW log, NEW L, log \in Seq(L), NEW more, NEW R, more \in Seq(R),
         Len(log) <= Len(more), \A n \in 1..Len(log) : more[n] = log[n],
         NEW m, Truthful(log, m)
  PROVE  Truthful(more, m)
<1>1. /\ DOMAIN log = 1..Len(log) /\ DOMAIN more = 1..Len(more)
      /\ Len(log) \in Nat /\ Len(more) \in Nat
  OBVIOUS
<1>2. m.seq \in 1..Len(log) /\ m.seq \in DOMAIN more /\ more[m.seq] = log[m.seq]
  BY <1>1 DEF Truthful
<1>3. CASE m.type # "4"
  BY <1>2, <1>3 DEF Truthful
<1>4. CASE m.type = "4"
  <2>1. /\ m.arg \in Nat /\ m.seq < m.arg /\ m.arg <= Len(log) + 1
        /\ \A n \in m.seq..(m.arg - 1) : ~IsExecution(log, n)
    BY <1>4 DEF Truthful
  <2>2. m.arg <= Len(more) + 1
    BY <1>1, <2>1
  <2>3. ASSUME NEW n \in m.seq..(m.arg - 1) PROVE ~IsExecution(more, n)
    <3>1. n \in 1..Len(log)
      BY <1>1, <1>2, <2>1
    <3>2. more[n] = log[n] /\ ~IsExecution(log, n)
      BY <2>1, <3>1
    <3> QED
      BY <3>2 DEF IsExecution
  <2> QED
    BY <1>2, <1>4, <2>1, <2>2, <2>3 DEF Truthful
<1> QED
  BY <1>3, <1>4

-----------------------------------------------------------------------------
\* The venue repeats what it is asked for and says something new: all of it is
\* true.
LEMMA AnswersTruthful ==
  ASSUME Carried, Reported, Answers, UNCHANGED vars,
         venue_state' # "connected"
  PROVE  Reported'
<1>1. PICK messages, replay :
        /\ VenueSends(messages, replay) /\ Speeches(messages)
        /\ replay = <<>> \/ \E begin : replay = VenueReplay(venue_log, begin)
  BY DEF Answers
<1>2. PICK M : messages \in Seq(M) /\ \A x \in M : Speech(x)
  BY <1>1 DEF Speeches
<1>3. IsSequence(messages) /\ \A n \in 1..Len(messages) : Speech(messages[n])
  BY <1>2 DEF IsSequence
<1>4. PICK L : venue_log \in Seq(L)
  BY DEF Carried, IsSequence
<1>5. /\ IsSequence(replay)
      /\ \A k \in DOMAIN replay : Truthful(venue_log, replay[k])
  <2>1. CASE replay = <<>>
    <3>1. replay \in Seq({1}) /\ DOMAIN replay = {}
      BY <2>1
    <3> QED
      BY <3>1 DEF IsSequence
  <2>2. ASSUME NEW begin, replay = VenueReplay(venue_log, begin)
        PROVE  IsSequence(replay) /\ \A k \in DOMAIN replay : Truthful(venue_log, replay[k])
    BY <1>4, <2>2, ReplayTyped, ReplayTruthful
  <2> QED
    BY <1>1, <2>1, <2>2
<1>6. IsSequence(venue_log) /\ IsSequence(in_flight)
  BY DEF Carried
<1>7. /\ IsSequence(venue_log')
      /\ Len(venue_log') = Len(venue_log) + Len(messages)
      /\ \A n \in 1..Len(venue_log) : venue_log'[n] = venue_log[n]
      /\ \A n \in 1..Len(messages) : venue_log'[Len(venue_log) + n] = messages[n]
      /\ \A i \in DOMAIN in_flight' :
           \/ \E k \in DOMAIN in_flight : in_flight'[i] = in_flight[k]
           \/ \E n \in 1..Len(messages) :
                in_flight'[i] = FrameOf(venue_log', Len(venue_log) + n)
           \/ \E k \in DOMAIN replay : in_flight'[i] = replay[k]
  BY <1>1, <1>3, <1>5, <1>6, Sends
<1>8. PICK R : venue_log' \in Seq(R)
  BY <1>7 DEF IsSequence
<1>9. /\ Len(venue_log) \in Nat /\ Len(messages) \in Nat /\ Len(venue_log) <= Len(venue_log')
      /\ DOMAIN venue_log = 1..Len(venue_log) /\ DOMAIN venue_log' = 1..Len(venue_log')
  <2>1. Len(venue_log) \in Nat /\ Len(messages) \in Nat
    BY <1>2, <1>4
  <2>2. Len(venue_log) <= Len(venue_log')
    BY <1>7, <2>1
  <2> QED
    BY <1>4, <1>8, <2>1, <2>2
<1>10. \A m : Truthful(venue_log, m) => Truthful(venue_log', m)
  BY <1>4, <1>7, <1>8, <1>9, TruthGrows
<1>11. ASSUME NEW n \in 1..Len(messages)
       PROVE  Truthful(venue_log', FrameOf(venue_log', Len(venue_log) + n))
  <2>1. PICK at \in DOMAIN venue_log' : at = Len(venue_log) + n
    BY <1>7, <1>9
  <2>2. Speech(venue_log'[at])
    BY <1>3, <1>7, <2>1
  <2>3. PICK m : m = FrameOf(venue_log', at)
    OBVIOUS
  <2>4. m.seq = at /\ m.type # "4" /\ m.type = venue_log'[at].type /\ m.arg = venue_log'[at].arg
    BY <2>2, <2>3, FirstSpeech
  <2> QED
    BY <2>1, <2>3, <2>4 DEF Truthful
<1>12. UNCHANGED <<gap_buffer, running, todo, meta, inbound>>
  BY DEF vars, journal
<1>13. Pending'
  <2>1. \A i \in DOMAIN in_flight' : Truthful(venue_log', in_flight'[i])
    BY <1>5, <1>7, <1>10, <1>11 DEF Reported, Pending
  <2> QED
    BY <1>10, <1>12, <2>1 DEF Reported, Pending, Doing
<1>14. Silence'
  BY DEF Silence
<1>15. Behind'
  <2>1. meta.next_in \in Nat /\ meta.next_in <= Len(venue_log') + 1
    BY <1>7, <1>9 DEF Reported, Behind
  <2>2. ASSUME NEW n \in DOMAIN venue_log' PROVE venue_log'[n].type # "4"
    <3>1. CASE n <= Len(venue_log)
      BY <1>7, <1>9, <3>1 DEF Reported, Behind
    <3>2. CASE n > Len(venue_log)
      <4>1. PICK k : k = n - Len(venue_log)
        OBVIOUS
      <4>2. k \in 1..Len(messages) /\ n = Len(venue_log) + k
        BY <1>7, <1>9, <3>2, <4>1
      <4> QED
        BY <1>3, <1>7, <4>2 DEF Speech
    <3> QED
      BY <1>9, <3>1, <3>2
  <2> QED
    BY <1>12, <2>1, <2>2 DEF Behind
<1>16. NoExecutionLost'
  <2> SUFFICES ASSUME NEW n \in DOMAIN venue_log', n < meta.next_in, IsExecution(venue_log', n)
               PROVE  /\ n \in DOMAIN inbound
                      /\ inbound[n].wire.type = "8"
                      /\ inbound[n].wire.arg = venue_log'[n].arg
    BY <1>12 DEF NoExecutionLost
  <2>1. n \in 1..Len(venue_log) /\ venue_log'[n] = venue_log[n]
    BY <1>7, <1>9 DEF Reported, Behind
  <2>2. IsExecution(venue_log, n)
    BY <2>1 DEF IsExecution
  <2> QED
    BY <1>9, <2>1, <2>2 DEF Reported, NoExecutionLost
<1> QED
  BY <1>13, <1>14, <1>15, <1>16 DEF Reported

\* The venue starts over: the session, which asked for it, expects the first
\* message and holds nothing older.
LEMMA RenumbersTruthful ==
  ASSUME Reported, Renumbers, UNCHANGED vars, venue_state' # "connected",
         venue_read \in Nat
  PROVE  Reported'
<1>1. PICK answer :
        /\ Speech(answer)
        /\ venue_log' = <<answer>> /\ in_flight' = <<FrameOf(<<answer>>, 1)>>
  BY DEF Renumbers
<1>2. /\ <<answer>>[1] = answer /\ Len(<<answer>>) = 1 /\ DOMAIN <<answer>> = {1}
  OBVIOUS
<1>3. PICK m : m = FrameOf(<<answer>>, 1)
  OBVIOUS
<1>4. Truthful(<<answer>>, m)
  <2>1. m.seq = 1 /\ m.type # "4" /\ m.type = answer.type /\ m.arg = answer.arg
    BY <1>1, <1>2, <1>3, FirstSpeech
  <2> QED
    BY <1>2, <2>1 DEF Truthful
<1>5. sent # <<>> /\ venue_state = "connected" /\ StartsOver
  <2>1. sent = <<>> => Len(sent) = 0
    OBVIOUS
  <2>2. /\ venue_read < Len(sent)
        /\ venue_state = "connected" /\ StartsOver
    BY DEF Renumbers, Unread
  <2>3. ~(venue_read < 0)
    OBVIOUS
  <2> QED
    BY <2>1, <2>2, <2>3
<1>6. DOMAIN gap_buffer = {} /\ ~Doing("expected") /\ meta.next_in = 1
  BY <1>5 DEF Reported, Silence
<1>7. UNCHANGED <<gap_buffer, running, todo, meta, inbound>>
  BY DEF vars, journal
<1>8. DOMAIN in_flight' = {1} /\ in_flight'[1] = m
  BY <1>1, <1>3
<1>9. Pending'
  BY <1>1, <1>4, <1>6, <1>7, <1>8 DEF Pending, Doing
<1>10. Silence'
  BY DEF Silence
<1>11. Behind'
  BY <1>1, <1>2, <1>6, <1>7 DEF Behind, Speech
<1>12. NoExecutionLost'
  <2>1. ~(1 < 1)
    OBVIOUS
  <2> QED
    BY <1>1, <1>2, <1>6, <1>7, <2>1 DEF NoExecutionLost
<1> QED
  BY <1>9, <1>10, <1>11, <1>12 DEF Reported

\* All that the venue does, as long as it does not forget.
LEMMA VenueReports ==
  ASSUME ~VenueRestarts, LinkInv, Reported, UNCHANGED vars, VenueNext
  PROVE  Reported'
<1>1. venue_state' # "connected"
  BY DEF VenueNext, VenueLogon, VenueReceive, VenueTakes, VenueMisses, VenueSeesAgain,
     VenueExecutes, VenueLogsOut, VenueCloses, VenueRestart
<1>2. Carried /\ venue_next \in Nat /\ venue_read \in Nat
  BY DEF LinkInv, Orderly, VenueOK
<1>3. CASE Answers
  BY <1>1, <1>2, <1>3, AnswersTruthful
<1>4. CASE Renumbers
  BY <1>1, <1>2, <1>4, RenumbersTruthful
<1>5. CASE UNCHANGED <<venue_log, in_flight>>
  <2>1. UNCHANGED <<gap_buffer, running, todo, meta, inbound>>
    BY DEF vars, journal
  <2> QED
    BY <1>1, <1>5, <2>1 DEF Reported, Pending, Silence, Behind, NoExecutionLost, Doing
<1> QED
  BY <1>2, <1>3, <1>4, <1>5, VenueSpeaks DEF Forgets

-----------------------------------------------------------------------------
\* The session commits what the venue said, under its number.
LEMMA TakesTruth ==
  ASSUME IsSequence(venue_log), Behind, NoExecutionLost, UNCHANGED venue_log,
         NEW m, Truthful(venue_log, m), Takes(m)
  PROVE  Behind' /\ NoExecutionLost'
<1>1. PICK L : venue_log \in Seq(L)
  BY DEF IsSequence
<1>2. DOMAIN venue_log = 1..Len(venue_log) /\ Len(venue_log) \in Nat
  BY <1>1
<1>3. /\ m.seq \in 1..Len(venue_log) /\ m.seq = meta.next_in /\ meta'.next_in = Upto(m)
      /\ m.type # "4" => m.type = venue_log[m.seq].type /\ m.arg = venue_log[m.seq].arg
      /\ m.type = "4" =>
           /\ m.arg \in Nat /\ m.seq < m.arg /\ m.arg <= Len(venue_log) + 1
           /\ \A n \in m.seq..(m.arg - 1) : ~IsExecution(venue_log, n)
  BY <1>2 DEF Truthful, Takes
<1>4. meta'.next_in \in Nat /\ meta'.next_in <= Len(venue_log) + 1
  BY <1>2, <1>3 DEF Upto
<1>5. Behind'
  BY <1>4 DEF Behind
<1>6. ASSUME NEW n \in DOMAIN venue_log, n < meta'.next_in, IsExecution(venue_log, n)
      PROVE  /\ n \in DOMAIN inbound'
             /\ inbound'[n].wire.type = "8" /\ inbound'[n].wire.arg = venue_log[n].arg
  <2>1. CASE n < m.seq
    <3>1. n \in DOMAIN inbound \ {m.seq}
      BY <1>2, <1>3, <1>6, <2>1 DEF NoExecutionLost
    <3> QED
      BY <1>3, <1>6, <2>1, <3>1 DEF NoExecutionLost, Takes
  <2>2. CASE n = m.seq
    <3>1. m.type # "4"
      <4>1. ASSUME m.type = "4" PROVE FALSE
        <5>1. n \in m.seq..(m.arg - 1)
          BY <1>2, <1>3, <2>2, <4>1
        <5> QED
          BY <1>3, <1>6, <4>1, <5>1
      <4> QED
        BY <4>1
    <3> QED
      BY <1>3, <1>6, <2>2, <3>1 DEF Takes, IsExecution
  <2>3. CASE n > m.seq
    <3>1. m.type = "4"
      <4>1. ASSUME m.type # "4" PROVE FALSE
        BY <1>2, <1>3, <1>6, <2>3, <4>1 DEF Upto
      <4> QED
        BY <4>1
    <3>2. meta'.next_in = m.arg
      BY <1>3, <3>1 DEF Upto
    <3>3. n \in m.seq..(m.arg - 1)
      BY <1>2, <1>3, <1>6, <2>3, <3>1, <3>2
    <3> QED
      BY <1>3, <1>6, <3>1, <3>3
  <2> QED
    BY <1>2, <1>3, <2>1, <2>2, <2>3
<1>7. NoExecutionLost'
  BY <1>6 DEF NoExecutionLost
<1> QED
  BY <1>5, <1>7

\* What the session keeps and commits was true before it did.
LEMMA SessionReports ==
  ASSUME IsSequence(venue_log), Pending, Behind, NoExecutionLost, UNCHANGED venue_log,
         \A i \in DOMAIN in_flight' : \E k \in DOMAIN in_flight : in_flight'[i] = in_flight[k],
         in_flight # <<>> => Truthful(venue_log, Head(in_flight)),
         \/ Waits \/ Restarts \/ \E m : Kept(m) /\ Takes(m)
         \/ \E m : /\ in_flight # <<>> /\ m = Head(in_flight)
                   /\ Takes(m) \/ Buffers(m) \/ Realigns(m)
  PROVE  Pending' /\ Behind' /\ NoExecutionLost'
<1>1. \A i \in DOMAIN in_flight' : Truthful(venue_log, in_flight'[i])
  BY DEF Pending
<1>2. ASSUME NEW m, Kept(m) PROVE Truthful(venue_log, m)
  BY <1>2 DEF Kept, Pending
<1>3. CASE Waits
  BY <1>1, <1>3 DEF Waits, FewerKept, Pending, Behind, NoExecutionLost
<1>4. ASSUME NEW m, Truthful(venue_log, m), Takes(m)
      PROVE  Pending' /\ Behind' /\ NoExecutionLost'
  <2>1. Pending'
    BY <1>1, <1>4 DEF Takes, FewerKept, Pending
  <2> QED
    BY <1>4, <2>1, TakesTruth
<1>5. ASSUME NEW m, Truthful(venue_log, m), Buffers(m)
      PROVE  Pending' /\ Behind' /\ NoExecutionLost'
  BY <1>1, <1>5 DEF Buffers, Pending, Behind, NoExecutionLost
<1>6. PICK L : venue_log \in Seq(L)
  BY DEF IsSequence
<1>7. DOMAIN venue_log = 1..Len(venue_log) /\ Len(venue_log) \in Nat
  BY <1>6
<1>8. ASSUME NEW m, Truthful(venue_log, m), Realigns(m)
      PROVE  Pending' /\ Behind' /\ NoExecutionLost'
  <2>1. Pending'
    BY <1>1, <1>8 DEF Realigns, FewerKept, Pending
  <2>2. /\ m.seq \in 1..Len(venue_log) /\ m.seq < meta.next_in /\ meta.next_in \in Nat
        /\ meta'.next_in = m.seq /\ UNCHANGED inbound
    BY <1>7, <1>8 DEF Realigns, Truthful, Behind
  <2>3. Behind'
    BY <1>7, <2>2 DEF Behind
  <2>4. \A n \in DOMAIN venue_log : n < m.seq => n < meta.next_in
    BY <1>7, <2>2
  <2>5. NoExecutionLost'
    BY <2>2, <2>4 DEF NoExecutionLost
  <2> QED
    BY <2>1, <2>3, <2>5
<1>9. CASE Restarts
  <2>1. Pending'
    BY <1>1, <1>9 DEF Restarts, FewerKept, Pending
  <2>2. Behind'
    BY <1>7, <1>9 DEF Restarts, Behind
  <2>3. \A n \in DOMAIN venue_log : ~(n < 1)
    BY <1>7
  <2>4. NoExecutionLost'
    BY <1>9, <2>3 DEF Restarts, NoExecutionLost
  <2> QED
    BY <2>1, <2>2, <2>4
<1> QED
  BY <1>2, <1>3, <1>4, <1>5, <1>8, <1>9

\* Before the Logon was answered nothing is received, and nothing committed.
LEMMA StaysSilent ==
  ASSUME Silence, Effect, ~Connect, UNCHANGED venue_state,
         in_flight = <<>> => in_flight' = <<>>,
         \/ Waits \/ Restarts \/ \E m : Kept(m) /\ Takes(m)
         \/ \E m : /\ in_flight # <<>> /\ m = Head(in_flight)
                   /\ Takes(m) \/ Buffers(m) \/ Realigns(m)
  PROVE  Silence'
<1> SUFFICES ASSUME venue_state = "connected"
             PROVE  /\ in_flight' = <<>> /\ DOMAIN gap_buffer' = {} /\ ~Doing("expected")'
                    /\ StartsOver /\ (sent' # <<>> \/ Ready') => meta'.next_in = 1
  BY DEF Silence
<1>1. /\ in_flight = <<>> /\ DOMAIN gap_buffer = {} /\ ~Doing("expected")
      /\ StartsOver /\ (sent # <<>> \/ Ready) => meta.next_in = 1
  BY DEF Silence
<1>2. Waits \/ Restarts
  BY <1>1 DEF Kept
<1>3. DOMAIN gap_buffer' = {} /\ ~Doing("expected")'
  BY <1>1, <1>2 DEF Waits, Restarts, FewerKept
<1>4. CASE Restarts
  BY <1>1, <1>3, <1>4 DEF Restarts
<1>5. CASE Waits
  <2>1. meta'.next_in = meta.next_in
    BY <1>5 DEF Waits
  <2>2. CASE Rests
    BY <1>1, <1>3, <2>1, <2>2 DEF Rests
  <2>3. CASE Writes \/ \E key, frame : Commits(key, frame)
    BY <1>1, <1>3, <2>1, <2>3 DEF Writes, Commits
  <2>4. CASE Resets
    BY <1>1, <1>3, <2>4 DEF Resets
  <2> QED
    BY <2>2, <2>3, <2>4 DEF Effect, Opens
<1> QED
  BY <1>2, <1>4, <1>5

\* Every step keeps the truth of what was received.
LEMMA ReportedKept ==
  ASSUME Gated, ~VenueRestarts, LinkInv, LinkInv', Reported, [LinkNext]_linkvars
  PROVE  Reported'
<1>1. Effect
  BY LinkConstants, SessionHolds, Effects DEF LinkInv
<1>2. CASE UNCHANGED vars /\ VenueNext
  BY <1>2, VenueReports
<1>3. CASE Reconnect
  <2>1. Waits /\ UNCHANGED venue_log /\ in_flight' = <<>> /\ sent' = <<>>
    BY <1>3, ConnectWaits DEF Reconnect, Connect
  <2>2. StartsOver => ~Ready'
    BY <1>3, LinkConstants, ConnectOpens DEF Reconnect, Opens
  <2>3. DOMAIN gap_buffer' = {} /\ ~Doing("expected")'
    <3>1. DOMAIN gap_buffer' = {} /\ ~running
      BY <1>3 DEF Reconnect, Connect, Journal!NoRows
    <3>2. ~Doing("expected")
      BY <3>1 DEF Doing
    <3> QED
      BY <2>1, <3>1, <3>2 DEF Waits
  <2>4. DOMAIN in_flight' = {}
    BY <2>1
  <2>5. Silence'
    BY <2>1, <2>2, <2>3 DEF Silence
  <2>6. Pending' /\ Behind' /\ NoExecutionLost'
    BY <2>1, <2>3, <2>4 DEF Waits, Reported, Pending, Behind, NoExecutionLost
  <2> QED
    BY <2>5, <2>6 DEF Reported
<1>4. CASE ~Reconnect /\ ~(UNCHANGED vars /\ VenueNext)
  <2>1. /\ UNCHANGED <<venue_state, venue_log>> /\ SameVenue
        /\ UNCHANGED in_flight \/ (in_flight # <<>> /\ in_flight' = Tail(in_flight))
    BY <1>4 DEF LinkNext, linkvars, SessionAlone, HangUp, Deliver, venue, SameVenue
  <2>2. Pending /\ Silence /\ Behind /\ NoExecutionLost /\ IsSequence(venue_log) /\ SessionInv
    BY DEF Reported, LinkInv, Carried
  <2>3. PICK S : in_flight \in Seq(S)
    BY DEF LinkInv, Carried, IsSequence
  <2>4. /\ \A i \in DOMAIN in_flight' : \E k \in DOMAIN in_flight : in_flight'[i] = in_flight[k]
        /\ in_flight # <<>> => 1 \in DOMAIN in_flight /\ Head(in_flight) = in_flight[1]
    <3>1. CASE UNCHANGED in_flight
      BY <2>3, <3>1
    <3>2. CASE in_flight # <<>> /\ in_flight' = Tail(in_flight)
      <4>1. \A i \in DOMAIN in_flight' : i + 1 \in DOMAIN in_flight /\ in_flight'[i] = in_flight[i + 1]
        BY <2>3, <3>2
      <4> QED
        BY <2>3, <4>1
    <3> QED
      BY <2>1, <3>1, <3>2
  <2>5. in_flight # <<>> => Truthful(venue_log, Head(in_flight))
    BY <2>2, <2>4 DEF Pending
  <2>6. \/ Waits \/ Restarts \/ \E m : Kept(m) /\ Takes(m)
        \/ \E m : /\ in_flight # <<>> /\ m = Head(in_flight)
                  /\ Takes(m) \/ Buffers(m) \/ Realigns(m)
    BY <2>1, <2>2, InboundEffects
  <2>7. Pending' /\ Behind' /\ NoExecutionLost'
    BY <2>1, <2>2, <2>4, <2>5, <2>6, SessionReports
  <2>8. Silence'
    <3>1. CASE Connect
      <4>1. UNCHANGED vars
        BY <1>4, <3>1, Sides DEF SameSession
      <4>2. UNCHANGED running
        BY <4>1 DEF vars
      <4> QED
        BY <3>1, <4>2 DEF Connect
    <3>2. CASE ~Connect
      BY <1>1, <2>1, <2>2, <2>6, <3>2, StaysSilent
    <3> QED
      BY <3>1, <3>2
  <2> QED
    BY <2>7, <2>8 DEF Reported
<1> QED
  BY <1>2, <1>3, <1>4

\* Nothing was sent at first.
LEMMA ReportedInitial == LinkInit => Reported
<1> SUFFICES ASSUME LinkInit PROVE Reported
  OBVIOUS
<1>1. /\ venue_state = "closed" /\ venue_log = <<>> /\ in_flight = <<>>
      /\ DOMAIN gap_buffer = {} /\ ~running /\ meta.next_in = 1
  BY DEF LinkInit, Init, Journal!Init, Journal!NoRows
<1>2. DOMAIN venue_log = {} /\ DOMAIN in_flight = {} /\ Len(venue_log) = 0
  BY <1>1
<1>3. ~Doing("expected")
  BY <1>1 DEF Doing
<1> QED
  BY <1>1, <1>2, <1>3 DEF Reported, Pending, Silence, Behind, NoExecutionLost

\* Every execution that is behind the session's expectation is in its journal
\* as the venue sent it, whatever was lost, repeated, buffered or gap-filled:
\* commit_expected takes a frame only under the number that is due, and
\* realigning goes back only (handle_inbound).
THEOREM LosesNoExecution ==
  ASSUME Gated, ~VenueRestarts
  PROVE  LinkSpec => []NoExecutionLost
<1>1. LinkInit => LinkInv /\ Reported
  BY LinkInvInitial, ReportedInitial
<1>2. LinkInv /\ Reported /\ [LinkNext]_linkvars => LinkInv' /\ Reported'
  BY LinkInvInductive, ReportedKept
<1>3. Reported => NoExecutionLost
  BY DEF Reported
<1> QED
  BY <1>1, <1>2, <1>3, PTL DEF LinkSpec

-----------------------------------------------------------------------------
(***************************************************************************)
(* Types.  FixLink is an instance of FixSession: what is on its way to the *)
(* session is always a frame a counterparty may send.                      *)
(***************************************************************************)
\* Every frame of a session message, an execution or a gap fill may arrive.
AnyFrame ==
  [type : AdminTypes \cup {"4", "8"}, seq : Nat, possdup : BOOLEAN, arg : Nat, end : {0}]
    \subseteq InFrames

\* What the venue may say.
Sayable(x) == x.type \in AdminTypes \cup {"8"} /\ x.arg \in Nat

\* What the venue keeps of the session.
VenueTyped ==
  /\ venue_state \in {"closed", "connected", "logged_on"}
  /\ venue_next \in Nat /\ venue_read \in 0..Len(sent)
  /\ venue_asked \in BOOLEAN
  /\ venue_orders \in Seq(Requests)

\* What it said, and what of it is on its way.
LogTyped ==
  /\ IsSequence(venue_log) /\ IsSequence(in_flight)
  /\ \A n \in DOMAIN venue_log : FrameOf(venue_log, n) \in InFrames
  /\ \A i \in DOMAIN in_flight : in_flight[i] \in InFrames

LinkTyping == TypeOK /\ VenueTyped /\ LogTyped

\* A message of the log, as it is sent first.
LEMMA FrameOfTyped ==
  ASSUME AnyFrame, NEW log, NEW n \in Nat, Sayable(log[n])
  PROVE  FrameOf(log, n) \in InFrames
<1> DEFINE frame == FrameOf(log, n)
<1>1. frame = [type |-> log[n].type, seq |-> n, possdup |-> FALSE, arg |-> log[n].arg, end |-> 0]
  BY DEF FrameOf
<1>2. log[n].type \in AdminTypes \cup {"4", "8"} /\ log[n].arg \in Nat
  BY DEF Sayable
<1> HIDE DEF frame
<1>3. frame \in [type : AdminTypes \cup {"4", "8"}, seq : Nat, possdup : BOOLEAN,
                 arg : Nat, end : {0}]
  BY <1>1, <1>2
<1> QED
  BY <1>3 DEF AnyFrame, frame

\* A message of the log, or a gap fill in its place, as it is repeated.
LEMMA ReplayOfTyped ==
  ASSUME AnyFrame, LogTyped, NEW n \in DOMAIN venue_log
  PROVE  ReplayOf(venue_log, n) \in InFrames
<1>1. PICK L : venue_log \in Seq(L)
  BY DEF LogTyped, IsSequence
<1>2. n \in Nat
  BY <1>1
<1>3. PICK frame : frame = ReplayOf(venue_log, n)
  OBVIOUS
<1>4. CASE IsExecution(venue_log, n)
  <2>1. FrameOf(venue_log, n) \in InFrames
    BY DEF LogTyped
  <2>2. venue_log[n].arg \in Nat
    <3>1. FrameOf(venue_log, n).arg \in Nat
      BY <2>1, SessionConstants
    <3> QED
      BY <3>1 DEF FrameOf
  <2>3. frame = [type |-> "8", seq |-> n, possdup |-> TRUE, arg |-> venue_log[n].arg, end |-> 0]
    <3>1. frame = [FrameOf(venue_log, n) EXCEPT !.possdup = TRUE]
      BY <1>3, <1>4 DEF ReplayOf, Repeated, Flagged
    <3>2. venue_log[n].type = "8"
      BY <1>4 DEF IsExecution
    <3> QED
      BY <3>1, <3>2 DEF FrameOf
  <2>4. frame \in [type : AdminTypes \cup {"4", "8"}, seq : Nat, possdup : BOOLEAN,
                   arg : Nat, end : {0}]
    BY <1>2, <2>2, <2>3
  <2> QED
    BY <1>3, <2>4 DEF AnyFrame
<1>5. CASE ~IsExecution(venue_log, n)
  <2>1. PICK end : VenueFill(venue_log, n) = Frame("4", n, end)
    BY DEF VenueFill
  <2>2. end \in Nat
    <3>1. VenueFill(venue_log, n).arg = end
      BY <2>1 DEF Frame
    <3> QED
      BY <1>1, <1>5, <3>1, FillIs
  <2>3. frame = Repeated(Frame("4", n, end))
    BY <1>3, <1>5, <2>1 DEF ReplayOf
  <2>4. frame = [type |-> "4", seq |-> n, possdup |-> TRUE, arg |-> end, end |-> 0]
    BY <2>3 DEF Repeated, Flagged, Frame
  <2>5. frame \in [type : AdminTypes \cup {"4", "8"}, seq : Nat, possdup : BOOLEAN,
                   arg : Nat, end : {0}]
    BY <1>2, <2>2, <2>4
  <2> QED
    BY <1>3, <2>5 DEF AnyFrame
<1> QED
  BY <1>4, <1>5

\* Nothing, or a replay of the log: what follows the new messages.
RepeatsLog(replay) == replay = <<>> \/ \E begin : replay = VenueReplay(venue_log, begin)

\* It is a sequence of frames that may arrive.
LEMMA RepeatsLogTyped ==
  ASSUME AnyFrame, LogTyped, NEW replay, RepeatsLog(replay)
  PROVE  IsSequence(replay) /\ \A k \in DOMAIN replay : replay[k] \in InFrames
<1>1. CASE replay = <<>>
  <2>1. replay \in Seq({1}) /\ DOMAIN replay = {}
    BY <1>1
  <2> QED
    BY <2>1 DEF IsSequence
<1>2. ASSUME NEW begin, replay = VenueReplay(venue_log, begin)
      PROVE  IsSequence(replay) /\ \A k \in DOMAIN replay : replay[k] \in InFrames
  <2>1. PICK L : venue_log \in Seq(L)
    BY DEF LogTyped, IsSequence
  <2>2. IsSequence(replay)
    BY <1>2, <2>1, ReplayTyped
  <2>3. \A k \in DOMAIN replay : \E n \in DOMAIN venue_log : replay[k] = ReplayOf(venue_log, n)
    BY <1>2, <2>1, ReplayInLog
  <2> QED
    BY <2>2, <2>3, ReplayOfTyped
<1> QED
  BY <1>1, <1>2 DEF RepeatsLog

\* What the venue sends keeps the types of its log and of what is on its way.
LEMMA SendsTyped ==
  ASSUME AnyFrame, LogTyped, NEW messages, NEW replay, VenueSends(messages, replay),
         IsSequence(messages), \A n \in 1..Len(messages) : Sayable(messages[n]),
         RepeatsLog(replay)
  PROVE  LogTyped'
<1>1. IsSequence(replay) /\ \A k \in DOMAIN replay : replay[k] \in InFrames
  BY RepeatsLogTyped
<1>2. IsSequence(venue_log) /\ IsSequence(in_flight)
  BY DEF LogTyped
<1>3. /\ IsSequence(venue_log') /\ IsSequence(in_flight')
      /\ Len(venue_log') = Len(venue_log) + Len(messages)
      /\ \A n \in 1..Len(venue_log) : venue_log'[n] = venue_log[n]
      /\ \A n \in 1..Len(messages) : venue_log'[Len(venue_log) + n] = messages[n]
      /\ \A i \in DOMAIN in_flight' :
           \/ \E k \in DOMAIN in_flight : in_flight'[i] = in_flight[k]
           \/ \E n \in 1..Len(messages) :
                in_flight'[i] = FrameOf(venue_log', Len(venue_log) + n)
           \/ \E k \in DOMAIN replay : in_flight'[i] = replay[k]
  BY <1>1, <1>2, Sends
<1>4. /\ Len(venue_log) \in Nat /\ DOMAIN venue_log = 1..Len(venue_log)
      /\ Len(venue_log') \in Nat /\ DOMAIN venue_log' = 1..Len(venue_log')
      /\ Len(messages) \in Nat
  <2>1. \A s : IsSequence(s) => Len(s) \in Nat /\ DOMAIN s = 1..Len(s)
    BY DEF IsSequence
  <2> QED
    BY <1>2, <1>3, <2>1
<1>5. \A n \in 1..Len(messages) : FrameOf(venue_log', Len(venue_log) + n) \in InFrames
  <2> TAKE n \in 1..Len(messages)
  <2>1. PICK k \in Nat : k = Len(venue_log) + n
    BY <1>4
  <2>2. Sayable(venue_log'[k])
    BY <1>3, <2>1
  <2> QED
    BY <2>1, <2>2, FrameOfTyped
<1>6. ASSUME NEW n \in DOMAIN venue_log' PROVE FrameOf(venue_log', n) \in InFrames
  <2>1. CASE n <= Len(venue_log)
    <3>1. n \in DOMAIN venue_log /\ venue_log'[n] = venue_log[n]
      BY <1>3, <1>4, <2>1
    <3>2. FrameOf(venue_log', n) = FrameOf(venue_log, n)
      BY <3>1 DEF FrameOf
    <3> QED
      BY <3>1, <3>2 DEF LogTyped
  <2>2. CASE ~(n <= Len(venue_log))
    <3>1. PICK k : k = n - Len(venue_log)
      OBVIOUS
    <3>2. k \in 1..Len(messages) /\ n = Len(venue_log) + k
      BY <1>3, <1>4, <2>2, <3>1
    <3> QED
      BY <1>5, <3>2
  <2> QED
    BY <2>1, <2>2
<1>7. \A i \in DOMAIN in_flight' : in_flight'[i] \in InFrames
  BY <1>1, <1>3, <1>5 DEF LogTyped
<1> QED
  BY <1>3, <1>6, <1>7 DEF LogTyped

\* Up to two messages are a sequence of what may be said.
LEMMA SayableLines ==
  /\ IsSequence(<<>>) /\ \A n \in 1..Len(<<>>) : Sayable(<<>>[n])
  /\ \A x : Sayable(x) =>
       IsSequence(<<x>>) /\ \A n \in 1..Len(<<x>>) : Sayable(<<x>>[n])
  /\ \A x, y : Sayable(x) /\ Sayable(y) =>
       IsSequence(<<x, y>>) /\ \A n \in 1..Len(<<x, y>>) : Sayable(<<x, y>>[n])
<1>1. IsSequence(<<>>)
  <2>1. <<>> \in Seq({1})
    OBVIOUS
  <2> QED
    BY <2>1 DEF IsSequence
<1>2. \A x : IsSequence(<<x>>)
  <2> TAKE x
  <2>1. <<x>> \in Seq({x})
    OBVIOUS
  <2> QED
    BY <2>1 DEF IsSequence
<1>3. \A x, y : IsSequence(<<x, y>>)
  <2> TAKE x, y
  <2>1. <<x, y>> \in Seq({x, y})
    OBVIOUS
  <2> QED
    BY <2>1 DEF IsSequence
<1>4. \A n \in 1..Len(<<>>) : Sayable(<<>>[n])
  OBVIOUS
<1>5. ASSUME NEW x, Sayable(x) PROVE \A n \in 1..Len(<<x>>) : Sayable(<<x>>[n])
  <2>1. \A n \in 1..Len(<<x>>) : <<x>>[n] = x
    OBVIOUS
  <2> QED
    BY <1>5, <2>1
<1>6. ASSUME NEW x, NEW y, Sayable(x), Sayable(y)
      PROVE  \A n \in 1..Len(<<x, y>>) : Sayable(<<x, y>>[n])
  <2>1. \A n \in 1..Len(<<x, y>>) : <<x, y>>[n] \in {x, y}
    OBVIOUS
  <2> QED
    BY <1>6, <2>1
<1> QED
  BY <1>1, <1>2, <1>3, <1>4, <1>5, <1>6

\* The next frame the venue reads.
LEMMA UnreadTyped ==
  ASSUME TypeOK, VenueTyped, Unread
  PROVE  /\ NextUnread \in Frames /\ NextUnread.seq \in Nat
         /\ NextUnread.type = "D" => NextUnread.arg \in Requests
         /\ NextUnread.type # "D" => NextUnread.arg \in Nat
         /\ venue_read + 1 \in 0..Len(sent)
<1>1. sent \in Seq(Frames) /\ venue_read \in Nat /\ venue_read < Len(sent)
  BY DEF TypeOK, ActorTypeOK, VenueTyped, Unread
<1>2. NextUnread \in Frames /\ venue_read + 1 \in 0..Len(sent)
  BY <1>1 DEF NextUnread
<1> HIDE DEF NextUnread
<1>3. \A frame \in Frames : /\ frame.seq \in Nat
                            /\ frame.type = "D" => frame.arg \in Requests
                            /\ frame.type # "D" => frame.arg \in Nat
  BY DEF Frames, AdminTypes
<1> QED
  BY <1>2, <1>3

\* Each message the venue may say is one.
LEMMA SaysTyped ==
  /\ Sayable(Message("A", HeartBtInt)) /\ Sayable(Message("5", 0))
  /\ venue_next \in Nat => Sayable(ResendRequest)
  /\ \A arg \in Nat : Sayable(Message("0", arg)) /\ Sayable(Message("8", arg))
  BY SessionConstants DEF Sayable, Message, ResendRequest, AdminTypes

\* What a frame makes the venue send.
LEMMA AnswersTyped ==
  ASSUME TypeOK, VenueTyped, NEW frame \in Frames
  PROVE  /\ IsSequence(NewAnswers(frame))
         /\ \A n \in 1..Len(NewAnswers(frame)) : Sayable(NewAnswers(frame)[n])
         /\ RepeatsLog(ReplayAnswer(frame))
<1>1. frame.type = "1" => frame.arg \in Nat
  BY DEF Frames
<1>2. RepeatsLog(ReplayAnswer(frame))
  BY DEF RepeatsLog, ReplayAnswer
<1>3. CASE frame.type = "5"
  <2>1. NewAnswers(frame) = <<Message("5", 0)>>
    BY <1>3 DEF NewAnswers
  <2> QED
    BY <1>2, <2>1, SaysTyped, SayableLines
<1>4. CASE frame.type = "1"
  <2>1. NewAnswers(frame) = <<Message("0", frame.arg)>>
    BY <1>4 DEF NewAnswers
  <2>2. Sayable(Message("0", frame.arg))
    BY <1>1, <1>4, SaysTyped
  <2> QED
    BY <1>2, <2>1, <2>2, SayableLines
<1>5. CASE frame.type \notin {"5", "1"}
  <2>1. NewAnswers(frame) = <<>>
    BY <1>5 DEF NewAnswers
  <2> QED
    BY <1>2, <2>1, SayableLines
<1> QED
  BY <1>3, <1>4, <1>5

\* The Logon is answered.
LEMMA LogonTyped ==
  ASSUME AnyFrame, LinkTyping, SameSession, VenueLogon
  PROVE  VenueTyped' /\ LogTyped'
<1> DEFINE seq == NextUnread.seq
           expected == IF venue_next = 0 THEN seq ELSE venue_next
           answer == Message("A", HeartBtInt)
<1> USE DEF LinkTyping
<1>1. /\ venue_state' = "logged_on" /\ venue_read' = venue_read + 1
      /\ venue_orders' = venue_orders /\ sent' = sent /\ Unread
      /\ \/ /\ venue_log' = <<answer>> /\ in_flight' = <<FrameOf(<<answer>>, 1)>>
            /\ venue_next' = 2 /\ venue_asked' = FALSE
         \/ /\ VenueSends(<<answer>>, <<>>)
            /\ venue_next' = seq + 1 /\ venue_asked' = FALSE
         \/ /\ VenueSends(<<answer, ResendRequest>>, <<>>)
            /\ venue_next' = expected /\ venue_asked' = TRUE
  BY DEF VenueLogon, SameSession, vars
<1>2. seq \in Nat /\ expected \in Nat /\ venue_read' \in 0..Len(sent')
  BY <1>1, UnreadTyped DEF VenueTyped
<1>3. Sayable(answer) /\ Sayable(ResendRequest)
  BY SaysTyped DEF VenueTyped
<1> HIDE DEF seq, expected, answer
<1>4. VenueTyped'
  <2>1. venue_next' \in {2, seq + 1, expected} /\ venue_asked' \in BOOLEAN
    BY <1>1
  <2>2. venue_next' \in Nat
    BY <1>2, <2>1
  <2>3. venue_state' = "logged_on" /\ venue_orders' = venue_orders
    BY <1>1
  <2> QED
    BY <1>2, <2>1, <2>2, <2>3 DEF VenueTyped
<1>5. RepeatsLog(<<>>)
  BY DEF RepeatsLog
<1>6. CASE VenueSends(<<answer>>, <<>>) \/ VenueSends(<<answer, ResendRequest>>, <<>>)
  BY <1>3, <1>4, <1>5, <1>6, SayableLines, SendsTyped
<1>7. CASE venue_log' = <<answer>> /\ in_flight' = <<FrameOf(<<answer>>, 1)>>
  <2>1. PICK f : f = FrameOf(<<answer>>, 1)
    OBVIOUS
  <2>2. f \in InFrames
    <3>1. <<answer>>[1] = answer
      OBVIOUS
    <3> QED
      BY <1>3, <2>1, <3>1, FrameOfTyped
  <2>3. venue_log' \in Seq({answer}) /\ in_flight' \in Seq({f})
    BY <1>7, <2>1
  <2>4. DOMAIN venue_log' = {1} /\ DOMAIN in_flight' = {1} /\ in_flight'[1] = f
    BY <1>7, <2>1
  <2>5. FrameOf(venue_log', 1) = f
    BY <1>7, <2>1
  <2> QED
    BY <1>4, <2>2, <2>3, <2>4, <2>5 DEF LogTyped, IsSequence
<1> QED
  BY <1>1, <1>6, <1>7

\* The venue reads a frame.
LEMMA VenueReceiveTyped ==
  ASSUME AnyFrame, LinkTyping, SameSession, VenueReceive
  PROVE  VenueTyped' /\ LogTyped'
<1> USE DEF LinkTyping
<1> DEFINE frame == NextUnread
<1>1. /\ sent' = sent /\ Unread /\ venue_read' = venue_read + 1
      /\ VenueTakes(frame) \/ VenueMisses(frame) \/ VenueSeesAgain(frame)
  BY DEF VenueReceive, SameSession, vars
<1>2. /\ frame \in Frames /\ frame.seq \in Nat /\ venue_read' \in 0..Len(sent')
      /\ frame.type = "D" => frame.arg \in Requests
      /\ frame.type # "D" => frame.arg \in Nat
  BY <1>1, UnreadTyped
<1> HIDE DEF frame
<1>3. CASE VenueTakes(frame)
  <2>1. LogTyped'
    BY <1>2, <1>3, AnswersTyped, SendsTyped DEF VenueTakes
  <2>2. /\ venue_next' = IF frame.type = "4" THEN frame.arg ELSE frame.seq + 1
        /\ venue_asked' = FALSE
        /\ venue_orders' = IF frame.type = "D" THEN Append(venue_orders, frame.arg)
                           ELSE venue_orders
        /\ venue_state' = IF frame.type = "5" THEN "closed" ELSE venue_state
    BY <1>3 DEF VenueTakes
  <2>3. venue_orders' \in Seq(Requests)
    BY <1>2, <2>2, Appended DEF VenueTyped
  <2>4. venue_next' \in Nat
    BY <1>2, <2>2
  <2>5. VenueTyped'
    BY <1>2, <2>2, <2>3, <2>4 DEF VenueTyped
  <2> QED
    BY <2>1, <2>5
<1>4. CASE VenueMisses(frame)
  <2> DEFINE asks == IF venue_asked THEN <<>> ELSE <<ResendRequest>>
  <2>1. VenueSends(asks, ReplayAnswer(frame))
    BY <1>4 DEF VenueMisses
  <2>2. IsSequence(asks) /\ \A n \in 1..Len(asks) : Sayable(asks[n])
    <3>1. Sayable(ResendRequest)
      BY SaysTyped DEF VenueTyped
    <3> QED
      BY <3>1, SayableLines
  <2> HIDE DEF asks
  <2>3. LogTyped'
    BY <1>2, <2>1, <2>2, AnswersTyped, SendsTyped
  <2>4. VenueTyped'
    BY <1>2, <1>4 DEF VenueMisses, VenueTyped
  <2> QED
    BY <2>3, <2>4
<1>5. CASE VenueSeesAgain(frame)
  <2>1. UNCHANGED <<venue_log, in_flight>>
    BY <1>5 DEF VenueSeesAgain
  <2>2. VenueTyped'
    BY <1>2, <1>5 DEF VenueSeesAgain, VenueTyped
  <2> QED
    BY <2>1, <2>2 DEF LogTyped
<1> QED
  BY <1>1, <1>3, <1>4, <1>5

\* What the venue does keeps the types.
LEMMA VenueStepTyped ==
  ASSUME AnyFrame, LinkTyping, SameSession, VenueNext
  PROVE  VenueTyped' /\ LogTyped'
<1> USE DEF LinkTyping
<1>1. UNCHANGED sent
  BY DEF SameSession, vars
<1>2. RepeatsLog(<<>>)
  BY DEF RepeatsLog
<1>3. CASE VenueLogon
  BY <1>3, LogonTyped
<1>4. CASE VenueReceive
  BY <1>4, VenueReceiveTyped
<1>5. CASE VenueExecutes
  <2>1. Len(venue_log) + 1 \in Nat
    <3>1. PICK L : venue_log \in Seq(L)
      BY DEF LogTyped, IsSequence
    <3> QED
      BY <3>1
  <2>2. Sayable(Message("8", Len(venue_log) + 1))
    BY <2>1, SaysTyped
  <2>3. LogTyped'
    BY <1>2, <1>5, <2>2, SayableLines, SendsTyped DEF VenueExecutes
  <2>4. VenueTyped'
    BY <1>1, <1>5 DEF VenueExecutes, VenueTyped
  <2> QED
    BY <2>3, <2>4
<1>6. CASE VenueLogsOut
  <2>1. LogTyped'
    BY <1>2, <1>6, SaysTyped, SayableLines, SendsTyped DEF VenueLogsOut
  <2>2. VenueTyped'
    BY <1>1, <1>6 DEF VenueLogsOut, VenueTyped
  <2> QED
    BY <2>1, <2>2
<1>7. CASE VenueCloses
  BY <1>1, <1>7 DEF VenueCloses, VenueTyped, LogTyped
<1>8. CASE VenueRestart
  <2>1. venue_log' = <<>> /\ venue_next' = 0
        /\ UNCHANGED <<venue_state, venue_asked, venue_read, venue_orders, in_flight>>
    BY <1>8 DEF VenueRestart
  <2>2. IsSequence(venue_log') /\ DOMAIN venue_log' = {}
    BY <2>1, SayableLines
  <2> QED
    BY <1>1, <2>1, <2>2 DEF VenueTyped, LogTyped
<1> QED
  BY <1>3, <1>4, <1>5, <1>6, <1>7, <1>8 DEF VenueNext

\* Bytes once written stay on the wire of a connection.
BytesStay == sent' = sent \/ \E frame : sent' = Append(sent, frame)

\* Only a new connection takes them away.
LEMMA SessionWrites ==
  ASSUME [Next]_vars
  PROVE  BytesStay \/ Connect
<1>1. Fatal => BytesStay
  BY DEF Fatal, BytesStay
<1>2. UNCHANGED vars => BytesStay
  BY DEF vars, BytesStay
<1>3. \A c, seq, then : WriteCommitted(c, seq, then) => BytesStay
  BY DEF WriteCommitted, BytesStay
<1>4. \A m, buffer, rest : CommitExpected(m, buffer, rest) => BytesStay
  BY <1>1 DEF CommitExpected, BytesStay
<1>5. CASE Proceed
  <2>1. CASE CommitAdmin
    BY <1>1, <1>3, <2>1 DEF CommitAdmin
  <2>2. CASE WriteWire
    BY <2>2 DEF WriteWire, BytesStay
  <2>3. CASE MarkWritten
    BY <1>1, <2>3 DEF MarkWritten, BytesStay
  <2>4. CASE JournalReplay
    BY <2>4 DEF JournalReplay, BytesStay
  <2>5. CASE WriteReplayWire
    BY <2>5 DEF WriteReplayWire, BytesStay
  <2>6. CASE MarkReplayWritten
    BY <2>6 DEF MarkReplayWritten, BytesStay
  <2>7. CASE CommitResynced
    BY <1>4, <2>7 DEF CommitResynced
  <2>8. CASE DrainBuffer
    BY <1>4, <2>8 DEF DrainBuffer, BytesStay
  <2>9. CASE ResetJournal
    BY <2>9 DEF ResetJournal, BytesStay
  <2> QED
    BY <1>5, <2>1, <2>2, <2>3, <2>4, <2>5, <2>6, <2>7, <2>8, <2>9 DEF Proceed
<1>6. ASSUME NEW r, NEW f, Submit(r, f) PROVE BytesStay
  BY <1>1, <1>2, <1>3, <1>6 DEF Submit
<1>7. CASE RequestLogout
  BY <1>7 DEF RequestLogout, BytesStay
<1>8. ASSUME NEW expired, NEW silent, Tick(expired, silent) PROVE BytesStay
  BY <1>1, <1>8 DEF Tick, BytesStay
<1>9. CASE Disconnect
  BY <1>9 DEF Disconnect, BytesStay
<1>10. CASE AwaitFails
  BY <1>10 DEF AwaitFails, BytesStay
<1>11. ASSUME NEW m, ReceiveFrame(m) PROVE BytesStay
  BY <1>1, <1>2, <1>4, <1>11 DEF ReceiveFrame, ReceiveDuplicate, ReceiveAhead,
     ReceiveBehind, ReceiveExpected, BytesStay
<1>12. CASE RejectFrame
  BY <1>1, <1>12 DEF RejectFrame
<1> QED
  BY <1>2, <1>5, <1>6, <1>7, <1>8, <1>9, <1>10, <1>11, <1>12 DEF Next, Local, Horizon

\* A step over the connection is a step of FixSession: what is delivered is a
\* frame a counterparty may send.
LEMMA LinkSteps ==
  ASSUME LinkTyping, [LinkNext]_linkvars
  PROVE  [Next]_vars
<1>1. CASE in_flight # <<>> /\ ReceiveFrame(Head(in_flight))
  <2>1. PICK S : in_flight \in Seq(S)
    BY DEF LinkTyping, LogTyped, IsSequence
  <2>2. 1 \in DOMAIN in_flight /\ Head(in_flight) = in_flight[1]
    BY <1>1, <2>1
  <2>3. Head(in_flight) \in InFrames
    BY <2>2 DEF LinkTyping, LogTyped
  <2> QED
    BY <1>1, <2>3 DEF Next
<1> QED
  BY <1>1, SessionSteps

\* What is left on its way after a delivery is of its type.
LEMMA DeliverTyped ==
  ASSUME LogTyped, Deliver
  PROVE  LogTyped'
<1>1. PICK S : in_flight \in Seq(S)
  BY DEF LogTyped, IsSequence
<1>2. in_flight # <<>> /\ in_flight' = Tail(in_flight) /\ UNCHANGED venue_log
  BY DEF Deliver
<1>3. /\ in_flight' \in Seq(S) /\ Len(in_flight') = Len(in_flight) - 1
      /\ \A i \in 1..Len(in_flight') : in_flight'[i] = in_flight[i + 1]
  BY <1>1, <1>2
<1>4. \A i \in DOMAIN in_flight' : i + 1 \in DOMAIN in_flight
  BY <1>1, <1>3
<1> QED
  BY <1>2, <1>3, <1>4 DEF LogTyped, IsSequence

\* Every step keeps the types.
LEMMA LinkTypingInductive ==
  ASSUME AnyFrame, LinkTyping, [LinkNext]_linkvars
  PROVE  LinkTyping'
<1>1. [Next]_vars
  BY LinkSteps
<1>2. TypeOK'
  BY <1>1, TypeInductive DEF LinkTyping
<1>3. sent \in Seq(Frames) /\ sent' \in Seq(Frames)
  BY <1>2 DEF LinkTyping, TypeOK, ActorTypeOK
<1>4. LogTyped'
  <2>1. CASE SameSession /\ VenueNext
    BY <2>1, VenueStepTyped
  <2>2. CASE Deliver
    BY <2>2, DeliverTyped DEF LinkTyping
  <2>3. CASE Reconnect
    <3>1. in_flight' = <<>> /\ UNCHANGED venue_log
      BY <2>3 DEF Reconnect
    <3>2. IsSequence(in_flight') /\ DOMAIN in_flight' = {}
      BY <3>1, SayableLines
    <3> QED
      BY <3>1, <3>2 DEF LinkTyping, LogTyped
  <2>4. CASE UNCHANGED venue
    BY <2>4 DEF LinkTyping, LogTyped, venue
  <2> QED
    BY <2>1, <2>2, <2>3, <2>4 DEF LinkNext, SessionAlone, HangUp, linkvars, SameSession
<1>5. VenueTyped'
  <2>0. (SameSession /\ VenueNext) \/ Reconnect \/ UNCHANGED venue_asked
    BY DEF LinkNext, SessionAlone, Deliver, HangUp, linkvars, venue, SameSession
  <2>1. CASE SameSession /\ VenueNext
    BY <2>1, VenueStepTyped
  <2>2. CASE Reconnect
    <3>1. 0 \in 0..Len(sent')
      BY <1>3
    <3> QED
      BY <2>2, <3>1 DEF Reconnect, LinkTyping, VenueTyped
  <2>3. CASE SameVenue /\ ~Connect /\ UNCHANGED venue_asked
    <3>1. Len(sent) <= Len(sent')
      <4>1. CASE sent' = sent
        BY <1>3, <4>1
      <4>2. ASSUME NEW frame, sent' = Append(sent, frame) PROVE Len(sent) <= Len(sent')
        BY <1>3, <4>2
      <4> QED
        BY <1>1, <2>3, <4>1, <4>2, SessionWrites DEF BytesStay
    <3> QED
      BY <1>3, <2>3, <3>1 DEF SameVenue, LinkTyping, VenueTyped
  <2>4. CASE SameVenue /\ SameSession /\ UNCHANGED venue_asked
    BY <2>4 DEF SameVenue, SameSession, LinkTyping, VenueTyped, vars
  <2> QED
    BY <2>0, <2>1, <2>2, <2>3, <2>4, Sides
<1> QED
  BY <1>2, <1>4, <1>5 DEF LinkTyping

\* Nothing was sent at first.
LEMMA LinkTypingInitial == LinkInit => LinkTyping
<1> SUFFICES ASSUME LinkInit PROVE LinkTyping
  OBVIOUS
<1>1. /\ Init /\ venue_state = "closed" /\ venue_log = <<>> /\ venue_next = 1
      /\ venue_asked = FALSE /\ venue_read = 0 /\ venue_orders = <<>> /\ in_flight = <<>>
  BY DEF LinkInit
<1>2. TypeOK
  BY <1>1, InitTyped
<1>3. venue_orders \in Seq(Requests) /\ DOMAIN venue_log = {} /\ DOMAIN in_flight = {}
  BY <1>1
<1>4. 0 \in 0..Len(sent)
  BY <1>2 DEF TypeOK, ActorTypeOK
<1> QED
  BY <1>1, <1>2, <1>3, <1>4, SayableLines DEF LinkTyping, VenueTyped, LogTyped

\* LinkTypeOK, for a session that takes every frame: what the venue says, asks
\* for, repeats or fills, after whatever was written to it, is a frame the
\* session may receive, and what it takes for an order is one.
THEOREM LinkTyped ==
  ASSUME AnyFrame
  PROVE  LinkSpec => []LinkTypeOK
<1>1. LinkTyping => LinkTypeOK
  BY DEF LinkTyping, VenueTyped, LogTyped, LinkTypeOK
<1> QED
  BY <1>1, LinkTypingInitial, LinkTypingInductive, PTL DEF LinkSpec

\* What is proved of FixSession holds over the link: the venue does nothing to
\* the session but send it frames (Deliver is handle_inbound).
THEOREM LinkIsSession ==
  ASSUME AnyFrame
  PROVE  LinkSpec => Spec
<1>1. LinkInit => Init
  BY DEF LinkInit
<1>2. LinkTyping /\ [LinkNext]_linkvars => [Next]_vars
  BY LinkSteps
<1> QED
  BY <1>1, <1>2, LinkTypingInitial, LinkTypingInductive, PTL DEF LinkSpec, Spec
=============================================================================
