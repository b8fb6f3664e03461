------------------------------- MODULE FixLink ------------------------------
(***************************************************************************)
(* The session actor and its counterparty over one TCP connection after    *)
(* another.                                                                *)
(*                                                                         *)
(* The venue is not part of the repository: it is any FIX 4.4 acceptor     *)
(* that numbers what it sends, answers a Logon, asks for what it missed    *)
(* and replays what it is asked for (executions again with PossDupFlag,    *)
(* session messages covered by gap fills), exactly as the session itself   *)
(* does in replay_validated_range.  Messages of a connection arrive in     *)
(* order; those not read when it ends are lost.  The venue keeps its       *)
(* numbers across connections, and loses them if it restarts.  Here the    *)
(* daemon is not configured anew between two connections.                  *)
(***************************************************************************)
EXTENDS FixSession, FiniteSetsExt

CONSTANTS
  MaxLog,        \* bound: messages the venue sends of its own accord
  VenueRestarts, \* the venue may lose its numbers between connections
  Ticks,         \* the heartbeat deadline is part of the run
  Logouts        \* either side may ask to log out

ASSUME LinkConstants ==
  /\ MaxLog \in Nat /\ ResetOnLogon \in {{FALSE}, {TRUE}}
  /\ {VenueRestarts, Ticks, Logouts} \subseteq BOOLEAN

VARIABLES
  venue_state,  \* "closed", "connected" or "logged_on"
  venue_log,    \* what the venue sent, by its sequence number
  venue_next,   \* number the venue expects next (0: it takes the Logon's)
  venue_asked,  \* the venue waits for a replay
  venue_read,   \* how many frames of sent it has read
  venue_orders, \* the orders it accepted, in order
  in_flight     \* frames on their way to the session

venue == <<venue_state, venue_log, venue_next, venue_asked, venue_read,
           venue_orders, in_flight>>
linkvars == <<vars, venue>>

Message(type, arg) == [type |-> type, arg |-> arg]

\* The frame of number n in a log, as sent first.
FrameOf(log, n) ==
  [type |-> log[n].type, seq |-> n, possdup |-> FALSE, arg |-> log[n].arg, end |-> 0]

IsExecution(log, n) == log[n].type = "8"

\* A replay from begin on: each execution is a frame of its own, and what lies
\* between two of them is one gap fill.
ReplayStarts(log, begin) ==
  {n \in DOMAIN log :
     n >= begin /\ (n = begin \/ IsExecution(log, n) \/ IsExecution(log, n - 1))}
VenueFill(log, n) ==
  Frame("4", n, Min({k \in DOMAIN log : k > n /\ IsExecution(log, k)} \cup {Len(log) + 1}))
ReplayOf(log, n) ==
  Repeated(IF IsExecution(log, n) THEN FrameOf(log, n) ELSE VenueFill(log, n))

\* The answer to ResendRequest(begin, 0), in ascending order.
VenueReplay(log, begin) ==
  LET starts == ReplayStarts(log, begin)
      start(i) == CHOOSE n \in starts : Cardinality({k \in starts : k < n}) = i - 1
  IN  [i \in 1..Cardinality(starts) |-> ReplayOf(log, start(i))]

\* The venue sends new messages, then repeats what was asked for.
VenueSends(messages, replay) ==
  LET log == venue_log \o messages
  IN  /\ venue_log' = log
      /\ in_flight' = in_flight
           \o [i \in DOMAIN messages |-> FrameOf(log, Len(venue_log) + i)]
           \o replay

ResendRequest == Message("2", venue_next)

(***************************************************************************)
(* The venue reads the next frame of the connection.                       *)
(***************************************************************************)
Unread == venue_state # "closed" /\ venue_read < Len(sent)
NextUnread == sent[venue_read + 1]

\* ResetSeqNumFlag of the Logon.
StartsOver == TRUE \in ResetOnLogon

\* A Logon with 141=Y restarts both numberings; one that is ahead is
\* answered and what lies before it asked for; one that is behind is not
\* answered.
VenueLogon ==
  /\ Unread /\ venue_state = "connected"
  /\ venue_state' = "logged_on"
  /\ venue_read' = venue_read + 1
  /\ venue_orders' = venue_orders
  /\ LET seq == NextUnread.seq
         expected == IF venue_next = 0 THEN seq ELSE venue_next
         answer == Message("A", HeartBtInt)
     IN  \/ /\ StartsOver
            /\ venue_log' = <<answer>>
            /\ in_flight' = <<FrameOf(<<answer>>, 1)>>
            /\ venue_next' = 2 /\ venue_asked' = FALSE
         \/ /\ ~StartsOver /\ seq = expected
            /\ VenueSends(<<answer>>, <<>>)
            /\ venue_next' = seq + 1 /\ venue_asked' = FALSE
         \/ /\ ~StartsOver /\ seq > expected
            /\ VenueSends(<<answer, ResendRequest>>, <<>>)
            /\ venue_next' = expected /\ venue_asked' = TRUE

\* What an expected frame makes the venue send: new messages and a replay.
NewAnswers(frame) ==
  CASE frame.type = "5" -> <<Message("5", 0)>>
    [] frame.type = "1" -> <<Message("0", frame.arg)>>
    [] OTHER -> <<>>
ReplayAnswer(frame) ==
  IF frame.type = "2" THEN VenueReplay(venue_log, frame.arg) ELSE <<>>

VenueTakes(frame) ==
  /\ frame.seq = venue_next
  /\ VenueSends(NewAnswers(frame), ReplayAnswer(frame))
  /\ venue_next' = IF frame.type = "4" THEN frame.arg ELSE frame.seq + 1
  /\ venue_asked' = FALSE
  /\ venue_orders' = IF frame.type = "D" THEN Append(venue_orders, frame.arg)
                     ELSE venue_orders
  /\ venue_state' = IF frame.type = "5" THEN "closed" ELSE venue_state

\* Ahead: dropped, since the replay will bring it again; a ResendRequest is
\* answered all the same.
VenueMisses(frame) ==
  /\ frame.seq > venue_next
  /\ VenueSends(IF venue_asked THEN <<>> ELSE <<ResendRequest>>, ReplayAnswer(frame))
  /\ venue_asked' = TRUE
  /\ UNCHANGED <<venue_next, venue_orders, venue_state>>

\* Behind: a repetition is ignored, anything else ends the connection.
VenueSeesAgain(frame) ==
  /\ frame.seq < venue_next
  /\ venue_state' = IF frame.possdup THEN venue_state ELSE "closed"
  /\ UNCHANGED <<venue_log, venue_next, venue_asked, venue_orders, in_flight>>

VenueReceive ==
  /\ Unread /\ venue_state = "logged_on"
  /\ venue_read' = venue_read + 1
  /\ VenueTakes(NextUnread) \/ VenueMisses(NextUnread) \/ VenueSeesAgain(NextUnread)

(***************************************************************************)
(* The venue acts of its own accord.                                       *)
(***************************************************************************)
\* An execution; its argument identifies it.
VenueExecutes ==
  /\ venue_state = "logged_on" /\ Len(venue_log) < MaxLog
  /\ VenueSends(<<Message("8", Len(venue_log) + 1)>>, <<>>)
  /\ UNCHANGED <<venue_state, venue_next, venue_asked, venue_read, venue_orders>>

\* A Logout, before or after the Logon was answered, and the end.
VenueLogsOut ==
  /\ Logouts /\ venue_state # "closed" /\ Len(venue_log) < MaxLog
  /\ VenueSends(<<Message("5", 0)>>, <<>>)
  /\ venue_state' = "closed"
  /\ UNCHANGED <<venue_next, venue_asked, venue_read, venue_orders>>

VenueCloses ==
  /\ venue_state # "closed"
  /\ venue_state' = "closed"
  /\ UNCHANGED <<venue_log, venue_next, venue_asked, venue_read, venue_orders, in_flight>>

VenueRestart ==
  /\ VenueRestarts /\ venue_state = "closed" /\ ~running /\ venue_next # 0
  /\ venue_log' = <<>> /\ venue_next' = 0
  /\ UNCHANGED <<venue_state, venue_asked, venue_read, venue_orders, in_flight>>

(***************************************************************************)
(* The session over the connection.                                        *)
(***************************************************************************)
Deliver ==
  /\ in_flight # <<>>
  /\ ReceiveFrame(Head(in_flight))
  /\ in_flight' = Tail(in_flight)
  /\ UNCHANGED <<venue_state, venue_log, venue_next, venue_asked, venue_read, venue_orders>>

\* A new connection: what was on the old one is gone.
Reconnect ==
  /\ Connect
  /\ venue_state' = "connected"
  /\ venue_read' = 0 /\ venue_asked' = FALSE /\ in_flight' = <<>>
  /\ UNCHANGED <<venue_log, venue_next, venue_orders>>

\* End of file once everything was read, or the handles are dropped after
\* the peer's Logout.
HangUp ==
  /\ \/ venue_state = "closed" /\ in_flight = <<>>
     \/ phase = "Disconnected"
  /\ Disconnect
  /\ UNCHANGED venue

SessionAlone ==
  /\ \/ Proceed
     \/ \E r \in Requests, f \in Fingerprints : Submit(r, f)
     \/ Logouts /\ RequestLogout
     \/ Ticks /\ \E expired, silent \in BOOLEAN : Tick(expired, silent)
     \/ AwaitFails
  /\ UNCHANGED venue

VenueNext ==
  \/ VenueLogon \/ VenueReceive \/ VenueExecutes
  \/ VenueLogsOut \/ VenueCloses \/ VenueRestart

LinkInit ==
  /\ Init
  /\ venue_state = "closed"
  /\ venue_log = <<>> /\ venue_next = 1 /\ venue_asked = FALSE
  /\ venue_read = 0 /\ venue_orders = <<>> /\ in_flight = <<>>

LinkNext ==
  \/ SessionAlone \/ Deliver \/ Reconnect \/ HangUp
  \/ VenueNext /\ UNCHANGED vars
  \/ Horizon /\ UNCHANGED venue

LinkSpec == LinkInit /\ [][LinkNext]_linkvars

\* The runtime polls the actor, bytes written to a live connection arrive, the
\* venue reads them and answers, and the end of a connection is noticed.  That
\* anybody submits, logs out, reconnects or fails is not assumed.
LiveSpec ==
  /\ LinkSpec
  /\ WF_linkvars(Proceed /\ UNCHANGED venue)
  /\ WF_linkvars(Deliver)
  /\ WF_linkvars((VenueLogon \/ VenueReceive) /\ UNCHANGED vars)
  /\ WF_linkvars(HangUp)

(***************************************************************************)
(* Properties.                                                             *)
(***************************************************************************)
\* The venue's state is well typed.
LinkTypeOK ==
  /\ TypeOK
  /\ venue_state \in {"closed", "connected", "logged_on"}
  /\ \A n \in DOMAIN venue_log : FrameOf(venue_log, n) \in InFrames
  /\ venue_next \in Nat /\ venue_read \in 0..Len(sent)
  /\ venue_asked \in BOOLEAN
  /\ venue_orders \in Seq(Requests)
  /\ \A i \in DOMAIN in_flight : in_flight[i] \in InFrames

\* No execution report is lost: each one with a number behind next_in is in
\* the journal, whatever was lost, replayed, buffered or gap-filled on the
\* way, and however often either side went down (a venue that forgot its
\* numbers, VenueRestarts, counts from 1 again and is no measure of next_in).
NoExecutionLost ==
  \A n \in DOMAIN venue_log :
    n < meta.next_in /\ IsExecution(venue_log, n) =>
      /\ n \in DOMAIN inbound
      /\ inbound[n].wire.type = "8" /\ inbound[n].wire.arg = venue_log[n].arg

\* The venue takes each order at most once, and only orders the journal has.
OrdersTakenOnce ==
  /\ \A i, k \in DOMAIN venue_orders : venue_orders[i] = venue_orders[k] => i = k
  /\ \A i \in DOMAIN venue_orders : venue_orders[i] \in DOMAIN commands

\* No new message carries a number the venue has already taken: reconnects,
\* errors and replays never make the session number anything twice.
NumbersNeverReused ==
  Unread /\ ~NextUnread.possdup /\ ~(venue_state = "connected" /\ StartsOver) =>
    NextUnread.seq >= venue_next

\* A recovery ends: the replay the session asked for closes the gap, or the
\* connection ends.  (At the bounds of the model nothing more is delivered.)
RecoveryEnds == phase = "Recovering" ~> (phase # "Recovering" \/ ~InBounds)

\* A frame of the venue is handled: read, or committed after a realignment or
\* out of the gap buffer.  (A failing await is none of these steps.)
HandlesFrame == Deliver \/ CommitResynced \/ DrainBuffer

\* The gap buffer holds what comes next.
HasRoom ==
  Doing("drain") \/ Doing("expected") \/ Cardinality(DOMAIN gap_buffer) < GapLimit

\* While the session is LogonSent or Recovering, nothing that a conforming
\* venue sends (replays, gap fills, messages of its own between them) blocks
\* it: not when it arrives, not when it is committed after a realignment, and
\* not when it is taken out of the gap buffer, as long as the buffer holds it.
ReplayRecovers ==
  [][HandlesFrame /\ HasRoom /\ phase \in {"LogonSent", "Recovering"}
       => phase' # "Blocked"]_linkvars

\* The same in every phase.  It does not hold: what is left of a replay when the
\* buffer is drained comes behind next_in (handle_inbound).
ReplayNeverBlocks ==
  [][HandlesFrame /\ HasRoom => phase' # "Blocked"]_linkvars

\* What the venue asks to be repeated is repeated, or the connection ends.
PeerGapCloses ==
  venue_asked ~> (~venue_asked \/ venue_state = "closed" \/ ~InBounds \/ ~running)
=============================================================================
