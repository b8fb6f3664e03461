-------------------------- MODULE FixSessionProofs --------------------------
(***************************************************************************)
(* Theorems about FixSession, for any requests, frames and bounds, with a  *)
(* failure in any await: the counters of actor and journal                 *)
(* (CountersAgree), the keys of session messages (KeysFresh), the wire and *)
(* the journal (WireInJournal), and that the actor implements OrderLedger  *)
(* (KeepsTheLedger).  They hold for the system, where ControlService looks *)
(* a request up before it submits it, and without resets for any user of   *)
(* SessionHandle (Gated).                                                  *)
(*                                                                         *)
(* None of them is inductive.  What the actor has still to do decides them *)
(* all: only the head of todo writes or marks, what it writes is journaled *)
(* under next_out, and the journal is then one number ahead (TodoOK,       *)
(* Counted).  IInv is that, and what it takes of the tables.               *)
(*                                                                         *)
(* Without an assumption: each step keeps the types (TypeOK), and is to    *)
(* the journal an operation of FixStore or none, so that what is proved of *)
(* the store holds under a session (JournalIsStore, SessionJournal).       *)
(***************************************************************************)
EXTENDS FixSession, WellFoundedInduction, TLAPS

\* The four counters are there, the ones numbers are made of are numbers.
MetaOK ==
  /\ meta = [next_out |-> meta.next_out, next_in |-> meta.next_in,
             next_event |-> meta.next_event, next_transmission |-> meta.next_transmission]
  /\ meta.next_out \in Nat /\ meta.next_event \in Nat

\* A row of the outbound table holds a frame as it was first sent, under its
\* number, which is behind the counter.
RowOK(n) ==
  /\ n \in Nat /\ n < meta.next_out
  /\ outbound[n] = [command |-> outbound[n].command, wire |-> outbound[n].wire]
  /\ outbound[n].wire = Frame(outbound[n].wire.type, n, outbound[n].wire.arg)

RowsOK ==
  /\ outbound = [n \in DOMAIN outbound |-> outbound[n]]
  /\ \A n \in DOMAIN outbound : RowOK(n)

CommandOK(k) ==
  /\ commands[k] = [request_id |-> commands[k].request_id,
                    fingerprint |-> commands[k].fingerprint,
                    cl_ord_id |-> commands[k].cl_ord_id,
                    msg_seq_num |-> commands[k].msg_seq_num,
                    phase |-> commands[k].phase]
  /\ commands[k].phase \in {"Journaled", "Written"}

CommandsOK ==
  /\ commands = [k \in DOMAIN commands |-> commands[k]]
  /\ \A k \in DOMAIN commands : CommandOK(k)

\* Without resets no command has the number the actor is at.
NumbersBehind ==
  TRUE \notin ResetOnLogon =>
    \A k \in DOMAIN commands :
      commands[k].msg_seq_num \in Nat /\ commands[k].msg_seq_num < meta.next_out

\* The counters of a live actor, in every state of it.
Counted ==
  running =>
    /\ next_in = meta.next_in
    /\ next_event = meta.next_event
    /\ meta.next_out = IF InFlight THEN next_out + 1 ELSE next_out

\* Entries of todo that a handler leaves for later: never a write or a mark.
Later(job) ==
  /\ job.do \in {"commit", "replay", "expected", "drain"}
  /\ job.do = "commit" => job.type \in AdminTypes

IsLine(line) == \E S : line \in Seq(S) /\ \A job \in S : Later(job)

\* The journal holds the frame as it was first sent.
InJournal(frame) ==
  /\ frame.seq \in DOMAIN outbound
  /\ outbound[frame.seq].wire = AsFirstSent(frame)

\* What is to be written is journaled under next_out; if it is an order it
\* was not written before.
WriteOK(job) ==
  /\ job.seq = next_out
  /\ InJournal(job.frame) /\ ~job.frame.possdup
  /\ job.frame.type # "D" => job.key \in AdminKeys
  /\ job.frame.type = "D" =>
       /\ job.key \in Requests /\ job.frame.arg = job.key
       /\ job.key \in DOMAIN commands /\ commands[job.key].phase = "Journaled"
       /\ originals[job.key] = 0

\* What is to be marked was written.
MarkOK(job) ==
  /\ job.seq = next_out
  /\ job.key \in Requests \cup AdminKeys
  /\ job.key \in Requests =>
       /\ job.key \in DOMAIN commands /\ commands[job.key].phase = "Journaled"
       /\ originals[job.key] = 1

ReplayOK(job) ==
  /\ job.frame.possdup = TRUE
  /\ job.frame.type = "D" => InJournal(job.frame)

HeadOK(job) ==
  \/ Later(job)
  \/ job.do = "reset" /\ sent = <<>> /\ TRUE \in ResetOnLogon
  \/ job.do = "write" /\ WriteOK(job)
  \/ job.do = "mark" /\ MarkOK(job)
  \/ job.do = "write replay" /\ ReplayOK(job)
  \/ job.do = "mark replay"

TodoOK == todo = <<>> \/ (HeadOK(Head(todo)) /\ IsLine(Tail(todo)))

\* No order is written before it is journaled, and none twice.
CopiesOK ==
  /\ originals \in [Requests -> {0, 1}]
  /\ \A r \in Requests : r \notin DOMAIN commands => originals[r] = 0

SentOK == \E S : sent \in Seq(S)

\* How the actor is used: behind the lookup, or without resets.
Gated == ~DirectSubmit \/ TRUE \notin ResetOnLogon

\* The inductive invariant.
IInv ==
  /\ MetaOK /\ RowsOK /\ CommandsOK /\ NumbersBehind
  /\ Counted /\ TodoOK /\ CopiesOK
  /\ AdminKeysFresh
  /\ SentOK /\ WireJournaled

-----------------------------------------------------------------------------
\* A sequence keeps its type when the set of its elements grows.
LEMMA WiderLine ==
  ASSUME NEW S, NEW R, S \subseteq R, NEW s \in Seq(S)
  PROVE  s \in Seq(R)
  OBVIOUS

\* Nothing to do is a line.
LEMMA NothingLater == IsLine(<<>>)
<1> DEFINE S == {}
<1>1. <<>> \in Seq(S) /\ \A job \in S : Later(job)
  OBVIOUS
<1> HIDE DEF S
<1>2. QED
  BY <1>1 DEF IsLine

\* One entry that is for later is a line.
LEMMA OneLater ==
  ASSUME NEW job, Later(job)
  PROVE  IsLine(<<job>>)
<1> DEFINE S == {job}
<1>1. <<job>> \in Seq(S) /\ \A j \in S : Later(j)
  OBVIOUS
<1> HIDE DEF S
<1>2. QED
  BY <1>1 DEF IsLine

\* Two lines in a row are a line.
LEMMA MoreLater ==
  ASSUME NEW s, NEW t, IsLine(s), IsLine(t)
  PROVE  IsLine(s \o t)
<1>1. PICK S : s \in Seq(S) /\ \A job \in S : Later(job)
  BY DEF IsLine
<1>2. PICK R : t \in Seq(R) /\ \A job \in R : Later(job)
  BY DEF IsLine
<1>3. s \in Seq(S \cup R) /\ t \in Seq(S \cup R)
  BY <1>1, <1>2, WiderLine
<1>4. s \o t \in Seq(S \cup R) /\ \A job \in S \cup R : Later(job)
  BY <1>1, <1>2, <1>3
<1>5. QED
  BY <1>4 DEF IsLine

\* So is a line and one more entry behind it.
LEMMA LastLater ==
  ASSUME NEW s, NEW job, IsLine(s), Later(job)
  PROVE  IsLine(Append(s, job))
<1>1. PICK S : s \in Seq(S) /\ \A j \in S : Later(j)
  BY DEF IsLine
<1>2. s \in Seq(S \cup {job}) /\ \A j \in S \cup {job} : Later(j)
  BY <1>1, WiderLine
<1>3. Append(s, job) \in Seq(S \cup {job})
  BY <1>2
<1>4. QED
  BY <1>2, <1>3 DEF IsLine

\* Two entries that are for later are a line.
LEMMA TwoLater ==
  ASSUME NEW a, NEW b, Later(a), Later(b)
  PROVE  IsLine(<<a, b>>)
<1> DEFINE S == {a, b}
<1>1. <<a, b>> \in Seq(S) /\ \A j \in S : Later(j)
  OBVIOUS
<1> HIDE DEF S
<1>2. QED
  BY <1>1 DEF IsLine

\* What a line starts with is for later, and the rest is a line.
LEMMA LineStarts ==
  ASSUME NEW s, IsLine(s), s # <<>>
  PROVE  Later(Head(s)) /\ IsLine(Tail(s))
<1>1. PICK S : s \in Seq(S) /\ \A j \in S : Later(j)
  BY DEF IsLine
<1>2. Head(s) \in S /\ Tail(s) \in Seq(S)
  BY <1>1
<1>3. QED
  BY <1>1, <1>2 DEF IsLine

\* What is put in front of a line is its head.
LEMMA LineFront ==
  ASSUME NEW job, NEW s, IsLine(s)
  PROVE  /\ <<job>> \o s # <<>>
         /\ Head(<<job>> \o s) = job
         /\ Tail(<<job>> \o s) = s
<1>1. PICK S : s \in Seq(S) /\ \A j \in S : Later(j)
  BY DEF IsLine
<1>2. s \in Seq(S \cup {job}) /\ <<job>> \in Seq(S \cup {job})
  BY <1>1, WiderLine
<1>3. /\ <<job>> \o s \in Seq(S \cup {job})
      /\ Len(<<job>> \o s) = Len(s) + 1 /\ Len(s) \in Nat
      /\ (<<job>> \o s)[1] = job
      /\ \A i \in 1..Len(s) : (<<job>> \o s)[i + 1] = s[i]
  BY <1>2
<1>4. <<job>> \o s # <<>> /\ Head(<<job>> \o s) = job
  BY <1>3
<1>5. /\ Tail(<<job>> \o s) \in Seq(S \cup {job})
      /\ Len(Tail(<<job>> \o s)) = Len(s)
      /\ \A i \in 1..Len(s) : Tail(<<job>> \o s)[i] = s[i]
  BY <1>3, <1>4
<1>6. Tail(<<job>> \o s) = s
  BY <1>2, <1>5
<1>7. QED
  BY <1>4, <1>6

\* A line is what todo may be without a write at its head.
LEMMA LineOK ==
  ASSUME IsLine(todo)'
  PROVE  TodoOK' /\ ~InFlight'
<1>1. CASE todo' = <<>>
  BY <1>1 DEF TodoOK, InFlight, Doing
<1>2. CASE todo' # <<>>
  <2>1. Later(Head(todo')) /\ IsLine(Tail(todo'))
    BY <1>2, LineStarts
  <2>2. TodoOK'
    BY <2>1 DEF TodoOK, HeadOK, Later
  <2>3. ~InFlight'
    BY <2>1 DEF InFlight, Doing, Later
  <2> QED
    BY <2>2, <2>3
<1> QED
  BY <1>1, <1>2

\* The tail of todo is a line, whatever its head is.
LEMMA RestLater ==
  ASSUME TodoOK, todo # <<>>
  PROVE  IsLine(Tail(todo)) /\ HeadOK(Head(todo))
  BY DEF TodoOK

-----------------------------------------------------------------------------
\* A step that leaves commands, rows and wire alone, moves the counters of
\* journal and actor together, and has nothing to write next.
LEMMA QuietKeeps ==
  ASSUME IInv, MetaOK', TodoOK', ~InFlight',
         UNCHANGED <<commands, outbound, originals>>,
         sent' = sent \/ sent' = <<>>,
         meta'.next_out = meta.next_out, meta'.next_event >= meta.next_event,
         running' => /\ next_in' = meta'.next_in /\ next_event' = meta'.next_event
                     /\ next_out' = meta'.next_out
  PROVE  IInv'
<1> USE DEF IInv
<1>1. RowsOK' /\ CommandsOK' /\ CopiesOK' /\ NumbersBehind'
  BY DEF RowsOK, RowOK, CommandsOK, CommandOK, CopiesOK, NumbersBehind
<1>2. Counted'
  BY DEF Counted
<1>3. AdminKeysFresh'
  BY DEF AdminKeysFresh, AdminKeys, MetaOK
<1>4. SentOK'
  <2>1. CASE sent' = sent
    BY <2>1 DEF SentOK
  <2>2. CASE sent' = <<>>
    <3> DEFINE S == {}
    <3>1. sent' \in Seq(S)
      BY <2>2
    <3> HIDE DEF S
    <3> QED
      BY <3>1 DEF SentOK
  <2> QED
    BY <2>1, <2>2
<1>5. WireJournaled'
  BY DEF WireJournaled
<1> QED
  BY <1>1, <1>2, <1>3, <1>4, <1>5

\* A step that changes nothing.
LEMMA StutterKeeps ==
  ASSUME IInv, UNCHANGED vars
  PROVE  IInv'
  BY DEF vars, journal, counters, history, IInv, MetaOK, RowsOK, RowOK, CommandsOK,
     CommandOK, NumbersBehind, Counted, TodoOK, HeadOK, Later, WriteOK, MarkOK, ReplayOK,
     InJournal, CopiesOK, AdminKeysFresh, SentOK, WireJournaled, InFlight, Doing

\* run returns.
LEMMA StopKeeps ==
  ASSUME IInv, NEW last_phase, Stop(last_phase), UNCHANGED <<journal, sent, originals>>
  PROVE  IInv'
<1>1. IsLine(todo)'
  BY NothingLater DEF Stop
<1>2. TodoOK' /\ ~InFlight'
  BY <1>1, LineOK
<1> QED
  BY <1>2, QuietKeeps DEF Stop, journal, IInv, MetaOK

\* An error leaves run.
LEMMA FatalKeeps ==
  ASSUME IInv, Fatal
  PROVE  IInv'
  BY StopKeeps DEF Fatal, history

\* A step without a write at hand, before and after.
LEMMA LineKeeps ==
  ASSUME IInv, ~InFlight, IsLine(todo)',
         UNCHANGED <<journal, sent, originals, counters>>,
         running' => running
  PROVE  IInv'
<1>1. TodoOK' /\ ~InFlight'
  BY LineOK
<1> QED
  BY <1>1, QuietKeeps DEF journal, counters, IInv, MetaOK, Counted

-----------------------------------------------------------------------------
\* What a committed message makes the actor do is for later.
LEMMA ResponseLater ==
  ASSUME NEW m
  PROVE  IsLine(Response(m))
<1>1. Later(Send("5", 0, "Disconnected"))
  BY DEF Later, Send, AdminTypes
<1>2. Later(Replay(m.arg, RangeEnd(m)))
  BY DEF Later, Replay
<1>3. Later(Send("0", m.arg, "None"))
  BY DEF Later, Send, AdminTypes
<1> QED
  BY <1>1, <1>2, <1>3, NothingLater, OneLater DEF Response

\* A commit of a received message or of a realignment, as the counters see it.
LEMMA InboundMeta ==
  ASSUME MetaOK, NEW n, meta' = [meta EXCEPT !.next_in = n, !.next_event = @ + 1]
  PROVE  /\ MetaOK' /\ meta'.next_out = meta.next_out
         /\ meta'.next_event = meta.next_event + 1 /\ meta'.next_in = n
<1>1. meta' = [next_out |-> meta.next_out, next_in |-> n,
               next_event |-> meta.next_event + 1,
               next_transmission |-> meta.next_transmission]
  BY DEF MetaOK
<1>2. /\ meta'.next_out = meta.next_out /\ meta'.next_event = meta.next_event + 1
      /\ meta'.next_in = n /\ meta'.next_transmission = meta.next_transmission
  BY <1>1
<1>3. meta' = [next_out |-> meta'.next_out, next_in |-> meta'.next_in,
               next_event |-> meta'.next_event,
               next_transmission |-> meta'.next_transmission]
  BY <1>1, <1>2
<1>4. MetaOK'
  <2>1. meta'.next_out \in Nat /\ meta'.next_event \in Nat
    BY <1>2 DEF MetaOK
  <2> QED
    BY <1>3, <2>1 DEF MetaOK
<1> QED
  BY <1>2, <1>4

\* A received message moves next_in and next_event of both sides.
LEMMA CommitExpectedKeeps ==
  ASSUME IInv, running, ~InFlight, NEW m, NEW buffer, NEW rest, IsLine(rest),
         CommitExpected(m, buffer, rest)
  PROVE  IInv'
<1>1. CASE Fatal
  BY <1>1, FatalKeeps
<1>2. CASE ~Fatal
  <2> DEFINE next == IF m.type = "4" THEN m.arg ELSE m.seq + 1
             c == [msg_seq_num |-> m.seq, wire |-> m, event_id |-> next_event,
                   event |-> "message", next_in_after |-> next]
  <2>1. /\ Journal!CommitInbound(c)
        /\ next_in' = next /\ next_event' = next_event + 1
        /\ UNCHANGED <<next_out, sent, originals>>
        /\ todo' = <<>> \/ todo' = Response(m) \o rest
    BY <1>2 DEF CommitExpected
  <2>2. IsLine(todo)'
    BY <2>1, NothingLater, ResponseLater, MoreLater
  <2>3. TodoOK' /\ ~InFlight'
    BY <2>2, LineOK
  <2>4. c.next_in_after = next
    OBVIOUS
  <2> HIDE DEF c, next
  <2>5. /\ UNCHANGED <<commands, outbound>>
        /\ meta' = [meta EXCEPT !.next_in = next, !.next_event = @ + 1]
    BY <2>1, <2>4 DEF Journal!CommitInbound
  <2>6. /\ MetaOK' /\ meta'.next_out = meta.next_out
        /\ meta'.next_event = meta.next_event + 1 /\ meta'.next_in = next
    BY <2>5, InboundMeta DEF IInv
  <2>7. next_event = meta.next_event /\ next_out = meta.next_out /\ meta.next_event \in Nat
    BY DEF IInv, Counted, MetaOK
  <2> QED
    BY <2>1, <2>3, <2>5, <2>6, <2>7, QuietKeeps
<1> QED
  BY <1>1, <1>2

\* Drain is for later, and so is a frame that was realigned to.
LEMMA DrainLater == IsLine(<<Drain>>)
<1>1. Later(Drain)
  BY DEF Later, Drain
<1> QED
  BY <1>1, OneLater

\* handle_inbound and what it leaves to do.
LEMMA ReceiveKeeps ==
  ASSUME IInv, NEW m, ReceiveFrame(m)
  PROVE  IInv'
<1>1. running /\ ~InFlight
  BY DEF ReceiveFrame, AtSelect, InFlight, Doing
<1>2. CASE ReceiveAhead(m)
  <2>1. CASE Fatal
    BY <2>1, FatalKeeps
  <2>2. CASE ~Fatal
    <3>1. Later(Send("2", next_in, "Recovering"))
      BY DEF Later, Send, AdminTypes
    <3>2. IsLine(todo)'
      BY <1>2, <2>2, <3>1, NothingLater, OneLater DEF ReceiveAhead
    <3> QED
      BY <1>1, <1>2, <2>2, <3>2, LineKeeps DEF ReceiveAhead, history
  <2> QED
    BY <2>1, <2>2
<1>3. CASE ReceiveDuplicate(m)
  <2>1. CASE Fatal
    BY <2>1, FatalKeeps
  <2>2. CASE ~Fatal
    <3>1. UNCHANGED vars /\ todo = <<>>
      BY <1>3, <2>2 DEF ReceiveDuplicate, ReceiveFrame, AtSelect
    <3>2. IsLine(todo)'
      BY <3>1, NothingLater DEF vars
    <3> QED
      BY <1>1, <3>1, <3>2, LineKeeps DEF vars, history
  <2> QED
    BY <2>1, <2>2
<1>4. CASE ReceiveBehind(m)
  <2>1. CASE Fatal
    BY <2>1, FatalKeeps
  <2>2. CASE ~Fatal
    <3>1. /\ Journal!ResyncInbound(m.seq, next_event, "sequence_resync")
          /\ next_in' = m.seq /\ next_event' = next_event + 1
          /\ todo' = <<Expected(m), Drain>>
          /\ UNCHANGED <<running, next_out, sent, originals>>
      BY <1>4, <2>2 DEF ReceiveBehind, history
    <3>2. Later(Expected(m)) /\ Later(Drain)
      BY DEF Later, Expected, Drain
    <3>3. IsLine(todo)'
      BY <3>1, <3>2, TwoLater
    <3>4. TodoOK' /\ ~InFlight'
      BY <3>3, LineOK
    <3>5. /\ UNCHANGED <<commands, outbound>>
          /\ meta' = [meta EXCEPT !.next_in = m.seq, !.next_event = @ + 1]
      BY <3>1 DEF Journal!ResyncInbound
    <3>6. /\ MetaOK' /\ meta'.next_out = meta.next_out
          /\ meta'.next_event = meta.next_event + 1 /\ meta'.next_in = m.seq
      BY <3>5, InboundMeta DEF IInv
    <3>7. next_event = meta.next_event /\ next_out = meta.next_out /\ meta.next_event \in Nat
      BY <1>1 DEF IInv, Counted, MetaOK
    <3> QED
      BY <3>1, <3>4, <3>5, <3>6, <3>7, QuietKeeps
  <2> QED
    BY <2>1, <2>2
<1>5. CASE ReceiveExpected(m)
  BY <1>1, <1>5, DrainLater, CommitExpectedKeeps DEF ReceiveExpected
<1> QED
  BY <1>2, <1>3, <1>4, <1>5 DEF ReceiveFrame

\* The step that commits the realignment of the inbound counter.
LEMMA ResyncedKeeps ==
  ASSUME IInv, CommitResynced
  PROVE  IInv'
<1>1. running /\ ~InFlight /\ IsLine(Tail(todo))
  BY RestLater DEF CommitResynced, InFlight, Doing, IInv
<1> QED
  BY <1>1, CommitExpectedKeeps DEF CommitResynced

\* The step that takes the next buffered message, or finds none that is due.
LEMMA DrainKeeps ==
  ASSUME IInv, DrainBuffer
  PROVE  IInv'
<1>1. running /\ ~InFlight /\ IsLine(Tail(todo))
  BY RestLater DEF DrainBuffer, InFlight, Doing, IInv
<1> DEFINE rest == [n \in {k \in DOMAIN gap_buffer : k > next_in} |-> gap_buffer[n]]
<1>2. CASE CommitExpected(gap_buffer[next_in], rest, <<Drain>>)
  BY <1>1, <1>2, DrainLater, CommitExpectedKeeps
<1>3. CASE ~CommitExpected(gap_buffer[next_in], rest, <<Drain>>)
  <2>1. /\ todo' = Tail(todo)
        /\ UNCHANGED <<journal, running, counters, sent, history>>
    BY <1>3 DEF DrainBuffer
  <2> QED
    BY <1>1, <2>1, LineKeeps DEF history
<1> QED
  BY <1>2, <1>3

-----------------------------------------------------------------------------
\* A Logout command, and the timer: what is to be sent is for later.
LEMMA LogoutKeeps ==
  ASSUME IInv, RequestLogout
  PROVE  IInv'
<1>1. Later(Send("5", 0, "LogoutSent"))
  BY DEF Later, Send, AdminTypes
<1>2. IsLine(todo)' /\ ~InFlight
  BY <1>1, OneLater DEF RequestLogout, AtSelect, InFlight, Doing
<1> QED
  BY <1>2, LineKeeps DEF RequestLogout, history

\* The timer sends a Heartbeat or a TestRequest later, or stops the actor.
LEMMA TickKeeps ==
  ASSUME IInv, NEW expired \in BOOLEAN, NEW silent \in BOOLEAN, Tick(expired, silent)
  PROVE  IInv'
<1>1. CASE Fatal
  BY <1>1, FatalKeeps
<1>2. CASE ~Fatal
  <2> DEFINE heartbeat == IF phase = "Established" THEN <<Send("0", 0, "None")>> ELSE <<>>
  <2>1. IsLine(heartbeat)
    <3>1. Later(Send("0", 0, "None"))
      BY DEF Later, Send, AdminTypes
    <3> QED
      BY <3>1, NothingLater, OneLater
  <2>2. Later(Send("5", 0, "Blocked")) /\ Later(Send("1", next_out + 1, "TestRequest"))
    BY DEF Later, Send, AdminTypes
  <2>3. /\ UNCHANGED <<journal, running, counters, sent, history>>
        /\ \/ todo' = Append(heartbeat, Send("5", 0, "Blocked"))
           \/ todo' = Append(heartbeat, Send("1", next_out + 1, "TestRequest"))
           \/ todo' = heartbeat
    BY <1>2 DEF Tick
  <2> HIDE DEF heartbeat
  <2>4. IsLine(todo)'
    BY <2>1, <2>2, <2>3, LastLater
  <2>5. ~InFlight
    BY DEF Tick, AtSelect, InFlight, Doing
  <2> QED
    BY <2>3, <2>4, <2>5, LineKeeps DEF history
<1> QED
  BY <1>1, <1>2

\* The mark of a replay is not about a command.
LEMMA ReplayMarkKeeps ==
  ASSUME IInv, MarkReplayWritten
  PROVE  IInv'
<1>1. /\ running /\ ~InFlight /\ todo' = Tail(todo) /\ IsLine(Tail(todo))
      /\ UNCHANGED <<meta, commands, outbound, running, counters, sent, originals>>
  BY RestLater DEF MarkReplayWritten, Journal!MarkTransmissionWritten, InFlight, Doing,
     history, IInv
<1>2. TodoOK' /\ ~InFlight'
  BY <1>1, LineOK
<1> QED
  BY <1>1, <1>2, QuietKeeps DEF counters, IInv, MetaOK, Counted

-----------------------------------------------------------------------------
\* A new actor starts with the counters of the journal, and an empty wire.
LEMMA ConnectKeeps ==
  ASSUME IInv, Connect
  PROVE  IInv'
<1>1. PICK reset \in ResetOnLogon :
        todo' = (IF reset THEN <<Reset>> ELSE <<>>) \o <<Send("A", HeartBtInt, "LogonSent")>>
  BY DEF Connect
<1>2. Later(Send("A", HeartBtInt, "LogonSent"))
  BY DEF Later, Send, AdminTypes
<1>3. IsLine(<<Send("A", HeartBtInt, "LogonSent")>>)
  BY <1>2, OneLater
<1>4. TodoOK' /\ ~InFlight'
  <2>1. CASE reset
    <3>1. /\ todo' # <<>> /\ Head(todo') = Reset
          /\ Tail(todo') = <<Send("A", HeartBtInt, "LogonSent")>>
      BY <1>1, <1>3, <2>1, LineFront
    <3>2. Reset.do = "reset" /\ sent' = <<>> /\ TRUE \in ResetOnLogon
      BY <2>1, SessionConstants DEF Reset, Connect
    <3>3. TodoOK'
      BY <1>3, <3>1, <3>2 DEF TodoOK, HeadOK
    <3>4. ~InFlight'
      BY <3>1, <3>2 DEF InFlight, Doing
    <3> QED
      BY <3>3, <3>4
  <2>2. CASE ~reset
    <3>1. IsLine(todo)'
      BY <1>1, <1>3, <2>2, NothingLater, MoreLater
    <3> QED
      BY <3>1, LineOK
  <2> QED
    BY <2>1, <2>2
<1> QED
  BY <1>4, QuietKeeps DEF Connect, journal, IInv, MetaOK

\* A reset empties the outbound table under an empty wire, and the event it
\* takes keeps the old keys behind the counters.
LEMMA ResetKeeps ==
  ASSUME IInv, ResetJournal
  PROVE  IInv'
<1> USE DEF IInv
<1>1. /\ running /\ sent = <<>> /\ IsLine(Tail(todo)) /\ TRUE \in ResetOnLogon
      /\ todo' = Tail(todo) /\ next_out' = 1 /\ next_in' = 1
      /\ next_event' = meta.next_event + 1
      /\ UNCHANGED <<running, sent, originals, commands>>
      /\ outbound' = Journal!NoRows
      /\ meta' = [next_out |-> 1, next_in |-> 1, next_transmission |-> 1,
                  next_event |-> meta.next_event + 1]
  BY RestLater DEF ResetJournal, Doing, HeadOK, Later, Journal!ResetSequences, history
<1>2. TodoOK' /\ ~InFlight'
  BY <1>1, LineOK
<1>3. MetaOK'
  BY <1>1 DEF MetaOK
<1>4. RowsOK'
  BY <1>1 DEF RowsOK, Journal!NoRows
<1>5. CommandsOK' /\ CopiesOK' /\ NumbersBehind'
  BY <1>1 DEF CommandsOK, CommandOK, CopiesOK, NumbersBehind
<1>6. Counted'
  BY <1>1, <1>2 DEF Counted
<1>7. AdminKeysFresh'
  BY <1>1 DEF AdminKeysFresh, AdminKeys, MetaOK
<1>8. SentOK' /\ WireJournaled'
  BY <1>1 DEF SentOK, WireJournaled
<1> QED
  BY <1>2, <1>3, <1>4, <1>5, <1>6, <1>7, <1>8

-----------------------------------------------------------------------------
\* A frame as it is first sent, and what a replay makes of it and back.
LEMMA FlaggedFrame ==
  ASSUME NEW type, NEW n, NEW arg, NEW was, NEW flag
  PROVE  Flagged([type |-> type, seq |-> n, possdup |-> was, arg |-> arg, end |-> 0], flag)
           = [type |-> type, seq |-> n, possdup |-> flag, arg |-> arg, end |-> 0]
  BY DEF Flagged

\* A frame that is not a repetition is as it was first sent.
LEMMA FirstSent ==
  ASSUME NEW f, NEW type, NEW n, NEW arg, f = Frame(type, n, arg)
  PROVE  /\ f.type = type /\ f.seq = n /\ f.arg = arg /\ f.possdup = FALSE
         /\ AsFirstSent(f) = f
         /\ Repeated(f).possdup = TRUE
         /\ AsFirstSent(Repeated(f)) = f
<1> DEFINE g(flag) == [type |-> type, seq |-> n, possdup |-> flag, arg |-> arg, end |-> 0]
<1>1. \A was, flag : Flagged(g(was), flag) = g(flag)
  BY FlaggedFrame
<1>2. f = g(FALSE)
  BY DEF Frame
<1>3. \A flag : g(flag).possdup = flag /\ g(flag).seq = n /\ g(flag).type = type /\ g(flag).arg = arg
  OBVIOUS
<1> HIDE DEF g
<1>4. AsFirstSent(f) = f /\ Repeated(f) = g(TRUE)
  BY <1>1, <1>2, Zenon DEF AsFirstSent, Repeated
<1>5. AsFirstSent(Repeated(f)) = f
  BY <1>1, <1>2, <1>4, Zenon DEF AsFirstSent
<1> QED
  BY <1>2, <1>3, <1>4, <1>5

\* A repetition keeps number, type and argument.
LEMMA RepeatedKeeps ==
  ASSUME NEW f, NEW type, NEW n, NEW arg, f = Frame(type, n, arg)
  PROVE  Repeated(f).seq = n /\ Repeated(f).type = type /\ Repeated(f).arg = arg
<1> DEFINE g(flag) == [type |-> type, seq |-> n, possdup |-> flag, arg |-> arg, end |-> 0]
<1>1. \A was, flag : Flagged(g(was), flag) = g(flag)
  BY FlaggedFrame
<1>2. f = g(FALSE)
  BY DEF Frame
<1>3. \A flag : g(flag).seq = n /\ g(flag).type = type /\ g(flag).arg = arg
  OBVIOUS
<1> HIDE DEF g
<1>4. Repeated(f) = g(TRUE)
  BY <1>1, <1>2, Zenon DEF Repeated
<1> QED
  BY <1>3, <1>4

\* What a send commits: a session message under a key of its own, or an order
\* under its request id.
SendsAs(c, key, type, arg) ==
  /\ c.request_id = key /\ c.msg_seq_num = next_out
  /\ c.wire = Frame(type, next_out, arg)
  /\ \/ type \in AdminTypes /\ key = <<type, next_out, next_event>>
     \/ type = "D" /\ arg = key /\ key \in Requests

\* The tables of a journal that any actor may write.
TablesOK == MetaOK /\ RowsOK /\ CommandsOK

\* A commit adds one row at the counter and one command, and moves the counter.
LEMMA CommittedRow ==
  ASSUME TablesOK, NEW c, NEW key, NEW type, NEW arg, SendsAs(c, key, type, arg),
         Journal!CommitOutbound(c)
  PROVE  /\ TablesOK'
         /\ next_out = meta.next_out /\ next_out \in Nat
         /\ meta'.next_out = next_out + 1
         /\ meta'.next_in = meta.next_in /\ meta'.next_event = meta.next_event
         /\ next_out \notin DOMAIN outbound
         /\ DOMAIN outbound' = DOMAIN outbound \cup {next_out}
         /\ outbound'[next_out].wire = c.wire
         /\ \A n \in DOMAIN outbound : outbound'[n] = outbound[n]
         /\ key \notin DOMAIN commands
         /\ DOMAIN commands' = DOMAIN commands \cup {key}
         /\ commands'[key] = Journal!NewCommand(c)
         /\ \A k \in DOMAIN commands : commands'[k] = commands[k]
<1> USE DEF TablesOK
<1> DEFINE row == [command |-> Journal!NewCommand(c), wire |-> c.wire]
<1>1. next_out = meta.next_out /\ next_out \in Nat
  BY DEF Journal!CommitOutbound, SendsAs, MetaOK
<1>2. /\ key \notin DOMAIN commands
      /\ commands' = [k \in DOMAIN commands \cup {key} |->
                        IF k = key THEN Journal!NewCommand(c) ELSE commands[k]]
      /\ outbound' = [n \in DOMAIN outbound \cup {next_out} |->
                        IF n = next_out THEN row ELSE outbound[n]]
      /\ meta' = [meta EXCEPT !.next_out = @ + 1]
  BY DEF Journal!CommitOutbound, Journal!Inserted, SendsAs
<1>3. /\ meta'.next_out = next_out + 1 /\ meta'.next_event = meta.next_event
      /\ meta'.next_in = meta.next_in
      /\ MetaOK'
  <2>1. meta' = [next_out |-> meta.next_out + 1, next_in |-> meta.next_in,
                 next_event |-> meta.next_event,
                 next_transmission |-> meta.next_transmission]
    BY <1>2 DEF MetaOK
  <2>2. /\ meta'.next_out = next_out + 1 /\ meta'.next_event = meta.next_event
        /\ meta'.next_in = meta.next_in /\ meta'.next_transmission = meta.next_transmission
    BY <1>1, <2>1
  <2>3. meta' = [next_out |-> meta'.next_out, next_in |-> meta'.next_in,
                 next_event |-> meta'.next_event,
                 next_transmission |-> meta'.next_transmission]
    BY <2>1, <2>2
  <2> QED
    BY <1>1, <2>2, <2>3 DEF MetaOK
\* The row, and those there were.
<1>4. /\ next_out \notin DOMAIN outbound /\ next_out \in DOMAIN outbound'
      /\ outbound'[next_out].wire = c.wire
      /\ outbound'[next_out] = [command |-> outbound'[next_out].command, wire |-> c.wire]
      /\ \A n \in DOMAIN outbound : n \in DOMAIN outbound' /\ outbound'[n] = outbound[n]
      /\ DOMAIN outbound' = DOMAIN outbound \cup {next_out}
  BY <1>1, <1>2 DEF RowsOK, RowOK
<1>5. RowsOK'
  <2>1. outbound' = [n \in DOMAIN outbound' |-> outbound'[n]]
    BY <1>2
  <2>2. ASSUME NEW n \in DOMAIN outbound PROVE RowOK(n)'
    <3>1. RowOK(n)
      BY DEF RowsOK
    <3> QED
      BY <1>1, <1>3, <1>4, <3>1 DEF RowOK
  <2>3. ASSUME NEW n, n = next_out PROVE RowOK(n)'
    <3>1. c.wire = Frame(c.wire.type, n, c.wire.arg)
      BY <2>3 DEF SendsAs, Frame
    <3> QED
      BY <1>1, <1>3, <1>4, <2>3, <3>1 DEF RowOK
  <2> QED
    BY <1>4, <2>1, <2>2, <2>3 DEF RowsOK
\* The command, and those there were.
<1>6. /\ \A k \in DOMAIN commands : k \in DOMAIN commands' /\ commands'[k] = commands[k]
      /\ DOMAIN commands' = DOMAIN commands \cup {key}
      /\ commands'[key] = Journal!NewCommand(c)
  BY <1>2
<1>7. CommandsOK'
  <2>1. commands' = [k \in DOMAIN commands' |-> commands'[k]]
    BY <1>2
  <2>2. ASSUME NEW k \in DOMAIN commands PROVE CommandOK(k)'
    BY <1>6 DEF CommandsOK, CommandOK
  <2>3. CommandOK(key)'
    BY <1>6 DEF CommandOK, Journal!NewCommand
  <2> QED
    BY <1>6, <2>1, <2>2, <2>3 DEF CommandsOK
<1> QED
  BY <1>1, <1>2, <1>3, <1>4, <1>5, <1>6, <1>7

\* What the actor has to write is as it was first sent.
LEMMA SendsFrame ==
  ASSUME NEW c, NEW key, NEW type, NEW arg, SendsAs(c, key, type, arg)
  PROVE  /\ c.wire.seq = next_out /\ c.wire.type = type /\ c.wire.arg = arg
         /\ c.wire.possdup = FALSE /\ AsFirstSent(c.wire) = c.wire
<1>1. c.wire = Frame(type, next_out, arg)
  BY DEF SendsAs
<1>2. AsFirstSent(c.wire) = c.wire
  BY <1>1, FirstSent
<1>3. c.wire.possdup = FALSE
  BY <1>1, FirstSent
<1>4. c.wire.seq = next_out /\ c.wire.type = type /\ c.wire.arg = arg
  BY <1>1 DEF Frame
<1> QED
  BY <1>2, <1>3, <1>4

\* A commit puts one row at the counter and has it written next.
LEMMA CommitKeeps ==
  ASSUME IInv, running, ~InFlight, NEW c, NEW then, NEW key, NEW type, NEW arg,
         SendsAs(c, key, type, arg),
         Journal!CommitOutbound(c), WriteCommitted(c, next_out, then)
  PROVE  IInv'
<1> USE DEF IInv
<1> DEFINE job == Write(c.wire, key, next_out, then)
           line == IF todo = <<>> THEN <<>> ELSE Tail(todo)
<1>1. /\ next_out = meta.next_out /\ next_in = meta.next_in /\ next_event = meta.next_event
      /\ next_out \in Nat /\ next_event \in Nat
  BY DEF Counted, MetaOK
<1>2. /\ todo' = <<job>> \o line
      /\ UNCHANGED <<running, next_out, next_in, next_event, sent, originals>>
  BY DEF WriteCommitted, SendsAs, counters, history
<1>3. /\ TablesOK'
      /\ meta'.next_out = next_out + 1
      /\ meta'.next_in = meta.next_in /\ meta'.next_event = meta.next_event
      /\ next_out \in DOMAIN outbound' /\ outbound'[next_out].wire = c.wire
      /\ \A n \in DOMAIN outbound : n \in DOMAIN outbound' /\ outbound'[n] = outbound[n]
      /\ key \notin DOMAIN commands
      /\ DOMAIN commands' = DOMAIN commands \cup {key}
      /\ commands'[key] = Journal!NewCommand(c)
      /\ \A k \in DOMAIN commands : k \in DOMAIN commands' /\ commands'[k] = commands[k]
  BY CommittedRow DEF TablesOK
<1>4. commands'[key].phase = "Journaled" /\ commands'[key].msg_seq_num = next_out
  BY <1>3 DEF Journal!NewCommand, SendsAs
<1>5. CopiesOK'
  BY <1>2, <1>3 DEF CopiesOK
\* The frame is the next thing to do.
<1>6. IsLine(line)
  BY NothingLater, RestLater
<1>7. todo' # <<>> /\ Head(todo') = job /\ Tail(todo') = line
  BY <1>2, <1>6, LineFront
<1>8. /\ Head(todo').do = "write" /\ Head(todo').frame = c.wire
      /\ Head(todo').key = key /\ Head(todo').seq = next_out
  BY <1>7 DEF Write
<1>9. /\ c.wire.seq = next_out /\ c.wire.type = type /\ c.wire.arg = arg
      /\ c.wire.possdup = FALSE /\ AsFirstSent(c.wire) = c.wire
  BY SendsFrame
<1> HIDE DEF job, line
<1>10. InJournal(c.wire)'
  BY <1>3, <1>9 DEF InJournal
<1>11. type \in AdminTypes => key \in AdminKeys
  BY <1>1, AgentKeysDisjoint DEF SendsAs, AdminKeys, AdminTypes
<1>12. type # "D" => key \in AdminKeys
  BY <1>11 DEF SendsAs
<1>13. type = "D" => arg = key /\ key \in Requests
  BY DEF SendsAs, AdminTypes
<1>14. type = "D" => originals'[key] = 0
  BY <1>2, <1>3, <1>13 DEF CopiesOK
<1>15. WriteOK(Head(todo))'
  BY <1>2, <1>3, <1>4, <1>8, <1>9, <1>10, <1>12, <1>13, <1>14 DEF WriteOK
<1>16. TodoOK'
  BY <1>6, <1>7, <1>8, <1>15 DEF TodoOK, HeadOK
<1>17. Counted'
  BY <1>1, <1>2, <1>3, <1>7, <1>8 DEF Counted, InFlight, Doing
<1>18. AdminKeysFresh'
  <2> SUFFICES ASSUME NEW k \in AdminKeys, k \in DOMAIN commands'
               PROVE  \/ k[3] < meta'.next_event
                      \/ k[3] = meta'.next_event /\ k[2] < meta'.next_out
    BY DEF AdminKeysFresh
  <2>1. CASE k \in DOMAIN commands
    BY <1>1, <1>3, <2>1 DEF AdminKeysFresh, AdminKeys
  <2>2. CASE k = key
    BY <1>1, <1>3, <2>2, AgentKeysDisjoint DEF SendsAs
  <2> QED
    BY <1>3, <2>1, <2>2
<1>19. SentOK' /\ WireJournaled'
  BY <1>2, <1>3 DEF SentOK, WireJournaled
<1>20. NumbersBehind'
  BY <1>1, <1>3, <1>4 DEF NumbersBehind
<1> QED
  BY <1>3, <1>5, <1>16, <1>17, <1>18, <1>19, <1>20 DEF TablesOK

\* No key of a session message is in use.
LEMMA NewAdminKey ==
  ASSUME IInv, CommitAdmin
  PROVE  /\ Head(todo).type \in AdminTypes
         /\ <<Head(todo).type, next_out, next_event>> \notin DOMAIN commands
<1> DEFINE job == Head(todo)
           key == <<job.type, next_out, next_event>>
<1>1. running /\ todo # <<>> /\ job.do = "commit" /\ ~InFlight
  BY DEF CommitAdmin, Doing, InFlight
<1>2. job.type \in AdminTypes
  BY <1>1, RestLater DEF IInv, HeadOK, Later
<1>3. /\ next_out = meta.next_out /\ next_event = meta.next_event
      /\ next_out \in Nat /\ next_event \in Nat
  BY <1>1 DEF IInv, Counted, MetaOK
<1>4. key \in AdminKeys /\ key[2] = next_out /\ key[3] = next_event
  BY <1>2, <1>3 DEF AdminKeys
<1> HIDE DEF key
<1>5. key \notin DOMAIN commands
  BY <1>3, <1>4 DEF IInv, AdminKeysFresh
<1> QED
  BY <1>2, <1>5 DEF key

\* So no session message is a retry.
LEMMA CommitAdminKeeps ==
  ASSUME IInv, CommitAdmin
  PROVE  IInv'
<1> DEFINE job == Head(todo)
           c == AdminCommit(job)
           key == <<job.type, next_out, next_event>>
<1>1. running /\ todo # <<>> /\ job.do = "commit" /\ ~InFlight
  BY DEF CommitAdmin, Doing, InFlight
<1>2. job.type \in AdminTypes /\ key \notin DOMAIN commands
  BY NewAdminKey
<1>3. SendsAs(c, key, job.type, job.arg)
  BY <1>2 DEF SendsAs, AdminCommit
<1>4. c.request_id = key
  BY DEF AdminCommit
<1>5. CASE Fatal
  BY <1>5, FatalKeeps
<1>6. CASE ~Fatal
  <2>1. Journal!CommitOutbound(c) /\ WriteCommitted(c, next_out, job.then)
    BY <1>2, <1>4, <1>6 DEF CommitAdmin, IsRetry
  <2> HIDE DEF c, key
  <2> QED
    BY <1>1, <1>3, <2>1, CommitKeeps
<1> QED
  BY <1>5, <1>6

\* A retry that reaches the session has an older number, and is answered from
\* the journal.
LEMMA RetryAnswered ==
  ASSUME Gated, IInv, NEW r \in Requests, NEW f \in Fingerprints, Submit(r, f),
         r \in DOMAIN commands
  PROVE  UNCHANGED vars \/ Fatal
<1>1. running /\ ~InFlight /\ TRUE \notin ResetOnLogon
  BY DEF Submit, AtSelect, InFlight, Doing, Gated
<1>2. /\ commands[r].msg_seq_num \in Nat /\ commands[r].msg_seq_num < next_out
      /\ next_out \in Nat
  BY <1>1 DEF IInv, NumbersBehind, Counted, MetaOK
<1>3. OrderCommit(r, f).request_id = r
  BY DEF OrderCommit
<1> QED
  BY <1>2, <1>3 DEF Submit, Journal!CommitOutbound

\* A submit commits, is refused, or is a retry that changes nothing.
LEMMA SubmitKeeps ==
  ASSUME Gated, IInv, NEW r \in Requests, NEW f \in Fingerprints, Submit(r, f)
  PROVE  IInv'
<1> DEFINE c == OrderCommit(r, f)
<1>1. running /\ ~InFlight
  BY DEF Submit, AtSelect, InFlight, Doing
<1>2. SendsAs(c, r, "D", r) /\ c.request_id = r
  BY DEF SendsAs, OrderCommit
<1>3. CASE UNCHANGED vars \/ Fatal
  BY <1>3, FatalKeeps, StutterKeeps
<1>4. CASE r \notin DOMAIN commands /\ ~Fatal
  <2>1. Journal!CommitOutbound(c) /\ WriteCommitted(c, next_out, "None")
    BY <1>2, <1>4 DEF Submit, IsRetry
  <2> HIDE DEF c
  <2> QED
    BY <1>1, <1>2, <2>1, CommitKeeps
<1> QED
  BY <1>3, <1>4, RetryAnswered

-----------------------------------------------------------------------------
\* One more frame on the wire.
LEMMA WireGrows ==
  ASSUME SentOK, WireJournaled, NEW frame, sent' = Append(sent, frame), UNCHANGED outbound,
         ~frame.possdup \/ frame.type = "D" => InJournal(frame)
  PROVE  SentOK' /\ WireJournaled'
<1>1. PICK S : sent \in Seq(S)
  BY DEF SentOK
<1> DEFINE R == S \cup {frame}
<1>2. S \subseteq R /\ frame \in R
  OBVIOUS
<1> HIDE DEF R
<1>3. sent \in Seq(R)
  BY <1>1, <1>2, WiderLine
<1>4. sent' \in Seq(R)
  BY <1>2, <1>3
<1>5. SentOK'
  BY <1>4 DEF SentOK
<1>6. \A i \in DOMAIN sent' : (i \in DOMAIN sent /\ sent'[i] = sent[i]) \/ sent'[i] = frame
  BY <1>2, <1>3
<1>7. WireJournaled'
  <2> SUFFICES ASSUME NEW i \in DOMAIN sent', ~sent'[i].possdup \/ sent'[i].type = "D"
               PROVE  /\ sent'[i].seq \in DOMAIN outbound
                      /\ outbound[sent'[i].seq].wire = AsFirstSent(sent'[i])
    BY DEF WireJournaled
  <2>1. CASE i \in DOMAIN sent /\ sent'[i] = sent[i]
    BY <2>1 DEF WireJournaled
  <2>2. CASE sent'[i] = frame
    BY <2>2 DEF InJournal
  <2> QED
    BY <1>6, <2>1, <2>2
<1> QED
  BY <1>5, <1>7

\* An order counts as sent with its write.
LEMMA OneMoreCopy ==
  ASSUME CopiesOK, NEW r \in Requests, r \in DOMAIN commands, originals[r] = 0,
         originals' = [originals EXCEPT ![r] = @ + 1], UNCHANGED commands
  PROVE  CopiesOK' /\ originals'[r] = 1
  BY DEF CopiesOK

\* The write of a new frame: it is on the wire, and to be marked next.
LEMMA WriteKeeps ==
  ASSUME IInv, WriteWire
  PROVE  IInv'
<1> USE DEF IInv
<1> DEFINE job == Head(todo)
<1>1. /\ running /\ todo # <<>> /\ job.do = "write"
      /\ sent' = Append(sent, job.frame)
      /\ todo' = <<Mark(job.key, job.seq, job.then)>> \o Tail(todo)
      /\ UNCHANGED <<meta, commands, outbound, running, next_out, next_in, next_event>>
  BY DEF WriteWire, Doing, journal, counters
<1>2. WriteOK(job) /\ IsLine(Tail(todo))
  BY <1>1, RestLater DEF HeadOK, Later
<1>3. SentOK' /\ WireJournaled'
  BY <1>1, <1>2, WireGrows DEF WriteOK
<1>4. /\ CopiesOK'
      /\ job.key \in Requests =>
           job.key \in DOMAIN commands /\ commands[job.key].phase = "Journaled" /\ originals'[job.key] = 1
  <2>1. CASE job.frame.type = "D"
    <3>1. originals' = [originals EXCEPT ![job.key] = @ + 1]
      BY <1>2, <2>1 DEF WriteWire, WriteOK
    <3> QED
      BY <1>1, <1>2, <2>1, <3>1, OneMoreCopy DEF WriteOK
  <2>2. CASE job.frame.type # "D"
    <3>1. originals' = originals /\ job.key \in AdminKeys
      BY <1>2, <2>2 DEF WriteWire, WriteOK
    <3> QED
      BY <1>1, <3>1, AgentKeysDisjoint DEF CopiesOK
  <2> QED
    BY <2>1, <2>2
<1>5. /\ todo' # <<>> /\ Head(todo') = Mark(job.key, job.seq, job.then)
      /\ Tail(todo') = Tail(todo)
  BY <1>1, <1>2, LineFront
<1>6. Head(todo').do = "mark" /\ Head(todo').key = job.key /\ Head(todo').seq = job.seq
  BY <1>5 DEF Mark
<1>7. MarkOK(Head(todo))'
  <2>1. job.key \in Requests \cup AdminKeys /\ job.seq = next_out
    BY <1>2 DEF WriteOK
  <2> HIDE DEF job
  <2> QED
    BY <1>1, <1>4, <1>6, <2>1 DEF MarkOK
<1>8. TodoOK'
  BY <1>2, <1>5, <1>6, <1>7 DEF TodoOK, HeadOK
<1>9. Counted'
  BY <1>1, <1>5, <1>6 DEF Counted, InFlight, Doing
<1>10. MetaOK' /\ RowsOK' /\ CommandsOK' /\ AdminKeysFresh' /\ NumbersBehind'
  BY <1>1 DEF MetaOK, RowsOK, RowOK, CommandsOK, CommandOK, AdminKeysFresh, NumbersBehind
<1> QED
  BY <1>3, <1>4, <1>8, <1>9, <1>10

\* A mark changes the phase of one command, and no wire.
LEMMA MarkedRow ==
  ASSUME TablesOK, NEW key, NEW seq, Journal!MarkOutboundWritten(key, seq)
  PROVE  /\ TablesOK' /\ UNCHANGED meta
         /\ key \in DOMAIN commands /\ DOMAIN commands' = DOMAIN commands
         /\ commands'[key].phase = "Written"
         /\ \A k \in DOMAIN commands : commands'[k].msg_seq_num = commands[k].msg_seq_num
         /\ \A k \in DOMAIN commands : k # key => commands'[k] = commands[k]
         /\ DOMAIN outbound' = DOMAIN outbound
         /\ \A n \in DOMAIN outbound : outbound'[n].wire = outbound[n].wire
<1> USE DEF TablesOK
<1> DEFINE written == [commands[key] EXCEPT !.phase = "Written"]
<1>1. /\ key \in DOMAIN commands /\ seq \in DOMAIN outbound
      /\ commands' = [commands EXCEPT ![key] = written]
      /\ outbound' = [outbound EXCEPT ![seq].command = written]
      /\ UNCHANGED meta
  BY DEF Journal!MarkOutboundWritten
<1>2. written = [request_id |-> commands[key].request_id,
                 fingerprint |-> commands[key].fingerprint,
                 cl_ord_id |-> commands[key].cl_ord_id,
                 msg_seq_num |-> commands[key].msg_seq_num,
                 phase |-> "Written"]
  BY <1>1 DEF CommandsOK, CommandOK
<1>3. /\ DOMAIN commands' = DOMAIN commands /\ commands'[key] = written
      /\ \A k \in DOMAIN commands : k # key => commands'[k] = commands[k]
      /\ commands' = [k \in DOMAIN commands' |-> commands'[k]]
  BY <1>1 DEF CommandsOK
<1>4. /\ DOMAIN outbound' = DOMAIN outbound
      /\ outbound'[seq] = [outbound[seq] EXCEPT !.command = written]
      /\ \A n \in DOMAIN outbound : n # seq => outbound'[n] = outbound[n]
      /\ outbound' = [n \in DOMAIN outbound' |-> outbound'[n]]
  BY <1>1 DEF RowsOK
<1> HIDE DEF written
<1>5. outbound'[seq] = [command |-> written, wire |-> outbound[seq].wire]
  BY <1>1, <1>4 DEF RowsOK, RowOK
<1>6. \A n \in DOMAIN outbound : outbound'[n].wire = outbound[n].wire
  BY <1>4, <1>5
<1>7. CommandsOK'
  <2>1. ASSUME NEW k \in DOMAIN commands', k # key PROVE CommandOK(k)'
    BY <1>3, <2>1 DEF CommandsOK, CommandOK
  <2>2. ASSUME NEW k \in DOMAIN commands', k = key PROVE CommandOK(k)'
    <3>1. commands'[k] = written
      BY <1>3, <2>2
    <3> QED
      BY <1>2, <3>1 DEF CommandOK
  <2> QED
    BY <1>3, <2>1, <2>2 DEF CommandsOK
<1>8. RowsOK'
  <2>1. ASSUME NEW n \in DOMAIN outbound' PROVE RowOK(n)'
    <3>1. RowOK(n) /\ n \in DOMAIN outbound
      BY <1>4 DEF RowsOK
    <3>2. CASE n = seq
      BY <1>1, <1>5, <1>6, <3>1, <3>2 DEF RowOK
    <3>3. CASE n # seq
      BY <1>1, <1>4, <1>6, <3>1, <3>3 DEF RowOK
    <3> QED
      BY <3>2, <3>3
  <2> QED
    BY <1>4, <2>1 DEF RowsOK
<1>9. commands'[key].phase = "Written" /\ commands'[key].msg_seq_num = commands[key].msg_seq_num
  BY <1>2, <1>3
<1>10. MetaOK'
  BY <1>1 DEF MetaOK
<1> QED
  BY <1>1, <1>3, <1>4, <1>6, <1>7, <1>8, <1>9, <1>10

\* The mark: the journal's number is the actor's again.
LEMMA MarkKeeps ==
  ASSUME IInv, MarkWritten
  PROVE  IInv'
<1> USE DEF IInv
<1> DEFINE job == Head(todo)
<1>1. running /\ todo # <<>> /\ job.do = "mark"
  BY DEF MarkWritten, Doing
<1>2. MarkOK(job) /\ IsLine(Tail(todo))
  BY <1>1, RestLater DEF HeadOK, Later
<1>3. CASE Fatal
  BY <1>3, FatalKeeps
<1>4. CASE ~Fatal
  <2>1. /\ Journal!MarkOutboundWritten(job.key, job.seq)
        /\ next_out' = job.seq + 1
        /\ UNCHANGED <<next_in, next_event, sent, originals>>
        /\ todo' = <<>> \/ todo' = Tail(todo)
    BY <1>4 DEF MarkWritten, history
  <2>2. TodoOK' /\ ~InFlight'
    <3>1. IsLine(todo)'
      BY <1>2, <2>1, NothingLater
    <3> QED
      BY <3>1, LineOK
  <2> HIDE DEF job
  <2>3. /\ TablesOK' /\ UNCHANGED meta
        /\ job.key \in DOMAIN commands /\ DOMAIN commands' = DOMAIN commands
        /\ \A k \in DOMAIN commands : commands'[k].msg_seq_num = commands[k].msg_seq_num
        /\ DOMAIN outbound' = DOMAIN outbound
        /\ \A n \in DOMAIN outbound : outbound'[n].wire = outbound[n].wire
    BY <2>1, MarkedRow DEF TablesOK
  <2>4. Counted'
    <3>1. job.seq = next_out /\ meta.next_out = next_out + 1
          /\ next_in = meta.next_in /\ next_event = meta.next_event
      BY <1>1, <1>2 DEF MarkOK, Counted, InFlight, Doing, job
    <3> QED
      BY <2>1, <2>2, <2>3, <3>1 DEF Counted
  <2>5. CopiesOK' /\ AdminKeysFresh' /\ NumbersBehind'
    BY <2>1, <2>3 DEF CopiesOK, AdminKeysFresh, NumbersBehind
  <2>6. SentOK' /\ WireJournaled'
    BY <2>1, <2>3 DEF SentOK, WireJournaled
  <2> QED
    BY <2>2, <2>3, <2>4, <2>5, <2>6 DEF TablesOK
<1> QED
  BY <1>3, <1>4

-----------------------------------------------------------------------------
\* In front of two lines.
LEMMA LineFrontTwice ==
  ASSUME NEW job, NEW s, NEW t, IsLine(s), IsLine(t)
  PROVE  <<job>> \o s \o t = <<job>> \o (s \o t)
<1>1. PICK S : s \in Seq(S) /\ \A j \in S : Later(j)
  BY DEF IsLine
<1>2. PICK R : t \in Seq(R) /\ \A j \in R : Later(j)
  BY DEF IsLine
<1> DEFINE Q == S \cup R \cup {job}
<1>3. S \subseteq Q /\ R \subseteq Q /\ job \in Q
  OBVIOUS
<1> HIDE DEF Q
<1>4. s \in Seq(Q) /\ t \in Seq(Q) /\ <<job>> \in Seq(Q)
  BY <1>1, <1>2, <1>3, WiderLine
<1> QED
  BY <1>4

\* What a replay repeats is the order's own frame.
LEMMA ReplayFrameOK ==
  ASSUME RowsOK, NEW at, NEW end
  PROVE  LET frame == ReplayFrame(at, end)
         IN  frame.possdup = TRUE /\ (frame.type = "D" => InJournal(frame))
<1> DEFINE wire == outbound[at].wire
<1>1. CASE IsOrder(at)
  <2>1. at \in DOMAIN outbound /\ ReplayFrame(at, end) = Repeated(wire)
    BY <1>1 DEF IsOrder, ReplayFrame
  <2>2. wire = Frame(wire.type, at, wire.arg)
    BY <2>1 DEF RowsOK, RowOK
  <2> HIDE DEF wire
  <2>3. Repeated(wire).possdup = TRUE
    BY <2>2, FirstSent
  <2>4. Repeated(wire).seq = at
    BY <2>2, RepeatedKeeps
  <2>5. AsFirstSent(Repeated(wire)) = wire
    BY <2>2, FirstSent
  <2>6. InJournal(Repeated(wire))
    BY <2>1, <2>4, <2>5 DEF InJournal, wire
  <2> QED
    BY <2>1, <2>3, <2>6
<1>2. CASE ~IsOrder(at)
  <2> DEFINE fill == Frame("4", at, GapEnd(at, end))
  <2>1. ReplayFrame(at, end) = Repeated(fill)
    BY <1>2 DEF ReplayFrame
  <2>2. fill = Frame("4", at, GapEnd(at, end))
    OBVIOUS
  <2> HIDE DEF fill
  <2>3. Repeated(fill).possdup = TRUE
    BY <2>2, FirstSent
  <2>4. Repeated(fill).type = "4"
    BY <2>2, RepeatedKeeps
  <2> QED
    BY <2>1, <2>3, <2>4
<1> QED
  BY <1>1, <1>2

\* A frame of a replay is journaled as a transmission, and written next.
LEMMA JournalReplayKeeps ==
  ASSUME IInv, JournalReplay
  PROVE  IInv'
<1> DEFINE job == Head(todo)
           frame == ReplayFrame(job.at, job.end)
           next == ReplayEnd(job.at, job.end)
           first == WriteReplay(frame, meta.next_transmission)
           more == IF next <= job.end THEN <<Replay(next, job.end)>> ELSE <<>>
<1>1. /\ running /\ todo # <<>> /\ ~InFlight
      /\ todo' = <<first>> \o more \o Tail(todo)
      /\ meta' = [meta EXCEPT !.next_transmission = @ + 1]
      /\ UNCHANGED <<commands, outbound, running, counters, sent, originals>>
  BY DEF JournalReplay, Doing, InFlight, Journal!CommitTransmission, history
<1>2. IsLine(more) /\ IsLine(Tail(todo))
  <2>1. Later(Replay(next, job.end))
    BY DEF Later, Replay
  <2> HIDE DEF next, job
  <2> QED
    BY <1>1, <2>1, NothingLater, OneLater, RestLater DEF IInv
<1>3. /\ frame.possdup = TRUE
      /\ frame.type = "D" => InJournal(frame)
  BY ReplayFrameOK DEF IInv
<1>4. first.do = "write replay" /\ first.frame = frame
  BY DEF WriteReplay
<1> HIDE DEF first, more, frame, next
<1>5. todo' # <<>> /\ Head(todo') = first /\ Tail(todo') = more \o Tail(todo)
  <2>1. IsLine(more \o Tail(todo))
    BY <1>2, MoreLater
  <2>2. todo' = <<first>> \o (more \o Tail(todo))
    BY <1>1, <1>2, LineFrontTwice
  <2> QED
    BY <2>1, <2>2, LineFront
<1>6. IsLine(Tail(todo'))
  BY <1>2, <1>5, MoreLater
<1>7. Head(todo').do = "write replay" /\ Head(todo').frame = frame
  BY <1>4, <1>5
<1>8. ReplayOK(Head(todo))'
  BY <1>1, <1>3, <1>7 DEF ReplayOK, InJournal
<1>9. TodoOK' /\ ~InFlight'
  BY <1>6, <1>7, <1>8 DEF TodoOK, HeadOK, InFlight, Doing
<1>10. /\ MetaOK' /\ meta'.next_out = meta.next_out /\ meta'.next_in = meta.next_in
       /\ meta'.next_event = meta.next_event
  <2>1. meta' = [next_out |-> meta.next_out, next_in |-> meta.next_in,
                 next_event |-> meta.next_event,
                 next_transmission |-> meta.next_transmission + 1]
    BY <1>1 DEF IInv, MetaOK
  <2>2. /\ meta'.next_out = meta.next_out /\ meta'.next_in = meta.next_in
        /\ meta'.next_event = meta.next_event
        /\ meta'.next_transmission = meta.next_transmission + 1
    BY <2>1
  <2>3. meta' = [next_out |-> meta'.next_out, next_in |-> meta'.next_in,
                 next_event |-> meta'.next_event,
                 next_transmission |-> meta'.next_transmission]
    BY <2>1, <2>2
  <2> QED
    BY <2>2, <2>3 DEF IInv, MetaOK
<1>11. /\ next_in = meta.next_in /\ next_event = meta.next_event
       /\ next_out = meta.next_out /\ meta.next_event \in Nat
  BY <1>1 DEF IInv, Counted, MetaOK
<1> QED
  BY <1>1, <1>9, <1>10, <1>11, QuietKeeps DEF counters

\* The write of a repetition: it is the journal's frame, and its mark is next.
LEMMA WriteReplayKeeps ==
  ASSUME IInv, WriteReplayWire
  PROVE  IInv'
<1> USE DEF IInv
<1> DEFINE job == Head(todo)
<1>1. /\ running /\ todo # <<>> /\ job.do = "write replay" /\ ~InFlight
      /\ sent' = Append(sent, job.frame)
      /\ todo' = <<MarkReplay(job.id)>> \o Tail(todo)
      /\ UNCHANGED <<meta, commands, outbound, running, next_out, next_in, next_event,
                     originals>>
  BY DEF WriteReplayWire, Doing, InFlight, journal, counters, history
<1>2. ReplayOK(job) /\ IsLine(Tail(todo))
  BY <1>1, RestLater DEF HeadOK, Later
<1>3. SentOK' /\ WireJournaled'
  BY <1>1, <1>2, WireGrows DEF ReplayOK
<1>4. /\ todo' # <<>> /\ Head(todo') = MarkReplay(job.id) /\ Tail(todo') = Tail(todo)
  BY <1>1, <1>2, LineFront
<1>5. Head(todo').do = "mark replay"
  <2>1. MarkReplay(job.id).do = "mark replay"
    BY DEF MarkReplay
  <2> QED
    BY <1>4, <2>1
<1>6. TodoOK' /\ ~InFlight'
  BY <1>2, <1>4, <1>5 DEF TodoOK, HeadOK, InFlight, Doing
<1>7. Counted'
  BY <1>1, <1>6 DEF Counted
<1>8. /\ MetaOK' /\ RowsOK' /\ CommandsOK' /\ NumbersBehind'
      /\ AdminKeysFresh' /\ CopiesOK'
  BY <1>1 DEF MetaOK, RowsOK, RowOK, CommandsOK, CommandOK, NumbersBehind, AdminKeysFresh,
     CopiesOK
<1> QED
  BY <1>3, <1>6, <1>7, <1>8

\* A failed await stops the actor; a failed write may have been one.
LEMMA AwaitKeeps ==
  ASSUME IInv, AwaitFails
  PROVE  IInv'
<1> USE DEF IInv
<1> DEFINE job == Head(todo)
<1>1. CASE UNCHANGED <<sent, originals>>
  BY <1>1, StopKeeps DEF AwaitFails
<1>2. CASE ~UNCHANGED <<sent, originals>>
  <2>1. /\ job.do \in {"write", "write replay"}
        /\ sent' = Append(sent, job.frame)
        /\ originals' = IF job.frame.type = "D" /\ ~job.frame.possdup
                        THEN [originals EXCEPT ![job.frame.arg] = @ + 1]
                        ELSE originals
        /\ todo # <<>> /\ todo' = <<>> /\ ~running'
        /\ UNCHANGED <<meta, commands, outbound, next_out, next_in, next_event>>
    BY <1>2 DEF AwaitFails, Stop, journal, counters
  <2>2. /\ job.do = "write" => WriteOK(job)
        /\ job.do = "write replay" => ReplayOK(job)
    BY <2>1, RestLater DEF HeadOK, Later
  <2>3. SentOK' /\ WireJournaled'
    BY <2>1, <2>2, WireGrows DEF WriteOK, ReplayOK
  <2>4. CopiesOK'
    <3>1. CASE job.frame.type = "D" /\ ~job.frame.possdup
      <4>1. WriteOK(job)
        BY <2>1, <2>2, <3>1 DEF ReplayOK
      <4>2. originals' = [originals EXCEPT ![job.key] = @ + 1]
        BY <2>1, <3>1, <4>1 DEF WriteOK
      <4> QED
        BY <2>1, <3>1, <4>1, <4>2, OneMoreCopy DEF WriteOK
    <3>2. CASE ~(job.frame.type = "D" /\ ~job.frame.possdup)
      BY <2>1, <3>2 DEF CopiesOK
    <3> QED
      BY <3>1, <3>2
  <2>5. TodoOK' /\ Counted'
    BY <2>1 DEF TodoOK, Counted
  <2>6. MetaOK' /\ RowsOK' /\ CommandsOK' /\ AdminKeysFresh' /\ NumbersBehind'
    BY <2>1 DEF MetaOK, RowsOK, RowOK, CommandsOK, CommandOK, AdminKeysFresh, NumbersBehind
  <2> QED
    BY <2>3, <2>4, <2>5, <2>6
<1> QED
  BY <1>1, <1>2

-----------------------------------------------------------------------------
\* The journal is empty, and nobody works.
LEMMA IInvInitial == Init => IInv
<1> SUFFICES ASSUME Init PROVE IInv
  OBVIOUS
<1>1. /\ meta = [next_out |-> 1, next_in |-> 1, next_event |-> 1, next_transmission |-> 1]
      /\ commands = Journal!NoRows /\ outbound = Journal!NoRows
  BY DEF Init, Journal!Init
<1>2. MetaOK
  BY <1>1 DEF MetaOK
<1>3. RowsOK /\ CommandsOK /\ NumbersBehind /\ AdminKeysFresh
  BY <1>1 DEF RowsOK, CommandsOK, NumbersBehind, AdminKeysFresh, Journal!NoRows
<1>4. Counted /\ TodoOK
  BY DEF Init, Counted, TodoOK
<1>5. CopiesOK
  BY DEF Init, CopiesOK
<1>6. SentOK /\ WireJournaled
  <2> DEFINE S == {}
  <2>1. sent \in Seq(S) /\ DOMAIN sent = {}
    BY DEF Init
  <2> HIDE DEF S
  <2> QED
    BY <2>1 DEF SentOK, WireJournaled
<1> QED
  BY <1>2, <1>3, <1>4, <1>5, <1>6 DEF IInv

\* Every step of the actor keeps the invariant.
LEMMA IInvInductive ==
  ASSUME Gated
  PROVE  IInv /\ [Next]_vars => IInv'
<1> SUFFICES ASSUME IInv, [Next]_vars PROVE IInv'
  OBVIOUS
<1>1. CASE UNCHANGED vars
  BY <1>1, StutterKeeps
<1>2. CASE Proceed
  BY <1>2, CommitAdminKeeps, WriteKeeps, MarkKeeps, JournalReplayKeeps, WriteReplayKeeps,
     ReplayMarkKeeps, ResyncedKeeps, DrainKeeps, ResetKeeps DEF Proceed
<1>3. ASSUME NEW r \in Requests, NEW f \in Fingerprints, Submit(r, f) PROVE IInv'
  BY <1>3, SubmitKeeps
<1>4. CASE RequestLogout
  BY <1>4, LogoutKeeps
<1>5. ASSUME NEW expired \in BOOLEAN, NEW silent \in BOOLEAN, Tick(expired, silent) PROVE IInv'
  BY <1>5, TickKeeps
<1>6. CASE Connect
  BY <1>6, ConnectKeeps
<1>7. CASE Disconnect
  BY <1>7, StopKeeps DEF Disconnect, history
<1>8. CASE AwaitFails
  BY <1>8, AwaitKeeps
<1>9. ASSUME NEW m \in InFrames, ReceiveFrame(m) PROVE IInv'
  BY <1>9, ReceiveKeeps
<1>10. CASE RejectFrame
  BY <1>10, FatalKeeps DEF RejectFrame
<1>11. CASE Horizon
  BY <1>1, <1>11 DEF Horizon
<1> QED
  BY <1>1, <1>2, <1>3, <1>4, <1>5, <1>6, <1>7, <1>8, <1>9, <1>10, <1>11 DEF Next, Local

-----------------------------------------------------------------------------
\* What a step does to the ledger of orders: known and copies as OrderLedger
\* has them.
Known == [r \in Requests |-> IF r \in DOMAIN commands THEN commands[r].phase ELSE "Unknown"]

\* A commit of a session message is not seen; one of an order accepts it.
LEMMA CommitMaps ==
  ASSUME CommandsOK, NEW c, Journal!CommitOutbound(c), UNCHANGED originals
  PROVE  [Ledger!Next]_(Ledger!ledger)
<1> DEFINE key == c.request_id
<1>1. /\ key \notin DOMAIN commands
      /\ commands' = [k \in DOMAIN commands \cup {key} |->
                        IF k = key THEN Journal!NewCommand(c) ELSE commands[k]]
  BY DEF Journal!CommitOutbound, Journal!Inserted
<1>2. /\ commands'[key].phase = "Journaled" /\ key \in DOMAIN commands'
      /\ \A k : k # key => (k \in DOMAIN commands' <=> k \in DOMAIN commands)
      /\ \A k \in DOMAIN commands : commands'[k] = commands[k]
  BY <1>1 DEF Journal!NewCommand
<1> HIDE DEF key
<1>3. CASE key \in Requests
  <2>1. Known[key] = "Unknown" /\ Known' = [Known EXCEPT ![key] = "Journaled"]
    BY <1>1, <1>2, <1>3 DEF Known
  <2>2. Ledger!Accept(key)
    BY <2>1 DEF Ledger!Accept, Known
  <2> QED
    BY <1>3, <2>2 DEF Ledger!Next
<1>4. CASE key \notin Requests
  <2>1. Known' = Known
    BY <1>1, <1>2, <1>4 DEF Known
  <2> QED
    BY <2>1 DEF Ledger!ledger, Known
<1> QED
  BY <1>3, <1>4

\* Nothing of an order moves.
LEMMA StutterMaps ==
  ASSUME UNCHANGED <<commands, originals>>
  PROVE  [Ledger!Next]_(Ledger!ledger)
  BY DEF Ledger!ledger

\* The write of an order, whether it was reported or not.
LEMMA WriteMaps ==
  ASSUME CopiesOK, NEW r \in Requests, r \in DOMAIN commands,
         commands[r].phase = "Journaled", originals[r] = 0,
         originals' = [originals EXCEPT ![r] = @ + 1], UNCHANGED commands
  PROVE  [Ledger!Next]_(Ledger!ledger)
<1>1. originals' = [originals EXCEPT ![r] = 1]
  BY DEF CopiesOK
<1>2. Ledger!Transmit(r)
  BY <1>1 DEF Ledger!Transmit
<1> QED
  BY <1>2 DEF Ledger!Next

\* The mark of an order confirms it; the mark of a session message is not seen.
LEMMA MarkMaps ==
  ASSUME TablesOK, NEW key, NEW seq, Journal!MarkOutboundWritten(key, seq),
         UNCHANGED originals,
         key \in Requests => commands[key].phase = "Journaled" /\ originals[key] = 1
  PROVE  [Ledger!Next]_(Ledger!ledger)
<1>1. /\ key \in DOMAIN commands /\ DOMAIN commands' = DOMAIN commands
      /\ commands'[key].phase = "Written"
      /\ \A k \in DOMAIN commands : k # key => commands'[k] = commands[k]
  BY MarkedRow
<1>2. CASE key \in Requests
  <2>1. PICK r \in Requests : r = key
    BY <1>2
  <2>2. /\ Known[r] = "Journaled" /\ originals[r] = 1
        /\ Known' = [Known EXCEPT ![r] = "Written"]
    BY <1>1, <2>1 DEF Known
  <2>3. Ledger!Confirm(r)
    BY <2>2 DEF Ledger!Confirm, Known
  <2> QED
    BY <2>3 DEF Ledger!Next
<1>3. CASE key \notin Requests
  <2>1. Known' = Known
    BY <1>1, <1>3 DEF Known
  <2> QED
    BY <2>1 DEF Ledger!ledger, Known
<1> QED
  BY <1>2, <1>3

\* Each step of the actor is one of the ledger, or not seen there.
LEMMA StepMaps ==
  ASSUME Gated
  PROVE  IInv /\ [Next]_vars => [Ledger!Next]_(Ledger!ledger)
<1> SUFFICES ASSUME IInv, [Next]_vars PROVE [Ledger!Next]_(Ledger!ledger)
  OBVIOUS
<1>1. CASE UNCHANGED <<commands, originals>>
  BY <1>1, StutterMaps
<1>2. CASE Fatal
  BY <1>2, StutterMaps DEF Fatal, journal, history
<1>3. CASE CommitAdmin
  BY <1>2, <1>3, CommitMaps, StutterMaps
     DEF CommitAdmin, WriteCommitted, journal, history, IInv
<1>4. ASSUME NEW r \in Requests, NEW f \in Fingerprints, Submit(r, f)
      PROVE [Ledger!Next]_(Ledger!ledger)
  <2>1. CASE r \in DOMAIN commands
    BY <1>2, <1>4, <2>1, RetryAnswered, StutterMaps DEF vars, journal, history
  <2>2. CASE r \notin DOMAIN commands
    <3>1. ~IsRetry(OrderCommit(r, f))
      BY <2>2 DEF IsRetry, OrderCommit
    <3> QED
      BY <1>2, <1>4, <3>1, CommitMaps DEF Submit, WriteCommitted, history, IInv
  <2> QED
    BY <2>1, <2>2
<1>5. CASE WriteWire
  <2> DEFINE job == Head(todo)
  <2>1. WriteOK(job) /\ UNCHANGED commands
    BY <1>5, RestLater DEF IInv, WriteWire, Doing, HeadOK, Later, journal
  <2>2. CASE job.frame.type = "D"
    <3>1. originals' = [originals EXCEPT ![job.key] = @ + 1]
      BY <1>5, <2>1, <2>2 DEF WriteWire, WriteOK
    <3> QED
      BY <2>1, <2>2, <3>1, WriteMaps DEF WriteOK, IInv
  <2>3. CASE job.frame.type # "D"
    BY <1>5, <2>1, <2>3, StutterMaps DEF WriteWire
  <2> QED
    BY <2>2, <2>3
<1>6. CASE MarkWritten
  <2> DEFINE job == Head(todo)
  <2>1. MarkOK(job)
    BY <1>6, RestLater DEF IInv, MarkWritten, Doing, HeadOK, Later
  <2>2. CASE ~Fatal
    <3>1. Journal!MarkOutboundWritten(job.key, job.seq) /\ UNCHANGED originals
      BY <1>6, <2>2 DEF MarkWritten, history
    <3> QED
      BY <2>1, <3>1, MarkMaps DEF IInv, TablesOK, MarkOK
  <2> QED
    BY <1>2, <2>2
<1>7. CASE AwaitFails
  <2> DEFINE job == Head(todo)
  <2>1. CASE ~UNCHANGED originals
    <3>1. /\ job.do \in {"write", "write replay"} /\ todo # <<>>
          /\ job.frame.type = "D" /\ ~job.frame.possdup
          /\ originals' = [originals EXCEPT ![job.frame.arg] = @ + 1]
          /\ UNCHANGED commands
      BY <1>7, <2>1 DEF AwaitFails, journal
    <3>2. WriteOK(job)
      BY <3>1, RestLater DEF IInv, HeadOK, Later, ReplayOK
    <3> QED
      BY <3>1, <3>2, WriteMaps DEF WriteOK, IInv
  <2> QED
    BY <1>7, <2>1, StutterMaps DEF AwaitFails, journal
<1>8. ASSUME NEW m, NEW buffer, NEW rest, CommitExpected(m, buffer, rest)
      PROVE [Ledger!Next]_(Ledger!ledger)
  BY <1>2, <1>8, StutterMaps DEF CommitExpected, Journal!CommitInbound
<1>9. CASE Proceed
  <2>1. CASE CommitResynced \/ DrainBuffer
    BY <1>8, <2>1, StutterMaps DEF CommitResynced, DrainBuffer, journal, history
  <2>2. CASE JournalReplay \/ WriteReplayWire \/ MarkReplayWritten \/ ResetJournal
    BY <2>2, StutterMaps DEF JournalReplay, WriteReplayWire, MarkReplayWritten, ResetJournal,
       Journal!CommitTransmission, Journal!MarkTransmissionWritten, Journal!ResetSequences,
       journal, history
  <2> QED
    BY <1>3, <1>5, <1>6, <1>9, <2>1, <2>2 DEF Proceed
<1>10. ASSUME NEW m \in InFrames, ReceiveFrame(m)
       PROVE [Ledger!Next]_(Ledger!ledger)
  BY <1>1, <1>2, <1>8, <1>10 DEF ReceiveFrame, ReceiveAhead, ReceiveDuplicate, ReceiveBehind,
     ReceiveExpected, Journal!ResyncInbound, vars, journal, history
<1>11. CASE \/ RequestLogout \/ Connect \/ Disconnect \/ RejectFrame \/ Horizon \/ UNCHANGED vars
  BY <1>1, <1>2, <1>11 DEF RequestLogout, Connect, Disconnect, RejectFrame, Horizon, vars,
     journal, history
<1>12. ASSUME NEW expired \in BOOLEAN, NEW silent \in BOOLEAN, Tick(expired, silent)
       PROVE [Ledger!Next]_(Ledger!ledger)
  BY <1>1, <1>2, <1>12 DEF Tick, journal, history
<1> QED
  BY <1>4, <1>7, <1>9, <1>10, <1>11, <1>12 DEF Next, Local

-----------------------------------------------------------------------------
\* CountersMatch: whatever is committed, replayed, refused, lost or reset, the
\* numbers a live actor holds in memory are those of the journal, one behind
\* between the commit of a message and its mark (Actor::send, handle_inbound).
THEOREM CountersAgree ==
  ASSUME Gated
  PROVE  Spec => []CountersMatch
<1>1. IInv => CountersMatch
  BY DEF IInv, Counted, CountersMatch
<1> QED
  BY <1>1, IInvInitial, IInvInductive, PTL DEF Spec

\* AdminKeysFresh: the key of type, number and event that Actor::send_admin
\* makes for a session message is in no command yet, after resets too, so
\* commit_outbound never takes one for a retry.
THEOREM KeysFresh ==
  ASSUME Gated
  PROVE  Spec => []AdminKeysFresh
<1>1. IInv => AdminKeysFresh
  BY DEF IInv
<1> QED
  BY <1>1, IInvInitial, IInvInductive, PTL DEF Spec

\* WireJournaled: no new message and no repeated order is written to the socket
\* that a row of the journal does not hold under its number.
THEOREM WireInJournal ==
  ASSUME Gated
  PROVE  Spec => []WireJournaled
<1>1. IInv => WireJournaled
  BY DEF IInv
<1> QED
  BY <1>1, IInvInitial, IInvInductive, PTL DEF Spec

\* OrdersKeepTheLedger: the actor implements OrderLedger.  Every order is
\* journaled, then sent as new at most once, then reported Written.
THEOREM KeepsTheLedger ==
  ASSUME Gated
  PROVE  Spec => OrdersKeepTheLedger
<1>1. Init => Ledger!Init
  BY DEF Init, Journal!Init, Journal!NoRows, Ledger!Init
<1> QED
  BY <1>1, IInvInitial, IInvInductive, StepMaps, PTL DEF Spec, OrdersKeepTheLedger, Ledger!Spec

-----------------------------------------------------------------------------
(***************************************************************************)
(* Types, and the journal under the actor: whatever the actor does, to the *)
(* journal it is a client that keeps to the types of FixStore.             *)
(***************************************************************************)
Store == INSTANCE FixStoreProofs WITH
  RequestIds <- Requests \cup AdminKeys,
  Fingerprints <- Fingerprints \cup (AdminTypes \X Nat \X Nat),
  ClOrdIds <- Requests \cup {NoClOrdId},
  Wires <- Frames,
  Kinds <- {"application_replay", "gap_fill"},
  Events <- {"message", "sequence_resync"},
  SeqNums <- Nat, EventIds <- Nat, TransmissionIds <- Nat

\* What a send may lead to.
Thens == Phases \cup {"TestRequest", "None"}

\* What an entry of todo carries, by its kind.
LEMMA EntryKinds ==
  ASSUME NEW job \in Entries
  PROVE  /\ job.do = "commit" => job.type \in AdminTypes /\ job.arg \in Nat /\ job.then \in Thens
         /\ job.do = "write" => /\ job.frame \in Frames /\ job.key \in Requests \cup AdminKeys
                                /\ job.seq \in Nat /\ job.then \in Thens
         /\ job.do = "mark" => /\ job.key \in Requests \cup AdminKeys
                               /\ job.seq \in Nat /\ job.then \in Thens
         /\ job.do = "replay" => job.at \in Nat /\ job.end \in Nat /\ job.at <= job.end
         /\ job.do = "write replay" => job.frame \in Frames /\ job.id \in Nat
         /\ job.do = "mark replay" => job.id \in Nat
         /\ job.do = "expected" => job.frame \in InFrames
  BY DEF Entries, Thens

\* Each entry that the actor makes is one.
LEMMA EntriesMade ==
  /\ \A type \in AdminTypes, arg \in Nat, then \in Thens : Send(type, arg, then) \in Entries
  /\ \A frame \in Frames, key \in Requests \cup AdminKeys, seq \in Nat, then \in Thens :
       Write(frame, key, seq, then) \in Entries
  /\ \A key \in Requests \cup AdminKeys, seq \in Nat, then \in Thens :
       Mark(key, seq, then) \in Entries
  /\ \A at, end \in Nat : at <= end => Replay(at, end) \in Entries
  /\ \A frame \in Frames, id \in Nat : WriteReplay(frame, id) \in Entries
  /\ \A id \in Nat : MarkReplay(id) \in Entries
  /\ \A frame \in InFrames : Expected(frame) \in Entries
  /\ Reset \in Entries /\ Drain \in Entries
<1>1. \A type \in AdminTypes, arg \in Nat, then \in Thens : Send(type, arg, then) \in Entries
  BY DEF Entries, Thens, Send
<1>2. \A frame \in Frames, key \in Requests \cup AdminKeys, seq \in Nat, then \in Thens :
        Write(frame, key, seq, then) \in Entries
  BY DEF Entries, Thens, Write
<1>3. \A key \in Requests \cup AdminKeys, seq \in Nat, then \in Thens :
        Mark(key, seq, then) \in Entries
  BY DEF Entries, Thens, Mark
<1>4. \A at, end \in Nat : at <= end => Replay(at, end) \in Entries
  BY DEF Entries, Replay
<1>5. \A frame \in Frames, id \in Nat : WriteReplay(frame, id) \in Entries
  BY DEF Entries, WriteReplay
<1>6. \A id \in Nat : MarkReplay(id) \in Entries
  BY DEF Entries, MarkReplay
<1>7. \A frame \in InFrames : Expected(frame) \in Entries
  BY DEF Entries, Expected
<1>8. Reset \in Entries /\ Drain \in Entries
  BY DEF Entries, Reset, Drain
<1> QED
  BY <1>1, <1>2, <1>3, <1>4, <1>5, <1>6, <1>7, <1>8

\* The worklist, taken apart and put together.
LEMMA EntriesTaken ==
  ASSUME todo \in Seq(Entries), todo # <<>>
  PROVE  Head(todo) \in Entries /\ Tail(todo) \in Seq(Entries)
  OBVIOUS

\* What may be put before it or behind it.
LEMMA EntriesAdded ==
  /\ <<>> \in Seq(Entries)
  /\ \A job \in Entries : <<job>> \in Seq(Entries)
  /\ \A job \in Entries, line \in Seq(Entries) : <<job>> \o line \in Seq(Entries)
  /\ \A s, t \in Seq(Entries) : s \o t \in Seq(Entries)
  OBVIOUS

\* One more frame on the wire.
LEMMA FrameAdded ==
  ASSUME sent \in Seq(Frames), NEW frame \in Frames
  PROVE  Append(sent, frame) \in Seq(Frames)
  OBVIOUS

\* What the session makes of its frames.
LEMMA FramesMade ==
  /\ \A type \in AdminTypes \cup {"4"}, seq, arg \in Nat : Frame(type, seq, arg) \in Frames
  /\ \A seq \in Nat, request \in Requests : Frame("D", seq, request) \in Frames
  /\ \A frame \in Frames : Repeated(frame) \in Frames
  /\ InFrames \subseteq Frames
<1>1. \A type \in AdminTypes \cup {"4"}, seq, arg \in Nat : Frame(type, seq, arg) \in Frames
  BY DEF Frame, Frames
<1>2. \A seq \in Nat, request \in Requests : Frame("D", seq, request) \in Frames
  BY DEF Frame, Frames
<1>3. \A frame \in Frames : Repeated(frame) \in Frames
  BY DEF Frames, Repeated, Flagged
<1>4. InFrames \subseteq Frames
  BY SessionConstants DEF Frames
<1> QED
  BY <1>1, <1>2, <1>3, <1>4

\* The journal here and in FixStoreProofs is the same.
LEMMA SameStore ==
  /\ Journal!Next <=> Store!Next
  /\ Journal!vars = Store!vars
  /\ Journal!TypeOK <=> Store!TypeOK
  /\ Journal!TypeOK' <=> Store!TypeOK'
  /\ Store!StoreConstants
<1>1. Journal!Next <=> Store!Next
  <2>1. \A c : Journal!CommitOutbound(c) <=> Store!CommitOutbound(c)
    BY DEF Journal!CommitOutbound, Journal!Inserted, Journal!NewCommand,
           Store!CommitOutbound, Store!Inserted, Store!NewCommand
  <2>2. \A r, n : Journal!MarkOutboundWritten(r, n) <=> Store!MarkOutboundWritten(r, n)
    BY DEF Journal!MarkOutboundWritten, Store!MarkOutboundWritten
  <2>3. \A t : Journal!CommitTransmission(t) <=> Store!CommitTransmission(t)
    BY DEF Journal!CommitTransmission, Journal!Inserted, Store!CommitTransmission, Store!Inserted
  <2>4. \A id : Journal!MarkTransmissionWritten(id) <=> Store!MarkTransmissionWritten(id)
    BY DEF Journal!MarkTransmissionWritten, Store!MarkTransmissionWritten
  <2>5. \A c : Journal!CommitInbound(c) <=> Store!CommitInbound(c)
    BY DEF Journal!CommitInbound, Journal!Inserted, Store!CommitInbound, Store!Inserted
  <2>6. \A n, e, event : Journal!ResyncInbound(n, e, event) <=> Store!ResyncInbound(n, e, event)
    BY DEF Journal!ResyncInbound, Journal!Inserted, Store!ResyncInbound, Store!Inserted
  <2>7. Journal!ResetSequences <=> Store!ResetSequences
    BY DEF Journal!ResetSequences, Journal!NoRows, Store!ResetSequences, Store!NoRows
  <2>8. Journal!Load <=> Store!Load
    BY DEF Journal!Load, Journal!vars, Store!Load, Store!vars
  <2>9. /\ Journal!OutboundCommits = Store!OutboundCommits
        /\ Journal!TransmissionCommits = Store!TransmissionCommits
        /\ Journal!InboundCommits = Store!InboundCommits
    BY DEF Journal!OutboundCommits, Journal!TransmissionCommits, Journal!InboundCommits,
           Store!OutboundCommits, Store!TransmissionCommits, Store!InboundCommits
  <2> QED
    BY <2>1, <2>2, <2>3, <2>4, <2>5, <2>6, <2>7, <2>8, <2>9 DEF Journal!Next, Store!Next
<1>2. Journal!vars = Store!vars
  BY DEF Journal!vars, Store!vars
<1>3. (Journal!TypeOK <=> Store!TypeOK) /\ (Journal!TypeOK' <=> Store!TypeOK')
  <2>1. Journal!Meta = Store!Meta
    BY DEF Journal!Meta, Journal!Counter, Store!Meta, Store!Counter
  <2>2. Journal!CommandRecord = Store!CommandRecord
    BY DEF Journal!CommandRecord, Journal!Phases, Store!CommandRecord, Store!Phases
  <2>3. Journal!OutboundRecord = Store!OutboundRecord
    BY <2>2 DEF Journal!OutboundRecord, Store!OutboundRecord
  <2>4. Journal!TransmissionRecord = Store!TransmissionRecord
    BY DEF Journal!TransmissionRecord, Journal!Phases, Store!TransmissionRecord, Store!Phases
  <2>5. Journal!InboundRecord = Store!InboundRecord
    BY DEF Journal!InboundRecord, Store!InboundRecord
  <2> QED
    BY <2>1, <2>2, <2>3, <2>4, <2>5 DEF Journal!TypeOK, Store!TypeOK
<1>4. Store!StoreConstants
  BY DEF Store!StoreConstants
<1> QED
  BY <1>1, <1>2, <1>3, <1>4

\* A step of the journal that a well-typed client makes keeps its types.
LEMMA JournalTyped ==
  ASSUME Journal!TypeOK, [Journal!Next]_(Journal!vars)
  PROVE  Journal!TypeOK'
<1>1. Store!TypeOK /\ Store!StoreConstants
  BY SameStore
<1>2. [Store!Next]_(Store!vars)
  BY SameStore DEF Journal!vars, Store!vars
<1>3. Store!TypeOK'
  BY <1>1, <1>2, Store!NextType
<1> QED
  BY <1>3, SameStore

\* What a step of the actor keeps: its own types, and those of its journal.
KeepsTypes == ActorTypeOK' /\ [Journal!Next]_(Journal!vars)

\* The journal is left as it is.
LEMMA JournalStays ==
  ASSUME UNCHANGED journal
  PROVE  [Journal!Next]_(Journal!vars)
  BY DEF journal, Journal!vars

\* run returns.
LEMMA StopTyped ==
  ASSUME ActorTypeOK, NEW p \in Phases, Stop(p), UNCHANGED <<sent, history>>
  PROVE  ActorTypeOK'
<1>1. DOMAIN gap_buffer' = {}
  BY DEF Stop, Journal!NoRows
<1> QED
  BY <1>1, EntriesAdded DEF Stop, ActorTypeOK, counters, history

\* fatal: the actor stops in Blocked, and the journal keeps what it holds.
LEMMA FatalTyped ==
  ASSUME ActorTypeOK, Fatal
  PROVE  KeepsTypes
<1>1. "Blocked" \in Phases
  BY DEF Phases
<1> QED
  BY <1>1, StopTyped, JournalStays DEF Fatal, KeepsTypes

\* A commit: the journal takes it, and its frame is written next.
LEMMA CommittedTyped ==
  ASSUME ActorTypeOK, NEW c \in Journal!OutboundCommits, NEW seq \in Nat, NEW then \in Thens,
         WriteCommitted(c, seq, then), UNCHANGED journal \/ Journal!CommitOutbound(c)
  PROVE  KeepsTypes
<1>1. c.wire \in Frames /\ c.request_id \in Requests \cup AdminKeys
  BY DEF Journal!OutboundCommits
<1>2. Write(c.wire, c.request_id, seq, then) \in Entries
  BY <1>1, EntriesMade
<1>3. (IF todo = <<>> THEN <<>> ELSE Tail(todo)) \in Seq(Entries)
  BY EntriesTaken, EntriesAdded DEF ActorTypeOK
<1>4. todo' \in Seq(Entries)
  BY <1>2, <1>3, EntriesAdded DEF WriteCommitted
<1>5. ActorTypeOK'
  BY <1>4 DEF ActorTypeOK, WriteCommitted, counters, history
<1>6. [Journal!Next]_(Journal!vars)
  BY JournalStays DEF Journal!Next
<1> QED
  BY <1>5, <1>6 DEF KeepsTypes

\* send_admin, up to the commit: a new row, or the answer to a retry.
LEMMA CommitAdminTyped ==
  ASSUME TypeOK, CommitAdmin
  PROVE  KeepsTypes
<1> DEFINE job == Head(todo)
<1> DEFINE c == AdminCommit(job)
<1> USE DEF TypeOK
<1>1. job.type \in AdminTypes /\ job.arg \in Nat /\ job.then \in Thens
  BY EntriesTaken, EntryKinds DEF CommitAdmin, Doing, ActorTypeOK
<1>2. next_out \in Nat /\ next_event \in Nat
  BY DEF ActorTypeOK
<1>3. Frame(job.type, next_out, job.arg) \in Frames
  BY <1>1, <1>2, FramesMade
<1>4. <<job.type, next_out, next_event>> \in AdminTypes \X Nat \X Nat
  BY <1>1, <1>2
<1>5. <<job.type, next_out, IF job.type = "2" THEN job.arg ELSE 0>> \in AdminTypes \X Nat \X Nat
  BY <1>1, <1>2
<1>6. c \in Journal!OutboundCommits
  BY <1>2, <1>3, <1>4, <1>5 DEF AdminCommit, Journal!OutboundCommits, AdminKeys
<1>7. CASE Fatal
  BY <1>7, FatalTyped
<1>8. CASE IsRetry(c) /\ UNCHANGED journal /\ WriteCommitted(c, commands[c.request_id].msg_seq_num, job.then)
  <2>1. commands[c.request_id].msg_seq_num \in Nat
    BY <1>8 DEF IsRetry, Journal!TypeOK, Journal!CommandRecord
  <2> HIDE DEF c, job
  <2> QED
    BY <1>1, <1>6, <1>8, <2>1, CommittedTyped
<1>9. CASE Journal!CommitOutbound(c) /\ WriteCommitted(c, next_out, job.then)
  <2> HIDE DEF c, job
  <2> QED
    BY <1>1, <1>2, <1>6, <1>9, CommittedTyped
<1> QED
  BY <1>7, <1>8, <1>9 DEF CommitAdmin

\* One more copy of an order.
LEMMA CopiesTyped ==
  ASSUME originals \in [Requests -> Nat], NEW r
  PROVE  [originals EXCEPT ![r] = @ + 1] \in [Requests -> Nat]
<1> DEFINE more == [originals EXCEPT ![r] = @ + 1]
<1>1. more = [q \in Requests |-> IF q = r THEN originals[q] + 1 ELSE originals[q]]
  OBVIOUS
<1>2. \A q \in Requests : (IF q = r THEN originals[q] + 1 ELSE originals[q]) \in Nat
  OBVIOUS
<1> QED
  BY <1>1, <1>2

\* The write of a committed frame, after which it is marked.
LEMMA WriteTyped ==
  ASSUME TypeOK, WriteWire
  PROVE  KeepsTypes
<1> DEFINE job == Head(todo)
<1>1. /\ job.frame \in Frames /\ job.key \in Requests \cup AdminKeys
      /\ job.seq \in Nat /\ job.then \in Thens /\ Tail(todo) \in Seq(Entries)
  BY EntriesTaken, EntryKinds DEF TypeOK, WriteWire, Doing, ActorTypeOK
<1>2. Mark(job.key, job.seq, job.then) \in Entries
  BY <1>1, EntriesMade
<1>3. todo' \in Seq(Entries)
  BY <1>1, <1>2, EntriesAdded DEF WriteWire
<1>4. sent' \in Seq(Frames)
  BY <1>1, FrameAdded DEF WriteWire, TypeOK, ActorTypeOK
<1>5. originals' \in [Requests -> Nat]
  BY CopiesTyped DEF WriteWire, TypeOK, ActorTypeOK
<1>6. ActorTypeOK'
  BY <1>3, <1>4, <1>5 DEF TypeOK, ActorTypeOK, WriteWire, counters
<1> QED
  BY <1>6, JournalStays DEF KeepsTypes, WriteWire

\* mark_outbound_written, and what the send leads to.
LEMMA MarkTyped ==
  ASSUME TypeOK, MarkWritten
  PROVE  KeepsTypes
<1> DEFINE job == Head(todo)
<1>1. /\ job.key \in Requests \cup AdminKeys
      /\ job.seq \in Nat /\ job.then \in Thens /\ Tail(todo) \in Seq(Entries)
  BY EntriesTaken, EntryKinds DEF TypeOK, MarkWritten, Doing, ActorTypeOK
<1>2. CASE Fatal
  BY <1>2, FatalTyped DEF TypeOK
<1>3. ASSUME Journal!MarkOutboundWritten(job.key, job.seq), ~Fatal
      PROVE  KeepsTypes
  <2>1. [Journal!Next]_(Journal!vars)
    BY <1>1, <1>3 DEF Journal!Next
  <2>2. job.seq + 1 \in Nat
    BY <1>1
  <2>3. /\ next_out' = job.seq + 1 /\ UNCHANGED <<next_in, next_event, sent, history>>
        /\ \/ /\ running' = FALSE /\ phase' = "Blocked" /\ todo' = <<>>
              /\ gap_buffer' = Journal!NoRows /\ test_request' = 0
           \/ /\ phase' = IF job.then \in Phases THEN job.then ELSE phase
              /\ test_request' = IF job.then = "TestRequest" THEN job.seq ELSE test_request
              /\ todo' = Tail(todo) /\ UNCHANGED <<running, gap_buffer>>
    BY <1>3 DEF MarkWritten
  <2>4. DOMAIN Journal!NoRows = {}
    BY DEF Journal!NoRows
  <2> HIDE DEF job
  <2>5. next_out' \in Nat /\ todo' \in Seq(Entries) /\ test_request' \in Nat
    <3>1. todo' = <<>> \/ todo' = Tail(todo)
      BY <2>3
    <3>2. test_request' \in {0, job.seq, test_request}
      BY <2>3
    <3>3. todo' \in Seq(Entries)
      BY <1>1, <3>1, EntriesAdded
    <3> QED
      BY <1>1, <2>2, <2>3, <3>2, <3>3 DEF TypeOK, ActorTypeOK
  <2>6. running' \in BOOLEAN /\ phase' \in Phases
    BY <2>3 DEF TypeOK, ActorTypeOK, Phases
  <2>7. DOMAIN gap_buffer' \subseteq Nat /\ \A n \in DOMAIN gap_buffer' : gap_buffer'[n] \in InFrames
    BY <2>3, <2>4 DEF TypeOK, ActorTypeOK
  <2>8. ActorTypeOK'
    BY <2>3, <2>5, <2>6, <2>7 DEF TypeOK, ActorTypeOK, history
  <2> QED
    BY <2>1, <2>8 DEF KeepsTypes
<1> QED
  BY <1>2, <1>3 DEF MarkWritten

\* submit_order commits an order, or answers from the row that holds it.
LEMMA SubmitTyped ==
  ASSUME TypeOK, NEW r \in Requests, NEW f \in Fingerprints, Submit(r, f)
  PROVE  KeepsTypes
<1> DEFINE c == OrderCommit(r, f)
<1> USE DEF TypeOK
<1>1. next_out \in Nat /\ "None" \in Thens
  BY DEF ActorTypeOK, Thens
<1>2. Frame("D", next_out, r) \in Frames
  BY <1>1, FramesMade
<1>3. c \in Journal!OutboundCommits
  BY <1>1, <1>2 DEF OrderCommit, Journal!OutboundCommits
<1>4. CASE Journal!CommitOutbound(c) /\ WriteCommitted(c, next_out, "None")
  <2> HIDE DEF c
  <2> QED
    BY <1>1, <1>3, <1>4, CommittedTyped
<1>5. CASE commands[r].msg_seq_num = next_out /\ UNCHANGED journal
           /\ WriteCommitted(c, commands[r].msg_seq_num, "None")
  <2> HIDE DEF c
  <2> QED
    BY <1>1, <1>3, <1>5, CommittedTyped
<1>6. CASE UNCHANGED vars
  BY <1>6, JournalStays DEF vars, counters, history, ActorTypeOK, KeepsTypes
<1>7. CASE Fatal
  BY <1>7, FatalTyped
<1> QED
  BY <1>4, <1>5, <1>6, <1>7 DEF Submit

\* A logout asked for by the handle.
LEMMA LogoutTyped ==
  ASSUME TypeOK, RequestLogout
  PROVE  KeepsTypes
<1>1. Send("5", 0, "LogoutSent") \in Entries
  BY EntriesMade DEF Thens, Phases, AdminTypes
<1>2. ActorTypeOK'
  BY <1>1, EntriesAdded DEF RequestLogout, TypeOK, ActorTypeOK, counters, history
<1> QED
  BY <1>2, JournalStays DEF RequestLogout, KeepsTypes

\* The timer: a heartbeat, a test request, a logout.
LEMMA TickTyped ==
  ASSUME TypeOK, NEW expired, NEW silent, Tick(expired, silent)
  PROVE  KeepsTypes
<1>1. next_out + 1 \in Nat
  BY DEF TypeOK, ActorTypeOK
<1>2. /\ Send("0", 0, "None") \in Entries /\ Send("5", 0, "Blocked") \in Entries
      /\ Send("1", next_out + 1, "TestRequest") \in Entries
  BY <1>1, EntriesMade DEF Thens, Phases, AdminTypes
<1>3. CASE Fatal
  BY <1>3, FatalTyped DEF TypeOK
<1>4. CASE ~Fatal
  <2> DEFINE heartbeat == IF phase = "Established" THEN <<Send("0", 0, "None")>> ELSE <<>>
  <2>1. heartbeat \in Seq(Entries)
    BY <1>2, EntriesAdded
  <2>2. \/ todo' = heartbeat
        \/ todo' = Append(heartbeat, Send("5", 0, "Blocked"))
        \/ todo' = Append(heartbeat, Send("1", next_out + 1, "TestRequest"))
    BY <1>4 DEF Tick
  <2> HIDE DEF heartbeat
  <2>3. todo' \in Seq(Entries)
    BY <1>2, <2>1, <2>2
  <2>4. ActorTypeOK'
    BY <1>4, <2>3 DEF Tick, TypeOK, ActorTypeOK, counters, history
  <2> QED
    BY <1>4, <2>4, JournalStays DEF Tick, KeepsTypes
<1> QED
  BY <1>3, <1>4

\* The order of the naturals as a relation.
LessThan == {pair \in Nat \X Nat : pair[1] < pair[2]}

\* Every set of naturals that is not empty has a least element.
LEMMA Least ==
  ASSUME NEW S \in SUBSET Nat, S # {}
  PROVE  \E n \in S : \A m \in S : n <= m
<1>1. IsWellFoundedOn(LessThan, Nat)
  BY NatLessThanWellFounded DEF OpToRel, LessThan
<1>2. \E n \in S : \A m \in S : <<m, n>> \notin LessThan
  BY <1>1, WFMin
<1>3. PICK n \in S : \A m \in S : <<m, n>> \notin LessThan
  BY <1>2
<1>4. \A m \in S : ~(m < n)
  BY <1>3 DEF LessThan
<1>5. QED
  BY <1>4

\* A gap fill ends at the first order behind its start, or behind the range.
LEMMA GapEndIs ==
  ASSUME NEW at \in Nat, NEW end \in Nat, at <= end, ~IsOrder(at)
  PROVE  /\ GapEnd(at, end) \in Nat /\ at < GapEnd(at, end) /\ GapEnd(at, end) <= end + 1
         /\ \A k \in at..(GapEnd(at, end) - 1) : ~IsOrder(k)
<1> DEFINE Stops == {n \in at..(end + 1) : n = end + 1 \/ IsOrder(n)}
           IsEnd(n) == /\ n = end + 1 \/ IsOrder(n)
                       /\ \A k \in at..(n - 1) : ~IsOrder(k)
<1>1. Stops \in SUBSET Nat /\ end + 1 \in Stops
  OBVIOUS
<1>2. PICK n \in Stops : \A m \in Stops : n <= m
  BY <1>1, Least
<1>3. n \in at..(end + 1) /\ IsEnd(n)
  <2>1. n \in at..(end + 1) /\ (n = end + 1 \/ IsOrder(n)) /\ n \in Nat
    OBVIOUS
  <2>2. ASSUME NEW k \in at..(n - 1), IsOrder(k) PROVE FALSE
    <3>1. k \in at..(end + 1) /\ k < n
      BY <2>1
    <3> QED
      BY <1>2, <2>1, <2>2, <3>1
  <2> QED
    BY <2>1, <2>2
<1>4. GapEnd(at, end) = CHOOSE e \in at..(end + 1) : IsEnd(e)
  BY DEF GapEnd
<1> HIDE DEF IsEnd
<1>5. GapEnd(at, end) \in at..(end + 1) /\ IsEnd(GapEnd(at, end))
  BY <1>3, <1>4
<1>6. GapEnd(at, end) # at
  BY <1>5 DEF IsEnd
<1> QED
  BY <1>5, <1>6 DEF IsEnd

\* A replay goes through the range; what is left of it is never empty.
LEMMA JournalReplayTyped ==
  ASSUME TypeOK, JournalReplay
  PROVE  KeepsTypes
<1> DEFINE job == Head(todo)
<1> DEFINE frame == ReplayFrame(job.at, job.end)
<1> DEFINE next == ReplayEnd(job.at, job.end)
<1> USE DEF TypeOK
<1>1. job.at \in Nat /\ job.end \in Nat /\ job.at <= job.end /\ Tail(todo) \in Seq(Entries)
  BY EntriesTaken, EntryKinds DEF JournalReplay, Doing, ActorTypeOK
<1>2. frame \in Frames /\ next \in Nat
  <2> HIDE DEF job
  <2>1. CASE IsOrder(job.at)
    <3>1. outbound[job.at].wire \in Frames
      BY <2>1 DEF IsOrder, Journal!TypeOK, Journal!OutboundRecord
    <3>2. frame = Repeated(outbound[job.at].wire) /\ next = job.at + 1
      BY <2>1 DEF ReplayFrame, ReplayEnd
    <3> QED
      BY <1>1, <3>1, <3>2, FramesMade
  <2>2. CASE ~IsOrder(job.at)
    <3>1. GapEnd(job.at, job.end) \in Nat
      BY <1>1, <2>2, GapEndIs
    <3>2. Frame("4", job.at, GapEnd(job.at, job.end)) \in Frames
      BY <1>1, <3>1, FramesMade
    <3>3. /\ frame = Repeated(Frame("4", job.at, GapEnd(job.at, job.end)))
          /\ next = GapEnd(job.at, job.end)
      BY <2>2 DEF ReplayFrame, ReplayEnd
    <3> QED
      BY <3>1, <3>2, <3>3, FramesMade
  <2> QED
    BY <2>1, <2>2
<1>3. meta.next_transmission \in Nat
  BY DEF Journal!TypeOK, Journal!Meta, Journal!Counter
<1> DEFINE t == [msg_seq_num |-> job.at, wire |-> frame,
                 kind |-> IF frame.type = "4" THEN "gap_fill" ELSE "application_replay"]
<1>4. t \in Journal!TransmissionCommits
  BY <1>1, <1>2 DEF Journal!TransmissionCommits
<1>5. Journal!CommitTransmission(t)
  BY DEF JournalReplay
<1>6. [Journal!Next]_(Journal!vars)
  <2> HIDE DEF t
  <2> QED
    BY <1>3, <1>4, <1>5 DEF Journal!Next
<1> DEFINE rest == IF next <= job.end THEN <<Replay(next, job.end)>> ELSE <<>>
<1>7. todo' = <<WriteReplay(frame, meta.next_transmission)>> \o rest \o Tail(todo)
  BY DEF JournalReplay
<1> HIDE DEF job, frame, next
<1>8. rest \in Seq(Entries) /\ WriteReplay(frame, meta.next_transmission) \in Entries
  BY <1>1, <1>2, <1>3, EntriesMade, EntriesAdded
<1> HIDE DEF rest
<1>9. todo' \in Seq(Entries)
  BY <1>1, <1>7, <1>8, EntriesAdded
<1>10. ActorTypeOK'
  BY <1>9 DEF JournalReplay, ActorTypeOK, counters, history
<1> QED
  BY <1>6, <1>10 DEF KeepsTypes

\* The write of a repeated frame, after which its transmission is marked.
LEMMA WriteReplayTyped ==
  ASSUME TypeOK, WriteReplayWire
  PROVE  KeepsTypes
<1>1. Head(todo).frame \in Frames /\ Head(todo).id \in Nat /\ Tail(todo) \in Seq(Entries)
  BY EntriesTaken, EntryKinds DEF TypeOK, WriteReplayWire, Doing, ActorTypeOK
<1>2. MarkReplay(Head(todo).id) \in Entries
  BY <1>1, EntriesMade
<1>3. todo' \in Seq(Entries)
  BY <1>1, <1>2, EntriesAdded DEF WriteReplayWire
<1>4. sent' \in Seq(Frames)
  BY <1>1, FrameAdded DEF WriteReplayWire, TypeOK, ActorTypeOK
<1>5. UNCHANGED <<running, greeted, phase, next_out, next_in, next_event, gap_buffer,
                  test_request, originals>>
  BY DEF WriteReplayWire, counters, history
<1>6. ActorTypeOK'
  BY <1>3, <1>4, <1>5 DEF TypeOK, ActorTypeOK
<1> QED
  BY <1>6, JournalStays DEF WriteReplayWire, KeepsTypes

\* mark_transmission_written, with the transmission that was journaled.
LEMMA ReplayMarkTyped ==
  ASSUME TypeOK, MarkReplayWritten
  PROVE  KeepsTypes
<1>1. Head(todo).id \in Nat /\ Tail(todo) \in Seq(Entries)
  BY EntriesTaken, EntryKinds DEF TypeOK, MarkReplayWritten, Doing, ActorTypeOK
<1>2. ActorTypeOK'
  BY <1>1 DEF MarkReplayWritten, TypeOK, ActorTypeOK, counters, history
<1> QED
  BY <1>1, <1>2 DEF MarkReplayWritten, KeepsTypes, Journal!Next

\* commit_expected: a message is journaled, and what it makes the actor do.
LEMMA ResponseTyped ==
  ASSUME TypeOK, NEW m \in InFrames, IsAcceptable(m)
  PROVE  Response(m) \in Seq(Entries)
<1>1. m.arg \in Nat /\ m.end \in Nat /\ next_out \in Nat
  BY SessionConstants DEF TypeOK, ActorTypeOK
<1>2. CASE m.type = "5" /\ CanLogout
  BY <1>2, EntriesMade, EntriesAdded DEF Response, Thens, Phases, AdminTypes
<1>3. CASE m.type = "2"
  <2>1. RangeEnd(m) \in Nat /\ m.arg <= RangeEnd(m)
    BY <1>1, <1>3 DEF IsAcceptable, RangeEnd
  <2>2. Replay(m.arg, RangeEnd(m)) \in Entries
    BY <1>1, <2>1, EntriesMade
  <2> QED
    BY <1>3, <2>2, EntriesAdded DEF Response
<1>4. CASE m.type = "1"
  <2>1. Send("0", m.arg, "None") \in Entries
    BY <1>1, EntriesMade DEF Thens, AdminTypes
  <2> QED
    BY <1>4, <2>1, EntriesAdded DEF Response
<1>5. CASE ~(m.type = "5" /\ CanLogout) /\ m.type # "2" /\ m.type # "1"
  BY <1>5, EntriesAdded DEF Response
<1> QED
  BY <1>2, <1>3, <1>4, <1>5

\* The message at next_in is journaled, counted and answered.
LEMMA CommitExpectedTyped ==
  ASSUME TypeOK, NEW m \in InFrames, NEW rest \in Seq(Entries), NEW buffer,
         DOMAIN buffer \subseteq Nat, \A n \in DOMAIN buffer : buffer[n] \in InFrames,
         CommitExpected(m, buffer, rest)
  PROVE  KeepsTypes
<1> USE DEF TypeOK
<1>1. CASE Fatal
  BY <1>1, FatalTyped
<1>2. CASE ~Fatal
  <2> DEFINE after == IF m.type = "4" THEN m.arg ELSE m.seq + 1
             c == [msg_seq_num |-> m.seq, wire |-> m, event_id |-> next_event,
                   event |-> "message", next_in_after |-> after]
  <2>1. m.seq \in Nat /\ m.arg \in Nat /\ m \in Frames /\ next_event \in Nat
    BY SessionConstants, FramesMade DEF ActorTypeOK
  <2>2. after \in Nat
    BY <2>1
  <2>3. /\ IsAcceptable(m) /\ Journal!CommitInbound(c)
        /\ next_in' = after /\ next_event' = next_event + 1
        /\ UNCHANGED <<next_out, sent, originals>>
        /\ greeted' = (greeted \/ m.type = "A")
        /\ \/ /\ running' = FALSE /\ phase' = "Blocked" /\ todo' = <<>>
              /\ gap_buffer' = Journal!NoRows /\ test_request' = 0
           \/ /\ todo' = Response(m) \o rest
              /\ phase' = PhaseAfter(m)
              /\ test_request' = IF m.type = "0" /\ m.arg = test_request THEN 0 ELSE test_request
              /\ gap_buffer' = buffer /\ UNCHANGED running
    BY <1>2 DEF CommitExpected
  <2>4. c \in Journal!InboundCommits
    BY <2>1, <2>2 DEF Journal!InboundCommits
  <2>5. [Journal!Next]_(Journal!vars)
    <3> HIDE DEF c
    <3> QED
      BY <2>3, <2>4 DEF Journal!Next
  <2> HIDE DEF c, after
  <2>6. todo' \in Seq(Entries)
    <3>1. Response(m) \o rest \in Seq(Entries)
      BY <2>3, ResponseTyped, EntriesAdded
    <3> QED
      BY <2>3, <3>1, EntriesAdded
  <2>7. phase' \in Phases /\ running' \in BOOLEAN
    BY <2>3 DEF PhaseAfter, Phases, ActorTypeOK
  <2>8. DOMAIN gap_buffer' \subseteq Nat /\ \A n \in DOMAIN gap_buffer' : gap_buffer'[n] \in InFrames
    BY <2>3 DEF Journal!NoRows
  <2>9. greeted' \in BOOLEAN
    BY <2>3 DEF ActorTypeOK
  <2>10. next_in' \in Nat /\ next_event' \in Nat /\ test_request' \in Nat
    BY <2>1, <2>2, <2>3 DEF ActorTypeOK
  <2>11. ActorTypeOK'
    BY <2>3, <2>6, <2>7, <2>8, <2>9, <2>10 DEF ActorTypeOK
  <2> QED
    BY <2>5, <2>11 DEF KeepsTypes
<1> QED
  BY <1>1, <1>2

\* A frame put into the gap buffer.
LEMMA BufferedTyped ==
  ASSUME DOMAIN gap_buffer \subseteq Nat, \A n \in DOMAIN gap_buffer : gap_buffer[n] \in InFrames,
         NEW m \in InFrames
  PROVE  LET buffer == Journal!Inserted(gap_buffer, m.seq, m)
         IN  DOMAIN buffer \subseteq Nat /\ \A n \in DOMAIN buffer : buffer[n] \in InFrames
  BY SessionConstants DEF Journal!Inserted

\* ReceiveFrame: handle_inbound.
LEMMA ReceiveTyped ==
  ASSUME TypeOK, NEW m \in InFrames, ReceiveFrame(m)
  PROVE  KeepsTypes
<1> USE DEF TypeOK
<1>1. Drain \in Entries /\ <<Drain>> \in Seq(Entries) /\ m.seq \in Nat
  BY EntriesMade, EntriesAdded, SessionConstants
<1>2. CASE Fatal
  BY <1>2, FatalTyped
<1>3. CASE ReceiveAhead(m) /\ ~Fatal
  <2>1. Send("2", next_in, "Recovering") \in Entries
    BY EntriesMade DEF ActorTypeOK, Thens, Phases, AdminTypes
  <2>2. todo' \in Seq(Entries)
    BY <1>3, <2>1, EntriesAdded DEF ReceiveAhead
  <2>3. DOMAIN gap_buffer' \subseteq Nat /\ \A n \in DOMAIN gap_buffer' : gap_buffer'[n] \in InFrames
    <3>1. gap_buffer' = gap_buffer \/ gap_buffer' = Journal!Inserted(gap_buffer, m.seq, m)
      BY <1>3 DEF ReceiveAhead
    <3> QED
      BY <3>1, BufferedTyped DEF ActorTypeOK
  <2>4. UNCHANGED <<journal, running, phase, counters, test_request, sent, history>>
    BY <1>3 DEF ReceiveAhead
  <2>5. ActorTypeOK'
    BY <2>2, <2>3, <2>4 DEF ActorTypeOK, counters, history
  <2> QED
    BY <2>4, <2>5, JournalStays DEF KeepsTypes
<1>4. CASE UNCHANGED vars
  BY <1>4, JournalStays DEF vars, counters, history, ActorTypeOK, KeepsTypes
<1>5. CASE ReceiveBehind(m) /\ ~Fatal
  <2>1. /\ Journal!ResyncInbound(m.seq, next_event, "sequence_resync")
        /\ next_in' = m.seq /\ next_event' = next_event + 1 /\ todo' = <<Expected(m), Drain>>
        /\ UNCHANGED <<running, phase, next_out, gap_buffer, test_request, sent, history>>
    BY <1>5 DEF ReceiveBehind
  <2>2. next_event \in Nat
    BY DEF ActorTypeOK
  <2>3. [Journal!Next]_(Journal!vars)
    BY <1>1, <2>1, <2>2 DEF Journal!Next
  <2>4. todo' \in Seq(Entries)
    BY <1>1, <2>1, EntriesMade
  <2>5. ActorTypeOK'
    BY <1>1, <2>1, <2>2, <2>4 DEF ActorTypeOK, history
  <2> QED
    BY <2>3, <2>5 DEF KeepsTypes
<1>6. CASE ReceiveExpected(m)
  <2>1. CommitExpected(m, gap_buffer, <<Drain>>)
    BY <1>6 DEF ReceiveExpected
  <2> QED
    BY <1>1, <2>1, CommitExpectedTyped DEF ActorTypeOK
<1> QED
  BY <1>2, <1>3, <1>4, <1>5, <1>6 DEF ReceiveFrame, ReceiveDuplicate

\* A Logon behind next_in is committed after the counter is set back to it.
LEMMA ResyncedTyped ==
  ASSUME TypeOK, CommitResynced
  PROVE  KeepsTypes
<1>1. Head(todo).frame \in InFrames /\ Tail(todo) \in Seq(Entries)
  BY EntriesTaken, EntryKinds DEF TypeOK, CommitResynced, Doing, ActorTypeOK
<1>2. CommitExpected(Head(todo).frame, gap_buffer, Tail(todo))
  BY DEF CommitResynced
<1> QED
  BY <1>1, <1>2, CommitExpectedTyped DEF TypeOK, ActorTypeOK

\* drain_gap_buffer takes the next message, or drops the ones behind.
LEMMA DrainTyped ==
  ASSUME TypeOK, DrainBuffer
  PROVE  KeepsTypes
<1> DEFINE rest == [n \in {k \in DOMAIN gap_buffer : k > next_in} |-> gap_buffer[n]]
<1>1. DOMAIN rest \subseteq Nat /\ \A n \in DOMAIN rest : rest[n] \in InFrames
  BY DEF TypeOK, ActorTypeOK
<1>2. <<Drain>> \in Seq(Entries) /\ Tail(todo) \in Seq(Entries)
  BY EntriesTaken, EntriesMade, EntriesAdded DEF DrainBuffer, Doing, TypeOK, ActorTypeOK
<1>3. CASE next_in \in DOMAIN gap_buffer
  <2>1. CommitExpected(gap_buffer[next_in], rest, <<Drain>>)
    BY <1>3 DEF DrainBuffer
  <2>2. gap_buffer[next_in] \in InFrames
    BY <1>3 DEF TypeOK, ActorTypeOK
  <2> HIDE DEF rest
  <2> QED
    BY <1>1, <1>2, <2>1, <2>2, CommitExpectedTyped
<1>4. CASE next_in \notin DOMAIN gap_buffer
  <2>1. /\ gap_buffer' = rest /\ phase' \in {"Established", phase} /\ todo' = Tail(todo)
        /\ UNCHANGED <<journal, running, counters, test_request, sent, history>>
    BY <1>4 DEF DrainBuffer
  <2> HIDE DEF rest
  <2>2. ActorTypeOK'
    BY <1>1, <1>2, <2>1 DEF TypeOK, ActorTypeOK, counters, history, Phases
  <2> QED
    BY <2>1, <2>2, JournalStays DEF KeepsTypes
<1> QED
  BY <1>3, <1>4

\* spawn_initiator takes its counters from the journal.
LEMMA ConnectTyped ==
  ASSUME TypeOK, Connect
  PROVE  KeepsTypes
<1> USE DEF TypeOK
<1>1. meta.next_out \in Nat /\ meta.next_in \in Nat /\ meta.next_event \in Nat
  BY DEF Journal!TypeOK, Journal!Meta, Journal!Counter
<1>2. Send("A", HeartBtInt, "LogonSent") \in Entries /\ Reset \in Entries
  BY EntriesMade, SessionConstants DEF Thens, Phases, AdminTypes
<1>3. todo' \in Seq(Entries)
  <2>1. PICK reset \in ResetOnLogon :
          todo' = (IF reset THEN <<Reset>> ELSE <<>>) \o <<Send("A", HeartBtInt, "LogonSent")>>
    BY DEF Connect
  <2>2. /\ (IF reset THEN <<Reset>> ELSE <<>>) \in Seq(Entries)
        /\ <<Send("A", HeartBtInt, "LogonSent")>> \in Seq(Entries)
    BY <1>2, EntriesAdded
  <2> QED
    BY <2>1, <2>2, EntriesAdded
<1>4. DOMAIN gap_buffer' = {}
  BY DEF Connect, Journal!NoRows
<1>5. sent' \in Seq(Frames) /\ running' = TRUE /\ greeted' = FALSE
  BY DEF Connect
<1>6. phase' \in Phases
  BY DEF Connect, Phases
<1>7. ActorTypeOK'
  BY <1>1, <1>3, <1>4, <1>5, <1>6 DEF Connect, ActorTypeOK
<1> QED
  BY <1>7, JournalStays DEF Connect, KeepsTypes

\* reset_sequences: the counters begin again, event ids go on.
LEMMA ResetTyped ==
  ASSUME TypeOK, ResetJournal
  PROVE  KeepsTypes
<1> USE DEF TypeOK
<1>1. meta.next_event \in Nat
  BY DEF Journal!TypeOK, Journal!Meta, Journal!Counter
<1>2. Tail(todo) \in Seq(Entries)
  BY EntriesTaken DEF ResetJournal, Doing, ActorTypeOK
<1>3. ActorTypeOK'
  BY <1>1, <1>2 DEF ResetJournal, ActorTypeOK, history
<1> QED
  BY <1>1, <1>3 DEF ResetJournal, KeepsTypes, Journal!Next

\* A write that fails may have reached the peer.
LEMMA AwaitTyped ==
  ASSUME TypeOK, AwaitFails
  PROVE  KeepsTypes
<1> USE DEF TypeOK
<1>1. "Blocked" \in Phases
  BY DEF Phases
<1>2. CASE UNCHANGED <<sent, originals>>
  BY <1>1, <1>2, StopTyped, JournalStays DEF AwaitFails, KeepsTypes, history
<1>3. CASE ~UNCHANGED <<sent, originals>>
  <2> DEFINE frame == Head(todo).frame
  <2>1. /\ sent' = Append(sent, frame) /\ frame \in Frames
        /\ originals' \in {originals, [originals EXCEPT ![frame.arg] = @ + 1]}
    BY <1>3, EntriesTaken, EntryKinds DEF AwaitFails, ActorTypeOK
  <2> HIDE DEF frame
  <2>2. sent' \in Seq(Frames)
    BY <2>1, FrameAdded DEF ActorTypeOK
  <2>3. originals' \in [Requests -> Nat]
    BY <2>1, CopiesTyped DEF ActorTypeOK
  <2>4. DOMAIN gap_buffer' = {}
    BY DEF AwaitFails, Stop, Journal!NoRows
  <2>5. /\ running' = FALSE /\ phase' = "Blocked" /\ todo' = <<>> /\ test_request' = 0
        /\ UNCHANGED <<counters, journal, greeted>>
    BY DEF AwaitFails, Stop
  <2>6. ActorTypeOK'
    BY <1>1, <2>2, <2>3, <2>4, <2>5, EntriesAdded DEF ActorTypeOK, counters
  <2> QED
    BY <2>5, <2>6, JournalStays DEF KeepsTypes
<1> QED
  BY <1>2, <1>3

\* Every step of the actor keeps the types.
LEMMA StepTyped ==
  ASSUME TypeOK, [Next]_vars
  PROVE  KeepsTypes
<1>1. CASE Proceed
  BY <1>1, CommitAdminTyped, WriteTyped, MarkTyped, JournalReplayTyped, WriteReplayTyped,
     ReplayMarkTyped, ResyncedTyped, DrainTyped, ResetTyped DEF Proceed
<1>2. CASE Local /\ ~Proceed
  <2>1. ASSUME Disconnect PROVE KeepsTypes
    <3>1. "Disconnected" \in Phases
      BY DEF Phases
    <3> QED
      BY <2>1, <3>1, StopTyped, JournalStays DEF Disconnect, TypeOK, KeepsTypes
  <2> QED
    BY <1>2, <2>1, SubmitTyped, LogoutTyped, TickTyped, ConnectTyped, AwaitTyped DEF Local
<1>3. CASE \E m \in InFrames : ReceiveFrame(m)
  BY <1>3, ReceiveTyped
<1>4. CASE RejectFrame
  BY <1>4, FatalTyped DEF RejectFrame, TypeOK
<1>5. CASE UNCHANGED vars
  BY <1>5, JournalStays DEF vars, counters, history, TypeOK, ActorTypeOK, KeepsTypes
<1> QED
  BY <1>1, <1>2, <1>3, <1>4, <1>5 DEF Next, Horizon

\* An empty journal and no actor.
LEMMA InitTyped == Init => TypeOK
<1> SUFFICES ASSUME Init PROVE TypeOK
  OBVIOUS
<1>1. DOMAIN Journal!NoRows = {}
  BY DEF Journal!NoRows
<1>2. Journal!TypeOK
  <2>1. meta \in Journal!Meta
    BY DEF Init, Journal!Init, Journal!Meta, Journal!Counter
  <2> QED
    BY <1>1, <2>1 DEF Init, Journal!Init, Journal!TypeOK
<1>3. todo \in Seq(Entries)
  BY EntriesAdded DEF Init
<1>4. sent \in Seq(Frames) /\ originals \in [Requests -> Nat] /\ phase \in Phases
  BY DEF Init, Phases
<1>5. ActorTypeOK
  BY <1>1, <1>3, <1>4 DEF Init, ActorTypeOK
<1> QED
  BY <1>2, <1>5 DEF TypeOK

\* TypeOK is inductive.
LEMMA TypeInductive == TypeOK /\ [Next]_vars => TypeOK' /\ [Journal!Next]_(Journal!vars)
<1> SUFFICES ASSUME TypeOK, [Next]_vars PROVE TypeOK' /\ [Journal!Next]_(Journal!vars)
  OBVIOUS
<1>1. ActorTypeOK' /\ [Journal!Next]_(Journal!vars)
  BY StepTyped DEF KeepsTypes
<1> QED
  BY <1>1, JournalTyped DEF TypeOK

\* TypeOK: whatever arrives and whatever fails, each entry of the worklist, each
\* frame and each row is of its type, and a range to be replayed is not empty.
THEOREM SessionTyped == Spec => []TypeOK
  BY InitTyped, TypeInductive, PTL DEF Spec

\* The actor is a client of the store as FixStore has it: each of its steps is
\* one of the store's operations with arguments of its types, or none.  What
\* FixStoreProofs says of the journal therefore holds under a session.
THEOREM JournalIsStore == Spec => Journal!Spec
<1>1. Init => Journal!Init
  BY DEF Init
<1> QED
  BY <1>1, InitTyped, TypeInductive, PTL DEF Spec, Journal!Spec

\* What FixStoreProofs shows of its journal holds for the one of a session.
LEMMA StoreHere ==
  /\ Journal!Init => Store!Init
  /\ [Journal!Next]_(Journal!vars) => [Store!Next]_(Store!vars)
<1>1. Journal!Init => Store!Init
  BY DEF Journal!Init, Journal!NoRows, Store!Init, Store!NoRows
<1>2. [Journal!Next]_(Journal!vars) => [Store!Next]_(Store!vars)
  BY SameStore DEF Journal!vars, Store!vars
<1> QED
  BY <1>1, <1>2

\* JournalContiguous and CopiesAgree, under a session: a replay finds a row for
\* every number below the counter, and what it repeats is what a retry is
\* answered from, after whatever resets, retries and failed awaits.
THEOREM SessionJournal ==
  Spec => [](Journal!JournalContiguous /\ Journal!CopiesAgree /\ Journal!InboundEventsPaired)
<1>1. Journal!Spec => Store!Spec
  BY StoreHere, PTL DEF Journal!Spec, Store!Spec
<1>2. Store!Spec => [](Store!JournalContiguous /\ Store!CopiesAgree /\ Store!InboundEventsPaired)
  BY SameStore, Store!StoreContiguous, Store!StoreCopiesAgree, Store!StoreInboundPaired, PTL
<1>3. Store!JournalContiguous => Journal!JournalContiguous
  BY DEF Store!JournalContiguous, Journal!JournalContiguous
<1>4. Store!CopiesAgree => Journal!CopiesAgree
  BY DEF Store!CopiesAgree, Journal!CopiesAgree
<1>5. Store!InboundEventsPaired => Journal!InboundEventsPaired
  BY DEF Store!InboundEventsPaired, Journal!InboundEventsPaired
<1> QED
  BY <1>1, <1>2, <1>3, <1>4, <1>5, JournalIsStore, PTL
=============================================================================
