--------------------------- MODULE HeartbeatTimer ---------------------------
(***************************************************************************)
(* The clock of one connection of the session actor: the only timer of     *)
(* SessionActor::run is due at last_outbound + heartbeat_interval and does *)
(* three things there (heartbeat, TestRequest, its deadline).  FixSession  *)
(* lets a tick come at any time with any deadline passed or not; here the  *)
(* clock decides.                                                          *)
(*                                                                         *)
(* Abstractions: of a frame only its type, and whether it is expected or   *)
(* ahead of next_in; the actor works off what it has in no time, except    *)
(* that the mark after the write of a frame takes up to MarkDelay; where   *)
(* the timer is due and has nothing to do, the select loop spins, which is *)
(* no step here.                                                           *)
(*                                                                         *)
(* A definition marked Mutant is a faulty variant of the one after it.     *)
(***************************************************************************)
EXTENDS Integers

CONSTANTS
  Interval,   \* heartbeat_interval
  MarkDelay,  \* the longest MarkOutboundWritten
  MaxTime     \* bound: where the clock stops

ASSUME TimerConstants ==
  /\ Interval \in Nat \ {0}
  /\ MarkDelay \in Nat /\ MarkDelay <= Interval
  /\ MaxTime \in Nat

VARIABLES
  now,            \* Instant::now
  phase,          \* SessionPhase, "TimedOut" or "Stopped" when run has returned
  last_outbound,  \* when the last frame was written
  last_inbound,   \* when the last frame was read
  deadline,       \* of the outstanding TestRequest, 0 if there is none
  reply,          \* history: what became of the answer to that TestRequest
  traffic         \* history: "commands" if one made the actor write since last_inbound

vars == <<now, phase, last_outbound, last_inbound, deadline, reply, traffic>>

Phases == {"LogonSent", "Established", "Recovering", "LogoutSent",
           "Disconnected", "TimedOut", "Stopped"}
Running == phase \notin {"TimedOut", "Stopped"}
CanLogout == phase \in {"LogonSent", "Established", "Recovering"}

\* write_wire, then a mark that takes so long.
Writes(delay) == last_outbound' = now /\ now' = now + delay

(***************************************************************************)
(* The timer.                                                              *)
(***************************************************************************)
\* Mutant: a ticker of its own, as it was before.
DueEveryInterval == now % Interval = 0 /\ now > last_outbound

Due == now >= last_outbound + Interval

Acts == phase = "Established" \/ (deadline # 0 /\ now >= deadline)

\* Mutant: the counterparty gets as long as it was silent.
ResponseTimeoutDouble == 2 * Interval

ResponseTimeout == Interval

\* Mutant: an unanswered TestRequest is repeated.
OnTimerAskingAgain(delay, another) ==
  /\ Running /\ Due /\ phase = "Established" /\ now < MaxTime
  /\ LET then == now + delay
     IN  IF then - last_inbound >= 2 * Interval
         THEN /\ last_outbound' = then /\ now' = then + another
              /\ deadline' = then + another + ResponseTimeout /\ reply' = "none"
         ELSE /\ last_outbound' = now /\ now' = then
              /\ UNCHANGED <<deadline, reply>>
  /\ UNCHANGED <<phase, last_inbound, traffic>>

\* A heartbeat if Established; then the deadline of the TestRequest, or a
\* TestRequest if nothing came for two intervals.  The deadline counts from
\* after the mark.  (last_outbound is the write of what was sent last.)
OnTimer(delay, another) ==
  /\ Running /\ Due /\ Acts /\ now < MaxTime
  /\ LET established == phase = "Established"
         then == IF established THEN now + delay ELSE now
         silent == established /\ then - last_inbound >= 2 * Interval
     IN  \/ /\ deadline # 0 /\ then >= deadline
            /\ phase' = "TimedOut" /\ now' = then
            /\ UNCHANGED <<last_outbound, deadline, reply>>
         \/ /\ deadline # 0 /\ then < deadline
            /\ last_outbound' = now /\ now' = then
            /\ UNCHANGED <<phase, deadline, reply>>
         \/ /\ deadline = 0 /\ silent
            /\ last_outbound' = then
            /\ now' = then + another
            /\ deadline' = then + another + ResponseTimeout
            /\ reply' = "none"
            /\ UNCHANGED phase
         \/ /\ deadline = 0 /\ ~silent
            /\ last_outbound' = now /\ now' = then
            /\ UNCHANGED <<phase, deadline, reply>>
  /\ UNCHANGED <<last_inbound, traffic>>

\* The timer goes off when it is due.
Passes ==
  /\ now < MaxTime
  /\ ~(Running /\ Due /\ Acts)
  /\ now' = now + 1
  /\ UNCHANGED <<phase, last_outbound, last_inbound, deadline, reply, traffic>>

(***************************************************************************)
(* Commands.                                                               *)
(***************************************************************************)
Submit(delay) ==
  /\ phase = "Established" /\ now < MaxTime
  /\ Writes(delay)
  /\ traffic' = "commands"
  /\ UNCHANGED <<phase, last_inbound, deadline, reply>>

RequestLogout(delay) ==
  /\ CanLogout /\ now < MaxTime
  /\ Writes(delay)
  /\ phase' = "LogoutSent"
  /\ traffic' = "commands"
  /\ UNCHANGED <<last_inbound, deadline, reply>>

(***************************************************************************)
(* handle_inbound: any frame counts as a sign of life.                     *)
(***************************************************************************)
Reads == Running /\ now < MaxTime /\ last_inbound' = now /\ traffic' = "none"

\* The Logon response, a message that wants no answer, or one that does.
ReceiveLogon ==
  /\ Reads
  /\ phase' = IF phase = "LogonSent" THEN "Established" ELSE phase
  /\ UNCHANGED <<now, last_outbound, deadline, reply>>

ReceiveMessage(delay) ==
  /\ Reads
  /\ Writes(delay) \/ UNCHANGED <<now, last_outbound>>
  /\ UNCHANGED <<phase, deadline, reply>>

\* Mutant: only an Established session takes the answer.
ReceiveAnswerIfEstablished ==
  /\ Reads
  /\ deadline # 0 /\ reply = "none"
  /\ deadline' = IF phase = "Established" THEN 0 ELSE deadline
  /\ reply' = "in_order"
  /\ UNCHANGED <<now, phase, last_outbound>>

\* The answer to the TestRequest at next_in, while Recovering as well.
ReceiveAnswer ==
  /\ Reads
  /\ deadline # 0 /\ reply = "none"
  /\ deadline' = 0 /\ reply' = "in_order"
  /\ UNCHANGED <<now, phase, last_outbound>>

\* A Logout is answered unless it is the answer, or may not be sent any more.
ReceiveLogout(delay) ==
  /\ Reads
  /\ \/ CanLogout /\ Writes(delay) /\ phase' = "Disconnected"
     \/ /\ phase = "LogoutSent" /\ phase' = "Disconnected"
        /\ UNCHANGED <<now, last_outbound>>
     \/ /\ phase = "Disconnected" /\ phase' = "Stopped"
        /\ UNCHANGED <<now, last_outbound>>
  /\ UNCHANGED <<deadline, reply>>

\* A frame ahead of next_in, perhaps the answer, goes to the gap buffer, and
\* the gap is asked for in any phase but Recovering.
ReceiveAhead(delay) ==
  /\ Reads
  /\ phase' = "Recovering"
  /\ IF phase = "Recovering" THEN UNCHANGED <<now, last_outbound>> ELSE Writes(delay)
  /\ \/ UNCHANGED reply
     \/ deadline # 0 /\ reply = "none" /\ reply' = "buffered"
  /\ UNCHANGED deadline

\* The gap moves or closes: a buffered answer is then processed, or a gap fill
\* went past it, or it is still ahead.
ReceiveReplay ==
  /\ Reads /\ phase = "Recovering"
  /\ \/ reply # "buffered" /\ phase' \in {"Recovering", "Established"} /\ UNCHANGED <<deadline, reply>>
     \/ reply = "buffered" /\ phase' = "Recovering" /\ UNCHANGED <<deadline, reply>>
     \/ /\ reply = "buffered" /\ phase' \in {"Recovering", "Established"}
        /\ reply' = "in_order" /\ deadline' = 0
     \/ /\ reply = "buffered" /\ phase' \in {"Recovering", "Established"}
        /\ reply' = "dropped" /\ UNCHANGED deadline
  /\ UNCHANGED <<now, last_outbound>>

\* The stream ends, no handle is left, or an error.
Stop ==
  /\ Running
  /\ phase' = "Stopped"
  /\ UNCHANGED <<now, last_outbound, last_inbound, deadline, reply, traffic>>

Init ==
  /\ now = 0 /\ last_outbound = 0 /\ last_inbound = 0
  /\ phase = "LogonSent"
  /\ deadline = 0 /\ reply = "none"
  /\ traffic = "none"

Delays == 0..MarkDelay

Next ==
  \/ Passes
  \/ \E delay, another \in Delays : OnTimer(delay, another)
  \/ \E delay \in Delays :
       \/ Submit(delay) \/ RequestLogout(delay)
       \/ ReceiveMessage(delay) \/ ReceiveLogout(delay) \/ ReceiveAhead(delay)
  \/ ReceiveLogon \/ ReceiveAnswer \/ ReceiveReplay
  \/ Stop

Spec == Init /\ [][Next]_vars

(***************************************************************************)
(* Properties.                                                             *)
(***************************************************************************)
\* Everything is well typed; a deadline is never further away than an interval.
TimerTypeOK ==
  /\ now \in Nat /\ now <= MaxTime + 2 * MarkDelay
  /\ phase \in Phases
  /\ last_outbound \in Nat /\ last_outbound <= now
  /\ last_inbound \in Nat /\ last_inbound <= now
  /\ deadline \in Nat /\ deadline <= now + Interval
  /\ reply \in {"none", "in_order", "buffered", "dropped"}
  /\ traffic \in {"none", "commands"}

\* While the session is Established the counterparty never waits longer than
\* the interval for a frame, whatever is sent between the ticks, and however
\* old the last frame was when a recovery ended.
HeartbeatGap ==
  [][phase = "Established" /\ phase' = "Established" /\ now' > now
       => now' - last_outbound' <= Interval]_vars

\* An idle session whose counterparty has gone silent ends: the TestRequest
\* goes out in the third interval of silence, and its deadline, which counts
\* from after the mark, may just miss the tick in the fourth.
SilenceEnds ==
  phase = "Established" /\ traffic = "none" => now - last_inbound <= 5 * Interval + 2 * MarkDelay

\* A counterparty that answers the TestRequest in order before the deadline
\* was checked is not timed out, recovering or not; one whose answer lies
\* behind a gap may be.
AnswerInOrderCounts == phase = "TimedOut" => reply # "in_order"

\* pure-rust-mvp-spec.md:80: nothing received for two intervals leads to a
\* TestRequest.  (A third interval and the marks are granted.)
SilenceIsNoticed ==
  phase = "Established" /\ now - last_inbound > 3 * Interval + 2 * MarkDelay => deadline # 0
=============================================================================
