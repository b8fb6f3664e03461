------------------------ MODULE HeartbeatTimerProofs ------------------------
(***************************************************************************)
(* Proofs about HeartbeatTimer, for every interval, every mark delay up to *)
(* it, and every horizon of the clock.                                     *)
(***************************************************************************)
EXTENDS HeartbeatTimer, TLAPS

\* An Established session is never late with its tick: time does not pass
\* over it, and who just became Established has just read a frame.
TickOnTime ==
  phase = "Established" => now <= last_inbound \/ now <= last_outbound + Interval

\* While nobody but the timer makes an idle session write, it has not written
\* after two intervals of silence without asking for a sign of life, ...
NotAskedYet ==
  phase = "Established" /\ traffic = "none" /\ deadline = 0 =>
    last_outbound < last_inbound + 2 * Interval

\* ... and once it has asked, it writes until the deadline at most.
AskedSince ==
  phase = "Established" /\ traffic = "none" /\ deadline # 0 =>
    /\ deadline <= last_inbound + 4 * Interval + 2 * MarkDelay
    /\ last_outbound <= last_inbound \/ last_outbound < deadline

\* An answer in order leaves no deadline, and only a deadline times out.
Answered ==
  /\ reply = "in_order" => deadline = 0
  /\ phase = "TimedOut" => deadline # 0

\* The inductive invariant.
TimerInv == TimerTypeOK /\ TickOnTime /\ NotAskedYet /\ AskedSince /\ Answered

\* The invariant holds of a connection that has just sent its Logon.
LEMMA TimerInitial == Init => TimerInv
  BY TimerConstants DEF Init, TimerInv, TimerTypeOK, Phases, TickOnTime,
     NotAskedYet, AskedSince, Answered

\* Every step of the actor and of the clock keeps the invariant.
LEMMA TimerInductive == TimerInv /\ [Next]_vars => TimerInv'
<1> SUFFICES ASSUME TimerInv, [Next]_vars PROVE TimerInv'
  OBVIOUS
<1> USE TimerConstants DEF TimerInv, TimerTypeOK, Phases, TickOnTime, NotAskedYet,
        AskedSince, Answered
<1>1. CASE Passes
  BY <1>1 DEF Passes, Running, Due, Acts
<1>2. ASSUME NEW delay \in Delays, NEW another \in Delays, OnTimer(delay, another)
      PROVE TimerInv'
  <2> DEFINE then == IF phase = "Established" THEN now + delay ELSE now
  <2>1. CASE deadline # 0 /\ then >= deadline
    BY <1>2, <2>1 DEF OnTimer, Delays, Due
  <2>2. CASE deadline # 0 /\ then < deadline
    BY <1>2, <2>2 DEF OnTimer, Delays, Due, Acts, Running
  <2>3. CASE deadline = 0
    BY <1>2, <2>3 DEF OnTimer, Delays, Due, Acts, Running, ResponseTimeout
  <2> QED
    BY <1>2, <2>1, <2>2, <2>3 DEF Delays
<1>3. ASSUME NEW delay \in Delays, Submit(delay)
      PROVE TimerInv'
  BY <1>3 DEF Submit, Writes, Delays
<1>4. ASSUME NEW delay \in Delays, RequestLogout(delay)
      PROVE TimerInv'
  BY <1>4 DEF RequestLogout, Writes, Delays
<1>5. ASSUME NEW delay \in Delays, ReceiveMessage(delay)
      PROVE TimerInv'
  BY <1>5 DEF ReceiveMessage, Reads, Running, Writes, Delays
<1>6. ASSUME NEW delay \in Delays, ReceiveLogout(delay)
      PROVE TimerInv'
  BY <1>6 DEF ReceiveLogout, Reads, Running, Writes, Delays
<1>7. ASSUME NEW delay \in Delays, ReceiveAhead(delay)
      PROVE TimerInv'
  BY <1>7 DEF ReceiveAhead, Reads, Running, Writes, Delays
<1>8. CASE ReceiveLogon
  BY <1>8 DEF ReceiveLogon, Reads, Running
<1>9. CASE ReceiveAnswer
  BY <1>9 DEF ReceiveAnswer, Reads, Running
<1>10. CASE ReceiveReplay
  BY <1>10 DEF ReceiveReplay, Reads, Running
<1>11. CASE Stop
  BY <1>11 DEF Stop, Running
<1>12. CASE UNCHANGED vars
  BY <1>12 DEF vars
<1> QED
  BY <1>1, <1>2, <1>3, <1>4, <1>5, <1>6, <1>7, <1>8, <1>9, <1>10, <1>11, <1>12 DEF Next

\* The clock, the phase and the deadline keep their types, and no deadline is
\* further away than an interval.
THEOREM TimerTyped == Spec => []TimerTypeOK
<1>1. TimerInv => TimerTypeOK
  BY DEF TimerInv
<1> QED
  BY <1>1, TimerInitial, TimerInductive, PTL DEF Spec

\* Silence of the counterparty ends an idle Established session within five
\* intervals and two marks, whatever else was sent or recovered before.
THEOREM SilenceIsBounded == Spec => []SilenceEnds
<1>1. TimerInv => SilenceEnds
  BY TimerConstants DEF TimerInv, TimerTypeOK, TickOnTime, NotAskedYet, AskedSince,
     SilenceEnds
<1> QED
  BY <1>1, TimerInitial, TimerInductive, PTL DEF Spec

\* A TestRequest that was answered in order is never held against the
\* counterparty.
THEOREM AnswersCount == Spec => []AnswerInOrderCounts
<1>1. TimerInv => AnswerInOrderCounts
  BY DEF TimerInv, Answered, AnswerInOrderCounts
<1> QED
  BY <1>1, TimerInitial, TimerInductive, PTL DEF Spec

\* No step of time makes an Established session stay silent for longer than
\* the heartbeat interval.
THEOREM HeartbeatsInTime == Spec => HeartbeatGap
<1>1. TimerInv /\ [Next]_vars =>
        [phase = "Established" /\ phase' = "Established" /\ now' > now
           => now' - last_outbound' <= Interval]_vars
  <2> SUFFICES ASSUME TimerInv, Next,
                      phase = "Established", phase' = "Established", now' > now
               PROVE now' - last_outbound' <= Interval
    BY DEF vars
  <2> USE TimerConstants DEF TimerInv, TimerTypeOK, Phases
  <2>1. CASE Passes
    BY <2>1 DEF Passes, Running, Due, Acts
  <2>2. ASSUME NEW delay \in Delays, NEW another \in Delays, OnTimer(delay, another)
        PROVE now' - last_outbound' <= Interval
    BY <2>2 DEF OnTimer, Delays
  <2>3. ASSUME NEW delay \in Delays,
               \/ Submit(delay) \/ RequestLogout(delay)
               \/ ReceiveMessage(delay) \/ ReceiveLogout(delay) \/ ReceiveAhead(delay)
        PROVE now' - last_outbound' <= Interval
    BY <2>3 DEF Delays, Writes, Submit, RequestLogout, ReceiveMessage, ReceiveLogout,
       ReceiveAhead
  <2>4. CASE ReceiveLogon \/ ReceiveAnswer \/ ReceiveReplay \/ Stop
    BY <2>4 DEF ReceiveLogon, ReceiveAnswer, ReceiveReplay, Stop
  <2> QED
    BY <2>1, <2>2, <2>3, <2>4 DEF Next
<1> QED
  BY <1>1, TimerInitial, TimerInductive, PTL DEF Spec, HeartbeatGap

=============================================================================
