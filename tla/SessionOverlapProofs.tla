------------------------ MODULE SessionOverlapProofs ------------------------
(***************************************************************************)
(* Theorems about two actors over one journal (SessionOverlap), for any    *)
(* requests, frames and bounds.  Without resets neither has a frame on its *)
(* wire that the journal does not hold (BothWiresJournaled); behind the    *)
(* lookup of ControlService, or without resets, the two of them keep the   *)
(* ledger of the orders together (OneLedgerKept).                          *)
(*                                                                         *)
(* FixSessionFlowProofs says what a step of an actor keeps and what it     *)
(* leaves to another one; here it is taken for each of the two.  What is   *)
(* left to say is how they stand to each other: at most one is about to    *)
(* send its Logon, two that are both up to date are never both without one *)
(* (OneLogon), and no order is at hand for both (Apart).  An actor that the*)
(* manager was told of may be back at work, but its Logon is behind it     *)
(* (PastLogon).                                                            *)
(***************************************************************************)
EXTENDS SessionOverlap, TLAPS

P1 == INSTANCE FixSessionFlowProofs WITH
  running <- running1, phase <- phase1, next_out <- next_out1,
  next_in <- next_in1, next_event <- next_event1, gap_buffer <- gap_buffer1,
  test_request <- test_request1, todo <- todo1, sent <- sent1,
  greeted <- greeted1

P2 == INSTANCE FixSessionFlowProofs WITH
  running <- running2, phase <- phase2, next_out <- next_out2,
  next_in <- next_in2, next_event <- next_event2, gap_buffer <- gap_buffer2,
  test_request <- test_request2, todo <- todo2, sent <- sent2,
  greeted <- greeted2

\* How the actors are used: behind the lookup, or without resets.
Gated == ~DirectSubmit \/ TRUE \notin ResetOnLogon

\* Each actor by itself.
Actors ==
  /\ P1!Flow /\ P1!Listed /\ P1!Counting
  /\ P2!Flow /\ P2!Listed /\ P2!Counting

\* At most one actor has its Logon to commit, and one of two that are both up
\* to date has.
OneLogon ==
  /\ ~(P1!LogonDue /\ P2!LogonDue)
  /\ running1 /\ running2 /\ P1!Position = meta.next_out /\ P2!Position = meta.next_out =>
       P1!LogonDue \/ P2!LogonDue

\* Without resets: what each actor has written or is about to write, and where
\* the two are.
Wires == P1!RowsNamed /\ P1!Wired /\ P2!Wired /\ OneLogon

\* No order is written or marked by both.
Apart == \A r \in Requests : ~(P1!IsAtHand(r) /\ P2!IsAtHand(r))

\* The orders, and the ones at hand for either actor.
Orders == P1!CopiesOK /\ P1!Handed /\ P2!Handed /\ Apart

\* An actor that has shown Disconnected never sends a Logon again.
PastLogon ==
  /\ running1 /\ told1 => phase1 # "Connecting"
  /\ running2 /\ told2 => phase2 # "Connecting"

\* The inductive invariant.
IInv ==
  /\ P1!Tables /\ Actors /\ PastLogon
  /\ TRUE \notin ResetOnLogon => Wires
  /\ Gated => Orders

-----------------------------------------------------------------------------
\* What FixSession assumes of the constants holds for either actor.
LEMMA Constants ==
  /\ P1!SessionConstants /\ P1!AgentKeysDisjoint
  /\ P2!SessionConstants /\ P2!AgentKeysDisjoint
  BY OverlapConstants
  DEF P1!SessionConstants, P1!AgentKeysDisjoint, P1!AdminTypes, P1!AdminKeys,
      P2!SessionConstants, P2!AgentKeysDisjoint, P2!AdminTypes, P2!AdminKeys,
      One!AdminTypes, One!AdminKeys

\* What is said of the journal and of the orders is the same for both.
LEMMA Shared ==
  /\ (P1!Tables <=> P2!Tables) /\ (P1!Tables' <=> P2!Tables')
  /\ (P1!RowsNamed <=> P2!RowsNamed) /\ (P1!RowsNamed' <=> P2!RowsNamed')
  /\ (P1!CopiesOK <=> P2!CopiesOK) /\ (P1!CopiesOK' <=> P2!CopiesOK')
  /\ (P1!RowsKept <=> P2!RowsKept)
<1>1. (P1!Tables <=> P2!Tables) /\ (P1!Tables' <=> P2!Tables')
  BY DEF P1!Tables, P1!TablesOK, P1!MetaOK, P1!RowsOK, P1!RowOK, P1!Frame, P1!CommandsOK, P1!CommandOK,
         P2!Tables, P2!TablesOK, P2!MetaOK, P2!RowsOK, P2!RowOK, P2!Frame, P2!CommandsOK, P2!CommandOK
<1>2. (P1!RowsNamed <=> P2!RowsNamed) /\ (P1!RowsNamed' <=> P2!RowsNamed')
  BY DEF P1!RowsNamed, P1!Row, P1!AdminKeys, P1!AdminTypes,
         P2!RowsNamed, P2!Row, P2!AdminKeys, P2!AdminTypes
<1>3. P1!RowsKept <=> P2!RowsKept
  BY DEF P1!RowsKept, P2!RowsKept
<1>4. (P1!CopiesOK <=> P2!CopiesOK) /\ (P1!CopiesOK' <=> P2!CopiesOK')
  BY DEF P1!CopiesOK, P2!CopiesOK
<1> QED
  BY <1>1, <1>2, <1>3, <1>4

\* The steps of the first actor are those the lemmas about one actor speak of.
LEMMA StepsOfOne == (One!Next <=> P1!Next) /\ One!vars = P1!vars
<1> USE DEF One!Doing, P1!Doing, One!AtSelect, P1!AtSelect, One!InBounds, P1!InBounds,
            One!CanLogout, P1!CanLogout, One!Fatal, P1!Fatal, One!Stop, P1!Stop,
            One!vars, P1!vars, One!journal, P1!journal, One!counters, P1!counters,
            One!history, P1!history, One!Frame, P1!Frame, One!Flagged, P1!Flagged,
            One!Repeated, P1!Repeated, One!Send, P1!Send, One!Write, P1!Write,
            One!Mark, P1!Mark, One!Replay, P1!Replay, One!Drain, P1!Drain,
            One!IsRetry, P1!IsRetry, One!IsRefused, P1!IsRefused, One!WriteCommitted,
            P1!WriteCommitted, One!IsOrder, P1!IsOrder, One!RangeEnd, P1!RangeEnd,
            One!Journal!NoRows, P1!Journal!NoRows, One!Journal!Inserted,
            P1!Journal!Inserted, One!Journal!NewCommand, P1!Journal!NewCommand,
            One!Journal!CommitOutbound, P1!Journal!CommitOutbound
<1>1. One!CommitAdmin <=> P1!CommitAdmin
  BY DEF One!CommitAdmin, P1!CommitAdmin, One!AdminCommit, P1!AdminCommit
<1>2. One!WriteWire <=> P1!WriteWire
  BY DEF One!WriteWire, P1!WriteWire
<1>3. One!MarkWritten <=> P1!MarkWritten
  BY DEF One!MarkWritten, P1!MarkWritten, One!Journal!MarkOutboundWritten,
         P1!Journal!MarkOutboundWritten, One!Phases, P1!Phases
<1>4. One!JournalReplay <=> P1!JournalReplay
  BY DEF One!JournalReplay, P1!JournalReplay, One!Journal!CommitTransmission,
         P1!Journal!CommitTransmission, One!ReplayFrame, P1!ReplayFrame, One!GapEnd,
         P1!GapEnd, One!ReplayEnd, P1!ReplayEnd, One!WriteReplay, P1!WriteReplay
<1>5. One!WriteReplayWire <=> P1!WriteReplayWire
  BY DEF One!WriteReplayWire, P1!WriteReplayWire, One!MarkReplay, P1!MarkReplay
<1>6. One!MarkReplayWritten <=> P1!MarkReplayWritten
  BY DEF One!MarkReplayWritten, P1!MarkReplayWritten,
         One!Journal!MarkTransmissionWritten, P1!Journal!MarkTransmissionWritten
<1>7. \A m, buffer, rest : One!CommitExpected(m, buffer, rest) <=> P1!CommitExpected(m, buffer, rest)
  BY DEF One!CommitExpected, P1!CommitExpected, One!IsAcceptable, P1!IsAcceptable,
         One!Response, P1!Response, One!PhaseAfter, P1!PhaseAfter,
         One!Journal!CommitInbound, P1!Journal!CommitInbound
<1>8. One!CommitResynced <=> P1!CommitResynced
  BY <1>7 DEF One!CommitResynced, P1!CommitResynced
<1>9. One!DrainBuffer <=> P1!DrainBuffer
  BY <1>7 DEF One!DrainBuffer, P1!DrainBuffer
<1>10. One!ResetJournal <=> P1!ResetJournal
  BY DEF One!ResetJournal, P1!ResetJournal, One!Journal!ResetSequences,
         P1!Journal!ResetSequences
<1>11. \A r, f : One!Submit(r, f) <=> P1!Submit(r, f)
  BY DEF One!Submit, P1!Submit, One!OrderCommit, P1!OrderCommit
<1>12. One!RequestLogout <=> P1!RequestLogout
  BY DEF One!RequestLogout, P1!RequestLogout
<1>13. \A expired, silent : One!Tick(expired, silent) <=> P1!Tick(expired, silent)
  BY DEF One!Tick, P1!Tick
<1>14. One!Connect <=> P1!Connect
  BY DEF One!Connect, P1!Connect, One!Reset, P1!Reset
<1>15. One!Disconnect <=> P1!Disconnect
  BY DEF One!Disconnect, P1!Disconnect
<1>16. One!AwaitFails <=> P1!AwaitFails
  BY DEF One!AwaitFails, P1!AwaitFails
<1>17. ASSUME NEW m PROVE One!ReceiveFrame(m) <=> P1!ReceiveFrame(m)
  <2>1. One!ReceiveAhead(m) <=> P1!ReceiveAhead(m)
    BY DEF One!ReceiveAhead, P1!ReceiveAhead, One!Cardinality, P1!Cardinality
  <2>2. One!ReceiveDuplicate(m) <=> P1!ReceiveDuplicate(m)
    BY DEF One!ReceiveDuplicate, P1!ReceiveDuplicate, One!Verifies, P1!Verifies
  <2>3. One!ReceiveBehind(m) <=> P1!ReceiveBehind(m)
    BY DEF One!ReceiveBehind, P1!ReceiveBehind, One!Expected, P1!Expected,
           One!Journal!ResyncInbound, P1!Journal!ResyncInbound
  <2>4. One!ReceiveExpected(m) <=> P1!ReceiveExpected(m)
    BY <1>7 DEF One!ReceiveExpected, P1!ReceiveExpected
  <2> QED
    BY <2>1, <2>2, <2>3, <2>4 DEF One!ReceiveFrame, P1!ReceiveFrame
<1>18. One!RejectFrame <=> P1!RejectFrame
  BY DEF One!RejectFrame, P1!RejectFrame
<1>19. One!Horizon <=> P1!Horizon
  BY DEF One!Horizon, P1!Horizon
<1>20. One!Local <=> P1!Local
  BY <1>1, <1>2, <1>3, <1>4, <1>5, <1>6, <1>8, <1>9, <1>10, <1>11, <1>12, <1>13,
     <1>14, <1>15, <1>16
  DEF One!Local, One!Proceed, P1!Local, P1!Proceed
<1> QED
  BY <1>20, <1>17, <1>18, <1>19 DEF One!Next, P1!Next

\* The steps of the second actor are those the lemmas about one actor speak of.
LEMMA StepsOfTwo == (Two!Next <=> P2!Next) /\ Two!vars = P2!vars
<1> USE DEF Two!Doing, P2!Doing, Two!AtSelect, P2!AtSelect, Two!InBounds, P2!InBounds,
            Two!CanLogout, P2!CanLogout, Two!Fatal, P2!Fatal, Two!Stop, P2!Stop,
            Two!vars, P2!vars, Two!journal, P2!journal, Two!counters, P2!counters,
            Two!history, P2!history, Two!Frame, P2!Frame, Two!Flagged, P2!Flagged,
            Two!Repeated, P2!Repeated, Two!Send, P2!Send, Two!Write, P2!Write,
            Two!Mark, P2!Mark, Two!Replay, P2!Replay, Two!Drain, P2!Drain,
            Two!IsRetry, P2!IsRetry, Two!IsRefused, P2!IsRefused, Two!WriteCommitted,
            P2!WriteCommitted, Two!IsOrder, P2!IsOrder, Two!RangeEnd, P2!RangeEnd,
            Two!Journal!NoRows, P2!Journal!NoRows, Two!Journal!Inserted,
            P2!Journal!Inserted, Two!Journal!NewCommand, P2!Journal!NewCommand,
            Two!Journal!CommitOutbound, P2!Journal!CommitOutbound
<1>1. Two!CommitAdmin <=> P2!CommitAdmin
  BY DEF Two!CommitAdmin, P2!CommitAdmin, Two!AdminCommit, P2!AdminCommit
<1>2. Two!WriteWire <=> P2!WriteWire
  BY DEF Two!WriteWire, P2!WriteWire
<1>3. Two!MarkWritten <=> P2!MarkWritten
  BY DEF Two!MarkWritten, P2!MarkWritten, Two!Journal!MarkOutboundWritten,
         P2!Journal!MarkOutboundWritten, Two!Phases, P2!Phases
<1>4. Two!JournalReplay <=> P2!JournalReplay
  BY DEF Two!JournalReplay, P2!JournalReplay, Two!Journal!CommitTransmission,
         P2!Journal!CommitTransmission, Two!ReplayFrame, P2!ReplayFrame, Two!GapEnd,
         P2!GapEnd, Two!ReplayEnd, P2!ReplayEnd, Two!WriteReplay, P2!WriteReplay
<1>5. Two!WriteReplayWire <=> P2!WriteReplayWire
  BY DEF Two!WriteReplayWire, P2!WriteReplayWire, Two!MarkReplay, P2!MarkReplay
<1>6. Two!MarkReplayWritten <=> P2!MarkReplayWritten
  BY DEF Two!MarkReplayWritten, P2!MarkReplayWritten,
         Two!Journal!MarkTransmissionWritten, P2!Journal!MarkTransmissionWritten
<1>7. \A m, buffer, rest : Two!CommitExpected(m, buffer, rest) <=> P2!CommitExpected(m, buffer, rest)
  BY DEF Two!CommitExpected, P2!CommitExpected, Two!IsAcceptable, P2!IsAcceptable,
         Two!Response, P2!Response, Two!PhaseAfter, P2!PhaseAfter,
         Two!Journal!CommitInbound, P2!Journal!CommitInbound
<1>8. Two!CommitResynced <=> P2!CommitResynced
  BY <1>7 DEF Two!CommitResynced, P2!CommitResynced
<1>9. Two!DrainBuffer <=> P2!DrainBuffer
  BY <1>7 DEF Two!DrainBuffer, P2!DrainBuffer
<1>10. Two!ResetJournal <=> P2!ResetJournal
  BY DEF Two!ResetJournal, P2!ResetJournal, Two!Journal!ResetSequences,
         P2!Journal!ResetSequences
<1>11. \A r, f : Two!Submit(r, f) <=> P2!Submit(r, f)
  BY DEF Two!Submit, P2!Submit, Two!OrderCommit, P2!OrderCommit
<1>12. Two!RequestLogout <=> P2!RequestLogout
  BY DEF Two!RequestLogout, P2!RequestLogout
<1>13. \A expired, silent : Two!Tick(expired, silent) <=> P2!Tick(expired, silent)
  BY DEF Two!Tick, P2!Tick
<1>14. Two!Connect <=> P2!Connect
  BY DEF Two!Connect, P2!Connect, Two!Reset, P2!Reset
<1>15. Two!Disconnect <=> P2!Disconnect
  BY DEF Two!Disconnect, P2!Disconnect
<1>16. Two!AwaitFails <=> P2!AwaitFails
  BY DEF Two!AwaitFails, P2!AwaitFails
<1>17. ASSUME NEW m PROVE Two!ReceiveFrame(m) <=> P2!ReceiveFrame(m)
  <2>1. Two!ReceiveAhead(m) <=> P2!ReceiveAhead(m)
    BY DEF Two!ReceiveAhead, P2!ReceiveAhead, Two!Cardinality, P2!Cardinality
  <2>2. Two!ReceiveDuplicate(m) <=> P2!ReceiveDuplicate(m)
    BY DEF Two!ReceiveDuplicate, P2!ReceiveDuplicate, Two!Verifies, P2!Verifies
  <2>3. Two!ReceiveBehind(m) <=> P2!ReceiveBehind(m)
    BY DEF Two!ReceiveBehind, P2!ReceiveBehind, Two!Expected, P2!Expected,
           Two!Journal!ResyncInbound, P2!Journal!ResyncInbound
  <2>4. Two!ReceiveExpected(m) <=> P2!ReceiveExpected(m)
    BY <1>7 DEF Two!ReceiveExpected, P2!ReceiveExpected
  <2> QED
    BY <2>1, <2>2, <2>3, <2>4 DEF Two!ReceiveFrame, P2!ReceiveFrame
<1>18. Two!RejectFrame <=> P2!RejectFrame
  BY DEF Two!RejectFrame, P2!RejectFrame
<1>19. Two!Horizon <=> P2!Horizon
  BY DEF Two!Horizon, P2!Horizon
<1>20. Two!Local <=> P2!Local
  BY <1>1, <1>2, <1>3, <1>4, <1>5, <1>6, <1>8, <1>9, <1>10, <1>11, <1>12, <1>13,
     <1>14, <1>15, <1>16
  DEF Two!Local, Two!Proceed, P2!Local, P2!Proceed
<1> QED
  BY <1>20, <1>17, <1>18, <1>19 DEF Two!Next, P2!Next

\* What is shown of the actors is what SessionOverlap says of them.
LEMMA SameWords ==
  /\ One!Init => P1!Init
  /\ Two!Init => P2!Init
  /\ One!WireJournaled <=> P1!WireJournaled
  /\ Two!WireJournaled <=> P2!WireJournaled
<1>1. (One!Init => P1!Init) /\ (Two!Init => P2!Init)
  BY DEF One!Init, P1!Init, One!Journal!Init, P1!Journal!Init, One!Journal!NoRows, P1!Journal!NoRows,
         Two!Init, P2!Init, Two!Journal!Init, P2!Journal!Init, Two!Journal!NoRows, P2!Journal!NoRows
<1>2. One!WireJournaled <=> P1!WireJournaled
  BY DEF One!WireJournaled, P1!WireJournaled, One!AsFirstSent, P1!AsFirstSent, One!Flagged, P1!Flagged
<1>3. Two!WireJournaled <=> P2!WireJournaled
  BY DEF Two!WireJournaled, P2!WireJournaled, Two!AsFirstSent, P2!AsFirstSent, Two!Flagged, P2!Flagged
<1> QED
  BY <1>1, <1>2, <1>3

\* And their ledger is one.
LEMMA OneBook ==
  /\ One!Init => One!Ledger!Init
  /\ [P1!Ledger!Next]_(P1!Ledger!ledger) => [One!Ledger!Next]_(One!Ledger!ledger)
  /\ [P2!Ledger!Next]_(P2!Ledger!ledger) => [One!Ledger!Next]_(One!Ledger!ledger)
<1>1. One!Init => One!Ledger!Init
  BY DEF One!Init, One!Ledger!Init, One!Journal!Init, One!Journal!NoRows
<1>2. [P1!Ledger!Next]_(P1!Ledger!ledger) => [One!Ledger!Next]_(One!Ledger!ledger)
  BY DEF P1!Ledger!Next, P1!Ledger!Accept, P1!Ledger!Transmit, P1!Ledger!Confirm, P1!Ledger!ledger,
         One!Ledger!Next, One!Ledger!Accept, One!Ledger!Transmit, One!Ledger!Confirm, One!Ledger!ledger
<1>3. [P2!Ledger!Next]_(P2!Ledger!ledger) => [One!Ledger!Next]_(One!Ledger!ledger)
  BY DEF P2!Ledger!Next, P2!Ledger!Accept, P2!Ledger!Transmit, P2!Ledger!Confirm, P2!Ledger!ledger,
         One!Ledger!Next, One!Ledger!Accept, One!Ledger!Transmit, One!Ledger!Confirm, One!Ledger!ledger
<1> QED
  BY <1>1, <1>2, <1>3

-----------------------------------------------------------------------------
\* A step beside the second actor leaves it what it has.
LEMMA SecondStays ==
  ASSUME UNCHANGED actor2, P2!Flow, P2!Listed, P2!Counting
  PROVE  /\ P2!Flow' /\ P2!Listed' /\ P2!Counting'
         /\ P2!Position' = P2!Position /\ (P2!LogonDue' <=> P2!LogonDue)
         /\ \A r \in Requests : P2!IsAtHand(r)' <=> P2!IsAtHand(r)
<1> USE DEF actor2
<1>1. P2!Flow'
  BY DEF P2!Flow, P2!Shaped, P2!Lively, P2!NoGap, P2!Ahead, P2!Keyed, P2!Opening, P2!Sending,
         P2!Draining
<1>2. P2!Listed' /\ P2!Counting'
  BY DEF P2!Listed, P2!Counting
<1>3. P2!Position' = P2!Position /\ (P2!LogonDue' <=> P2!LogonDue)
  BY DEF P2!Position, P2!LogonDue, P2!InFlight, P2!Doing
<1>4. \A r \in Requests : P2!IsAtHand(r)' <=> P2!IsAtHand(r)
  BY DEF P2!IsAtHand, P2!InFlight, P2!Doing
<1> QED
  BY <1>1, <1>2, <1>3, <1>4

\* What a step of the first actor is, for the lemmas about one actor.
OneActs ==
  /\ [P1!Next]_(P1!vars)
  /\ ~running1 /\ running1' => GivenUp(running2, told2)
  /\ told1' = Told(told1, running1, running1', phase1') \/ UNCHANGED <<P1!vars, told1>>
  /\ UNCHANGED <<actor2, told2>>

\* A step of the first actor keeps the tables and either actor by itself.
LEMMA OneKeeps ==
  ASSUME P1!Tables, Actors, PastLogon, OneActs
  PROVE  P1!Tables' /\ Actors' /\ PastLogon' /\ (P1!Moves \/ UNCHANGED P1!vars)
<1> USE DEF Actors, OneActs
<1>1. P1!MetaOK
  BY DEF P1!Tables, P1!TablesOK
<1>2. P1!Moves \/ UNCHANGED P1!vars
  BY <1>1, P1!StepMoves, Constants
<1>3. P1!Tables'
  BY <1>2, P1!TablesKept, Constants
<1>4. P1!Flow' /\ P1!LifeStep
  BY P1!FlowInductive, Constants
<1>5. P1!Listed' /\ P1!Counting'
  BY <1>2, P1!ListedKept, Constants
<1>6. running1' /\ told1' => phase1' # "Connecting"
  <2>1. CASE UNCHANGED <<P1!vars, told1>>
    BY <2>1 DEF PastLogon, P1!vars
  <2>2. CASE told1' = Told(told1, running1, running1', phase1')
    <3> SUFFICES ASSUME running1', told1' PROVE phase1' # "Connecting"
      OBVIOUS
    <3>1. phase1' = "Disconnected" \/ (running1 /\ told1)
      BY <2>2 DEF Told
    <3>2. ASSUME running1, told1 PROVE phase1' # "Connecting"
      BY <1>4, <3>2, P1!LifeAfter, Constants DEF PastLogon
    <3> QED
      BY <3>1, <3>2
  <2> QED
    BY <2>1, <2>2
<1>7. PastLogon'
  BY <1>6 DEF PastLogon, actor2
<1> QED
  BY <1>2, <1>3, <1>4, <1>5, <1>7, SecondStays

\* A step of the first actor without resets: both wires and places.
LEMMA OneWires ==
  ASSUME TRUE \notin ResetOnLogon, P1!Tables, Actors, PastLogon, Wires, OneActs
  PROVE  Wires'
<1> USE DEF Actors, OneActs, Wires
<1>1. P1!Tables' /\ (P1!Moves \/ UNCHANGED P1!vars)
  BY OneKeeps
<1>2. P1!RowsNamed' /\ P1!Wired' /\ P1!RowsKept /\ P1!Goes
  BY <1>1, P1!WiredKept, Constants DEF P1!NoResets
<1>3. P2!Tables /\ P2!RowsKept
  BY <1>2, Shared
<1>4. UNCHANGED <<running2, next_out2, todo2, sent2>>
  BY DEF actor2
<1>5. \/ meta'.next_out = meta.next_out
      \/ /\ meta'.next_out = meta.next_out + 1
         /\ running2 /\ P2!Position = meta.next_out =>
              /\ meta.next_out \in DOMAIN outbound'
              /\ outbound'[meta.next_out].wire.type = "A" <=> ~P2!LogonDue
  BY <1>2 DEF P1!Goes, OneLogon
<1>6. P2!Wired'
  BY <1>3, <1>4, <1>5, P2!WiredBeside, Constants
<1>7. /\ P2!Position' = P2!Position /\ (P2!LogonDue' <=> P2!LogonDue)
      /\ running2' = running2
  BY SecondStays DEF actor2
<1>8. ~running1 /\ running1' => ~P2!LogonDue
  BY P2!DueConnecting, Constants DEF GivenUp, PastLogon
<1>9. OneLogon'
  <2>1. ~running1' => ~P1!LogonDue'
    BY DEF P1!LogonDue, P1!Doing
  <2>2. CASE meta'.next_out = meta.next_out /\ running1 /\ running1'
    <3>1. meta.next_out \in Nat
      BY DEF P1!Tables, P1!TablesOK, P1!MetaOK
    <3>2. P1!Position' = P1!Position /\ (P1!LogonDue' <=> P1!LogonDue)
      BY <1>2, <2>2, <3>1 DEF P1!Goes
    <3> QED
      BY <1>7, <2>2, <3>2 DEF OneLogon
  <2>3. CASE ~running1 /\ running1'
    BY <1>2, <1>7, <1>8, <2>3 DEF P1!Goes, OneLogon
  <2>4. CASE meta'.next_out = meta.next_out /\ ~running1'
    BY <1>7, <2>1, <2>4 DEF OneLogon
  <2>5. CASE running1 /\ running1' /\ meta'.next_out = meta.next_out + 1
    <3>1. meta.next_out \in Nat
      BY DEF P1!Tables, P1!TablesOK, P1!MetaOK
    <3>2. running2 => P2!Position \in Nat /\ P2!Position <= meta.next_out
      BY DEF P2!Wired, P2!Place, P2!Position, P2!Counting
    <3>3. ~P1!LogonDue'
      BY <1>2, <2>5, <3>1 DEF P1!Goes
    <3>4. running2 => P2!Position' # meta'.next_out
      BY <1>7, <2>5, <3>1, <3>2
    <3> QED
      BY <1>7, <3>3, <3>4 DEF OneLogon
  <2> QED
    BY <1>2, <2>2, <2>3, <2>4, <2>5 DEF P1!Goes
<1> QED
  BY <1>2, <1>6, <1>9

\* A step of the first actor leaves the second the order it has at hand, and is
\* one of the ledger.
LEMMA OneOrders ==
  ASSUME P1!Tables, Actors, PastLogon, TRUE \notin ResetOnLogon => Wires, Gated, Orders, OneActs
  PROVE  Orders' /\ [P1!Ledger!Next]_(P1!Ledger!ledger)
<1> USE DEF Actors, OneActs, Orders
<1>1. P1!Moves \/ UNCHANGED P1!vars
  BY OneKeeps
<1>2. ~DirectSubmit \/ ~P1!Repeats
  BY P1!NeverRepeats, Constants DEF Gated, Wires, P1!Wired
<1>3. P1!CopiesOK' /\ P1!Handed' /\ P1!Leaves /\ [P1!Ledger!Next]_(P1!Ledger!ledger)
  BY <1>1, <1>2, P1!HandedKept, Constants
<1>4. ASSUME NEW r \in Requests, r \in DOMAIN commands, P2!IsAtHand(r)
      PROVE  r \in DOMAIN commands' /\ commands'[r] = commands[r] /\ originals'[r] = originals[r]
  BY <1>3, <1>4 DEF Apart, P1!Leaves
<1>5. P2!Handed'
  <2>1. UNCHANGED <<running2, todo2>>
    BY DEF actor2
  <2> QED
    BY <1>4, <2>1, P2!HandedBeside, Constants
<1>6. ASSUME NEW r \in Requests, P2!IsAtHand(r)
      PROVE  r \in DOMAIN commands
  BY <1>6 DEF P2!IsAtHand, P2!InFlight, P2!Doing, P2!Handed, P2!Booked
<1>7. Apart'
  BY <1>3, <1>6, SecondStays DEF Apart, P1!Leaves
<1> QED
  BY <1>3, <1>5, <1>7

-----------------------------------------------------------------------------
\* A step beside the first actor leaves it what it has.
LEMMA FirstStays ==
  ASSUME UNCHANGED actor1, P1!Flow, P1!Listed, P1!Counting
  PROVE  /\ P1!Flow' /\ P1!Listed' /\ P1!Counting'
         /\ P1!Position' = P1!Position /\ (P1!LogonDue' <=> P1!LogonDue)
         /\ \A r \in Requests : P1!IsAtHand(r)' <=> P1!IsAtHand(r)
<1> USE DEF actor1
<1>1. P1!Flow'
  BY DEF P1!Flow, P1!Shaped, P1!Lively, P1!NoGap, P1!Ahead, P1!Keyed, P1!Opening, P1!Sending,
         P1!Draining
<1>2. P1!Listed' /\ P1!Counting'
  BY DEF P1!Listed, P1!Counting
<1>3. P1!Position' = P1!Position /\ (P1!LogonDue' <=> P1!LogonDue)
  BY DEF P1!Position, P1!LogonDue, P1!InFlight, P1!Doing
<1>4. \A r \in Requests : P1!IsAtHand(r)' <=> P1!IsAtHand(r)
  BY DEF P1!IsAtHand, P1!InFlight, P1!Doing
<1> QED
  BY <1>1, <1>2, <1>3, <1>4

\* What a step of the second actor is, for the lemmas about one actor.
TwoActs ==
  /\ [P2!Next]_(P2!vars)
  /\ ~running2 /\ running2' => GivenUp(running1, told1)
  /\ told2' = Told(told2, running2, running2', phase2') \/ UNCHANGED <<P2!vars, told2>>
  /\ UNCHANGED <<actor1, told1>>

\* A step of the second actor keeps the tables and either actor by itself.
LEMMA TwoKeeps ==
  ASSUME P1!Tables, Actors, PastLogon, TwoActs
  PROVE  P1!Tables' /\ Actors' /\ PastLogon' /\ (P2!Moves \/ UNCHANGED P2!vars)
<1> USE DEF Actors, TwoActs
<1> P2!Tables
  BY Shared
<1>1. P2!MetaOK
  BY DEF P2!Tables, P2!TablesOK
<1>2. P2!Moves \/ UNCHANGED P2!vars
  BY <1>1, P2!StepMoves, Constants
<1>3. P2!Tables'
  BY <1>2, P2!TablesKept, Constants
<1>4. P2!Flow' /\ P2!LifeStep
  BY P2!FlowInductive, Constants
<1>5. P2!Listed' /\ P2!Counting'
  BY <1>2, P2!ListedKept, Constants
<1>6. running2' /\ told2' => phase2' # "Connecting"
  <2>1. CASE UNCHANGED <<P2!vars, told2>>
    BY <2>1 DEF PastLogon, P2!vars
  <2>2. CASE told2' = Told(told2, running2, running2', phase2')
    <3> SUFFICES ASSUME running2', told2' PROVE phase2' # "Connecting"
      OBVIOUS
    <3>1. phase2' = "Disconnected" \/ (running2 /\ told2)
      BY <2>2 DEF Told
    <3>2. ASSUME running2, told2 PROVE phase2' # "Connecting"
      BY <1>4, <3>2, P2!LifeAfter, Constants DEF PastLogon
    <3> QED
      BY <3>1, <3>2
  <2> QED
    BY <2>1, <2>2
<1>7. PastLogon'
  BY <1>6 DEF PastLogon, actor1
<1> QED
  BY <1>2, <1>3, <1>4, <1>5, <1>7, FirstStays, Shared

\* A step of the second actor without resets: both wires and places.
LEMMA TwoWires ==
  ASSUME TRUE \notin ResetOnLogon, P1!Tables, Actors, PastLogon, Wires, TwoActs
  PROVE  Wires'
<1> USE DEF Actors, TwoActs, Wires
<1> P2!Tables /\ P2!RowsNamed
  BY Shared
<1>1. P1!Tables' /\ P2!Tables' /\ (P2!Moves \/ UNCHANGED P2!vars)
  BY TwoKeeps, Shared
<1>2. P2!RowsNamed' /\ P2!Wired' /\ P2!RowsKept /\ P2!Goes
  BY <1>1, P2!WiredKept, Constants DEF P2!NoResets
<1>3. P1!Tables /\ P1!RowsKept
  BY <1>2, Shared
<1>4. UNCHANGED <<running1, next_out1, todo1, sent1>>
  BY DEF actor1
<1>5. \/ meta'.next_out = meta.next_out
      \/ /\ meta'.next_out = meta.next_out + 1
         /\ running1 /\ P1!Position = meta.next_out =>
              /\ meta.next_out \in DOMAIN outbound'
              /\ outbound'[meta.next_out].wire.type = "A" <=> ~P1!LogonDue
  BY <1>2 DEF P2!Goes, OneLogon
<1>6. P1!Wired'
  BY <1>3, <1>4, <1>5, P1!WiredBeside, Constants
<1>7. /\ P1!Position' = P1!Position /\ (P1!LogonDue' <=> P1!LogonDue)
      /\ running1' = running1
  BY FirstStays DEF actor1
<1>8. ~running2 /\ running2' => ~P1!LogonDue
  BY P1!DueConnecting, Constants DEF GivenUp, PastLogon
<1>9. OneLogon'
  <2>1. ~running2' => ~P2!LogonDue'
    BY DEF P2!LogonDue, P2!Doing
  <2>2. CASE meta'.next_out = meta.next_out /\ running2 /\ running2'
    <3>1. meta.next_out \in Nat
      BY DEF P2!Tables, P2!TablesOK, P2!MetaOK
    <3>2. P2!Position' = P2!Position /\ (P2!LogonDue' <=> P2!LogonDue)
      BY <1>2, <2>2, <3>1 DEF P2!Goes
    <3> QED
      BY <1>7, <2>2, <3>2 DEF OneLogon
  <2>3. CASE ~running2 /\ running2'
    BY <1>2, <1>7, <1>8, <2>3 DEF P2!Goes, OneLogon
  <2>4. CASE meta'.next_out = meta.next_out /\ ~running2'
    BY <1>7, <2>1, <2>4 DEF OneLogon
  <2>5. CASE running2 /\ running2' /\ meta'.next_out = meta.next_out + 1
    <3>1. meta.next_out \in Nat
      BY DEF P2!Tables, P2!TablesOK, P2!MetaOK
    <3>2. running1 => P1!Position \in Nat /\ P1!Position <= meta.next_out
      BY DEF P1!Wired, P1!Place, P1!Position, P1!Counting
    <3>3. ~P2!LogonDue'
      BY <1>2, <2>5, <3>1 DEF P2!Goes
    <3>4. running1 => P1!Position' # meta'.next_out
      BY <1>7, <2>5, <3>1, <3>2
    <3> QED
      BY <1>7, <3>3, <3>4 DEF OneLogon
  <2> QED
    BY <1>2, <2>2, <2>3, <2>4, <2>5 DEF P2!Goes
<1> QED
  BY <1>2, <1>6, <1>9, Shared

\* A step of the second actor leaves the first the order it has at hand, and is
\* one of the ledger.
LEMMA TwoOrders ==
  ASSUME P1!Tables, Actors, PastLogon, TRUE \notin ResetOnLogon => Wires, Gated, Orders, TwoActs
  PROVE  Orders' /\ [P2!Ledger!Next]_(P2!Ledger!ledger)
<1> USE DEF Actors, TwoActs, Orders
<1> P2!Tables /\ P2!CopiesOK
  BY Shared
<1>1. P2!Moves \/ UNCHANGED P2!vars
  BY TwoKeeps
<1>2. ~DirectSubmit \/ ~P2!Repeats
  BY P2!NeverRepeats, Shared, Constants DEF Gated, Wires, P2!Wired
<1>3. P2!CopiesOK' /\ P2!Handed' /\ P2!Leaves /\ [P2!Ledger!Next]_(P2!Ledger!ledger)
  BY <1>1, <1>2, P2!HandedKept, Constants
<1>4. ASSUME NEW r \in Requests, r \in DOMAIN commands, P1!IsAtHand(r)
      PROVE  r \in DOMAIN commands' /\ commands'[r] = commands[r] /\ originals'[r] = originals[r]
  BY <1>3, <1>4 DEF Apart, P2!Leaves
<1>5. P1!Handed'
  <2>1. UNCHANGED <<running1, todo1>>
    BY DEF actor1
  <2> QED
    BY <1>4, <2>1, P1!HandedBeside, Constants
<1>6. ASSUME NEW r \in Requests, P1!IsAtHand(r)
      PROVE  r \in DOMAIN commands
  BY <1>6 DEF P1!IsAtHand, P1!InFlight, P1!Doing, P1!Handed, P1!Booked
<1>7. Apart'
  BY <1>3, <1>6, FirstStays DEF Apart, P2!Leaves
<1> QED
  BY <1>3, <1>5, <1>7, Shared

-----------------------------------------------------------------------------
\* A step of SessionOverlap is one of either actor.
LEMMA Acts ==
  ASSUME [Next]_vars
  PROVE  OneActs \/ TwoActs
<1>1. CASE StepOfOne
  BY <1>1, StepsOfOne DEF StepOfOne, OneActs
<1>2. CASE StepOfTwo
  BY <1>2, StepsOfTwo DEF StepOfTwo, TwoActs
<1>3. CASE UNCHANGED vars
  BY <1>3 DEF vars, shared, actor1, told, OneActs, P1!vars, P1!journal, P1!counters, P1!history
<1> QED
  BY <1>1, <1>2, <1>3 DEF Next

\* No actor runs at the start.
LEMMA IInvInitial == Init => IInv
<1> SUFFICES ASSUME Init PROVE IInv
  OBVIOUS
<1>1. P1!Init /\ P2!Init
  BY SameWords DEF Init
<1>2. /\ P1!Flow /\ P1!Tables /\ P1!RowsNamed /\ P1!Listed /\ P1!Counting
      /\ P1!Wired /\ P1!CopiesOK /\ P1!Handed /\ ~running1
  BY <1>1, P1!SharedInitial, P1!FlowInitial, Constants
<1>3. /\ P2!Flow /\ P2!Listed /\ P2!Counting
      /\ P2!Wired /\ P2!Handed /\ ~running2
  BY <1>1, P2!SharedInitial, P2!FlowInitial, Constants
<1>4. OneLogon /\ Apart
  BY <1>2, <1>3 DEF OneLogon, Apart, P1!LogonDue, P1!IsAtHand, P1!InFlight, P1!Doing
<1>5. PastLogon
  BY <1>2, <1>3 DEF PastLogon
<1> QED
  BY <1>2, <1>3, <1>4, <1>5 DEF IInv, Actors, Wires, Orders

\* Every step keeps the invariant, and is one of the ledger.
LEMMA IInvInductive ==
  IInv /\ [Next]_vars => IInv' /\ (Gated => [One!Ledger!Next]_(One!Ledger!ledger))
<1> SUFFICES ASSUME IInv, [Next]_vars
             PROVE  IInv' /\ (Gated => [One!Ledger!Next]_(One!Ledger!ledger))
  OBVIOUS
<1> USE DEF IInv
<1>1. CASE OneActs
  BY <1>1, OneKeeps, OneWires, OneOrders, OneBook DEF Gated
<1>2. CASE TwoActs
  BY <1>2, TwoKeeps, TwoWires, TwoOrders, OneBook DEF Gated
<1> QED
  BY <1>1, <1>2, Acts

\* BothJournaled: however the two actors take turns, CommitOutbound journals
\* each frame before it is written, and refuses the one that comes with a number
\* the other has taken.
THEOREM BothWiresJournaled ==
  ASSUME TRUE \notin ResetOnLogon
  PROVE  Spec => []BothJournaled
<1>1. IInv => BothJournaled
  BY SameWords DEF IInv, Wires, P1!Wired, P2!Wired, BothJournaled
<1> QED
  BY <1>1, IInvInitial, IInvInductive, PTL DEF Spec

\* OneLedger: an order that one actor has journaled, written or marked is none
\* that the other takes up, since its request is known then and its number gone.
THEOREM OneLedgerKept ==
  ASSUME Gated
  PROVE  Spec => OneLedger
<1>1. Init => One!Ledger!Init
  BY OneBook DEF Init
<1> QED
  BY <1>1, IInvInitial, IInvInductive, PTL DEF Spec, OneLedger, One!OrdersKeepTheLedger, One!Ledger!Spec
=============================================================================
