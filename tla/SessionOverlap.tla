--------------------------- MODULE SessionOverlap ---------------------------
(***************************************************************************)
(* Two session actors over one journal.  run_connection_manager turns to   *)
(* the next connection once it has been told Disconnected, by an event or  *)
(* by a status, and what it was told may be long past: it drops its handle,*)
(* sleeps, connects and spawns, and does not look again.  After a Logout   *)
(* that phase is shown by an actor that still works.  As long as a client  *)
(* has its handle, or frames of the same read are left, it sends, journals *)
(* and answers; a frame ahead of next_in takes it back to Recovering, and  *)
(* the end of the gap to Established, where it takes orders again.         *)
(*                                                                         *)
(* Each actor is FixSession with variables of its own; journal, orders and *)
(* what became of them are common.                                         *)
(***************************************************************************)
EXTENDS Integers, Sequences, FiniteSets

CONSTANTS
  Requests, Fingerprints, NoClOrdId, InFrames, HeartBtInt, GapLimit,
  ResetOnLogon, DirectSubmit, MaxOut, MaxEvent   \* as in FixSession

VARIABLES
  meta, commands, outbound, transmissions, inbound, events, originals,
  running1, phase1, next_out1, next_in1, next_event1, gap_buffer1,
  test_request1, todo1, sent1, greeted1,
  running2, phase2, next_out2, next_in2, next_event2, gap_buffer2,
  test_request2, todo2, sent2, greeted2,
  told1, told2  \* the actor that runs has shown Disconnected since its start

shared == <<meta, commands, outbound, transmissions, inbound, events, originals>>
actor1 == <<running1, phase1, next_out1, next_in1, next_event1, gap_buffer1,
            test_request1, todo1, sent1, greeted1>>
actor2 == <<running2, phase2, next_out2, next_in2, next_event2, gap_buffer2,
            test_request2, todo2, sent2, greeted2>>
told == <<told1, told2>>
vars == <<shared, actor1, actor2, told>>

One == INSTANCE FixSession WITH
  running <- running1, phase <- phase1, next_out <- next_out1,
  next_in <- next_in1, next_event <- next_event1, gap_buffer <- gap_buffer1,
  test_request <- test_request1, todo <- todo1, sent <- sent1,
  greeted <- greeted1

\* What FixSession assumes of the same constants.
ASSUME OverlapConstants ==
  /\ InFrames \subseteq [type : One!AdminTypes \cup {"4", "4-reset", "8"}, seq : Nat,
                         possdup : BOOLEAN, arg : Nat, end : Nat]
  /\ HeartBtInt \in Nat /\ GapLimit \in Nat
  /\ ResetOnLogon \subseteq BOOLEAN /\ DirectSubmit \in BOOLEAN
  /\ MaxOut \in Nat /\ MaxEvent \in Nat
  /\ Requests \cap One!AdminKeys = {} /\ NoClOrdId \notin Requests

Two == INSTANCE FixSession WITH
  running <- running2, phase <- phase2, next_out <- next_out2,
  next_in <- next_in2, next_event <- next_event2, gap_buffer <- gap_buffer2,
  test_request <- test_request2, todo <- todo2, sent <- sent2,
  greeted <- greeted2

\* Once an actor has shown Disconnected, the manager has or will have read it.
Told(tells, runs, next_runs, next_phase) ==
  next_runs /\ (next_phase = "Disconnected" \/ (runs /\ tells))

\* The manager is done with an actor that has ended, or that it was told of,
\* whatever the actor has turned to since.
GivenUp(runs, tells) == ~runs \/ tells

\* A step of one actor; it starts only when the manager is done with the other.
StepOfOne ==
  /\ One!Next
  /\ ~running1 /\ running1' => GivenUp(running2, told2)
  /\ told1' = Told(told1, running1, running1', phase1')
  /\ UNCHANGED <<actor2, told2>>

StepOfTwo ==
  /\ Two!Next
  /\ ~running2 /\ running2' => GivenUp(running1, told1)
  /\ told2' = Told(told2, running2, running2', phase2')
  /\ UNCHANGED <<actor1, told1>>

Init == One!Init /\ Two!Init /\ told1 = FALSE /\ told2 = FALSE

Next == StepOfOne \/ StepOfTwo

Spec == Init /\ [][Next]_vars

(***************************************************************************)
(* Properties.                                                             *)
(***************************************************************************)
\* However the two actors interleave, an order is journaled before it is sent,
\* sent at most once as new, and then reported Written: the check of next_out
\* in CommitOutbound keeps the two from using one number, or one order, twice.
OneLedger == One!OrdersKeepTheLedger

\* Neither actor has a frame on its wire that the journal does not hold.
BothJournaled == One!WireJournaled /\ Two!WireJournaled

\* pure-rust-mvp-spec.md:79: an application message that is asked for again is
\* sent again under its number.  So the row that holds an order says that it
\* is one, and only such a row does.
OrdersReplayable ==
  \A n \in DOMAIN outbound :
     outbound[n].wire.type = "D" <=> outbound[n].command.cl_ord_id # NoClOrdId
=============================================================================
