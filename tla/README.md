# fix-cli: TLA+ models and proofs

fix-cli is a FIX 4.4 order-entry client in Rust: a daemon (`fixd`) keeps one
initiator session to a counterparty and a journal on disk, and agents hand it
orders over a local socket. What it promises is about numbers and copies: an
order is journaled before it is sent, goes out at most once as a new message,
whatever either side missed is found and repeated, and an agent is told the
truth about what it asked. The models here are about that promise under
crashes, lost connections, retries, resets, sessions that are replaced, and
clients that compete.

## The system

| Part | State | Operations | Interacts with |
| --- | --- | --- | --- |
| **fix-store** (`crates/fix-store`) | six redb tables: four counters, commands, outbound, transmissions, inbound, events | `commit_outbound`, `mark_outbound_written`, `commit_transmission`, `mark_transmission_written`, `commit_inbound`, `resync_inbound`, `reset_sequences`, reads | one worker thread takes requests from any number of handles; each is one durable transaction |
| **session actor** (`crates/fix-session`) | phase, its own copies of the counters, gap buffer, outstanding TestRequest, decoder, deadlines | `run`: a command, the frames of a read, or the heartbeat deadline, one at a time; sends, replay, receive, drain | awaits the store and the socket between the steps of each handler; broadcasts phase changes |
| **control plane** (`crates/fix-control`) | session slot, `application_gate`, sliding-window rate limiter | plan and validate a request, look it up, reserve, submit | calls the store and the current session handle |
| **connection manager** (`crates/fixd`) | reconnect delay, current session, event receiver | connect, spawn an actor, watch its events and poll its status, clear the slot, back off | replaces and clears the session slot |
| **codec** (`crates/fix-protocol`) | bytes not yet a frame | encode, parse, incremental framing | called by the actor |
| **fix-ipc**, **fixctl** | none between requests | one JSON request and one answer per local connection | fixctl -> fix-ipc -> control plane |
| **configuration**, **message log**, **fix-mock**, **fix-fuzz** | – | start-up, output, test doubles | – |

What is hard here, and what makes each part right:

* The journal: several tables describe one fact (a command is stored by request
  and by number; a message and its event), counters are named by the client
  and checked by the store, and a reset empties some tables and keeps others.
  Right means: the copies agree, no hole below a counter, nothing journaled is
  forgotten, no event overwritten.
* The actor: every handler is a chain of awaits, and the process, the store or
  the socket may fail in each. Its counters are copies of the journal's that it
  moves by hand. Right means: what is on the wire is what the journal holds;
  numbers have no holes; an order is new on the wire at most once; the gap
  buffer holds what is not yet due; keys of session messages never repeat.
* Its timer: one deadline (`last_outbound + heartbeat_interval`) serves the
  heartbeat, the TestRequest and the deadline of its answer. Right means: the
  counterparty is never left waiting, a silent one is noticed, one that
  answered is not dropped.
* The connection: frames in flight when it ends are lost, and then one side or
  both are ahead of the other. Right means: nothing the counterparty reported
  is lost, nothing it took is sent under its number again, and a recovery ends.
* The manager: it learns of the end of a session from events it may miss, and
  starts the next one while the last may still be at work. Right means: a dead
  session does not stay in the slot, an abandoned one ends, and two actors over
  one journal do not harm each other.
* The control plane: lookup, reservation and submit are three steps over three
  parts. Right means: no order is submitted that is not new, the window bounds
  what goes out, an answer agrees with the journal, and every request gets one.

`PROJECT.json` lists the hazards at their lines, with the properties that would
notice each of them or a note on why none does.

## Modules

| Module | Models | Lines of argument |
| --- | --- | --- |
| `FixStore` | the journal: one action per store operation | theorems in `FixStoreProofs` |
| `FixSession` | the session actor over the journal (`Journal == INSTANCE FixStore`), connection after connection | implements `OrderLedger` and `SessionLife`; theorems in `FixSessionProofs` and, about the course of a session, `FixSessionFlowProofs` |
| `OrderLedger` | the abstract promise about one order: accepted, sent at most once, then reported Written | |
| `SessionLife` | the abstract life of one actor: phases in their order, and whether the task runs | |
| `SessionOverlap` | two `FixSession` actors over one journal | both together implement `OrderLedger`; theorems in `SessionOverlapProofs` |
| `HeartbeatTimer` | the clock of one connection | theorems in `HeartbeatTimerProofs` |
| `FixLink` | `FixSession` and a conforming counterparty over TCP | liveness of a recovery; theorems in `FixLinkProofs` |
| `ConnectionManager` | `run_connection_manager` and the sessions it starts, each a `SessionLife` with a mailbox | implements `SessionDirectory`; theorems in `ConnectionManagerProofs` |
| `SessionDirectory` | what ControlService may expect of the slot and of the sessions in it | |
| `CommandPlanner` | `plan`, `validate_envelope`, `validate_order` | operators of `ControlPlane` |
| `ControlPlane` | `ControlService::execute` and the rate limiter for the tasks of the accept loop, over `SessionDirectory` | theorems in `ControlPlaneProofs` |
| `MC*` | finite instances | |

The system is checked in layers, each on what the one below is shown to
implement:

    FixStore  <-  FixSession  =>  SessionLife  <-  ConnectionManager  =>  SessionDirectory  <-  ControlPlane
                      =>  OrderLedger
    FixStore  <-  FixSession  <-  FixLink (with a venue),  SessionOverlap (twice)

(`=>` implements, `<-` is used by.) `ControlPlane` therefore stands on sessions
that stop or are replaced at any moment, as the manager and the actor let them.

### FixStore

The six variables are the six tables (`meta` holds the four counters). An
operation of the code is one write transaction on one worker thread, so it is
one step; a crash falls between two steps and loses nothing. Where the code
answers with an error, or with the stored command of a retry, no table changes:
such calls are stuttering steps. The module makes no assumption on its client:
any operation may come with any argument, which includes a mark that reaches
the journal after a reset, in another epoch than its commit.

### FixSession

`todo` is what the actor has still to do before it returns to `select!`. A
handler puts its steps there, each step is the code up to and including one
await, and `AwaitFails` may replace any of them. So `send_logon` with a reset is
`Connect`, `ResetJournal`, `CommitAdmin`, `WriteWire`, `MarkWritten`; a
heartbeat followed by a TestRequest is two such triples; and a ResendRequest
from the counterparty is `ReceiveFrame` and then `JournalReplay`,
`WriteReplayWire`, `MarkReplayWritten` for each frame of the replay.

The five sends of session messages (`send_logon`, `send_resend_request`,
`send_heartbeat_response`, `send_test_request`, `send_logout`) have the same
three awaits and are the one `CommitAdmin`/`WriteWire`/`MarkWritten`; what the
caller does next (enter a phase, keep the TestRequest, stop) is the field
`then`. `handle_inbound` is `ReceiveFrame` with one action for each of its four
cases, and the loop over the gap buffer is `DrainBuffer`, one round a step.

Abstractions:

* Time: `Tick(expired, silent)` may find any deadline passed. Every order of
  events that some clock produces is there; so are orders that no clock does.
  `HeartbeatTimer` has the clock.
* Messages keep their type, number, PossDupFlag and one argument (BeginSeqNo,
  NewSeqNo, HeartBtInt, the TestRequest, the order or the execution). Times
  appear only where `verify_possdup` compares them: a replay is checked against
  a stored original, and a stored replay is not an original.
* Parsing: a frame that does not parse, or names another session, is
  `RejectFrame`.
* Failures: `AwaitFails` stands for an error of redb, an error of the socket
  and the death of the process. A failed write may have delivered the whole
  frame; half a frame is not a frame.
* One actor lives at a time. `SessionOverlap` lifts that.
* The frames of one read are handled without a `select!` between them; the
  model allows one, which adds interleavings.
* `SessionPhase::Synchronizing` is left out: no code sets it.

`ResetOnLogon` is the set of values `reset_on_logon` takes from start to start
(`Connect` picks one). `DirectSubmit` says whether a client submits without the
lookup that `ControlService::execute` makes under its gate: FALSE is the system,
TRUE is any user of `SessionHandle`. Without resets `OrderLedger` holds for
both. With resets it holds only with the lookup: a retry, straight to the
session, of an order that was journaled but never written before a reset is
answered by the journal with its old number, and where that is the number the
session is at, the order is written without a row of its own. So the instances
with resets say FALSE, and `ControlPlane` shows that the lookup is made and
cannot be stale (`SubmitsAreNew`).

### SessionOverlap

After a Logout the phase is `Disconnected` while the task still runs, until it
finds its channel closed; the manager takes the phase for the end, clears the
slot, sleeps and connects again. What it acts on is what it was told, by an event
or by a status, and the actor may be elsewhere by then: while a client keeps its
handle, or frames of the same read are left, a frame ahead of `next_in` takes it
to Recovering, and the end of that gap to Established, where it takes orders.
So `told1` and `told2` are latches, set when an actor shows Disconnected and
cleared when it ends (`Told`), and a successor may start at any time after
(`GivenUp`), next to an actor in any phase. Each of the two actors is an instance
of `FixSession` with its own variables, the journal and `originals` are common.
There are two of them: a third, started while two old ones are still at work,
is not modelled.

### HeartbeatTimer

`now` moves in steps, `Passes`, except over a timer that is due and has
something to do. Marks take up to `MarkDelay`, so the deadline of a TestRequest
and the two-interval test are read at different times, as in the code. Of the
frames only those are told apart that the timer cares for: an answer to the
TestRequest that comes in order, one that is buffered behind a gap, and
anything else. Where the timer is due and does nothing (outside `Established`
`last_outbound` stays) the select loop spins; that changes no state and is a
stutter.

### FixLink

The counterparty is not in the repository (fix-mock has neither a journal nor a
replay). The venue of `FixLink` is the acceptor that the session's own rules
expect: it numbers what it sends, answers the Logon, asks once for what it
missed, replays executions with PossDupFlag, covers session messages with gap
fills, ignores repetitions and keeps its numbers across connections.
`VenueRestarts` lets it lose them; `StartsOver` is the ResetSeqNumFlag of the
Logon. These definitions are marked external. A connection is the part of
`sent` the venue has not read and the queue `in_flight`; a reconnect empties
both. The venue's replay is given frame by frame (`ReplayStarts`, `VenueFill`,
`ReplayOf`); `VenueReplay` puts the frames in ascending order.

### ConnectionManager and SessionDirectory

`mgr` is the await `run_connection_manager` is at. The manager subscribes after
the actor was spawned (`Spawn`, `Subscribe`), so that events sent in between are
missed; its receiver holds `EventCap` events and loses the oldest (`Broadcast`);
its poll goes through the session's own mailbox (`Poll`, `PollAnswered`,
`PollDropped`), behind whatever waits there. A session does what `SessionLife`
allows and may be in a write for any time. It lives on until no handle is left
(`Abandoned`), and clients keep handles.

`SessionDirectory` forgets the manager: a slot that names the latest session or
none, sessions that are `down`, `up` or `open`, a mailbox in order, and an order
that is being written. The mapping shows clients a mailbox without the poll of the
manager (`WithoutPoll`), which is in it once at most.

### CommandPlanner and ControlPlane

A client is one task of the accept loop, `at` is where it awaits. The gate is a
queue whose head is past it: tokio's mutex is fair. A request goes through
`Execute`, `EnterGate` (which reads the slot), `LookUp` (which also reserves),
`Call`, the session's `ServeOrder`/`OrderWritten`/`OrderFails`, `Resume`,
`Respond`. The limiter is `Acquires`, `IsLimited` and `Releases` over `accepted`
and `request_ids`, with `now` a clock. The code's queue of instants and ids is
in the order of the clock, and what it drops from its front are the entries that
are a second old, so the set of its entries says the same. The journal is here
only the fingerprint of each request, and digests are the tuples they digest.
`writes` is a history of the orders written, with the time of the reservation
they used.

## Runs

Every run is exhaustive for its instance. `MaxOut` and `MaxEvent` bound new work
(no command, frame, tick or connection is taken once that many numbers or
events are used; what was begun is finished), `MaxLog` what the venue sends of
its own accord, `MaxSessions` the sessions started, `MaxTime` where a clock
stops, `GapLimit` stands for the 1,024 of the gap buffer. `Horizon` stutters at
the bounds of `FixSession` so that a deadlock inside them would be reported.
Deadlock is checked everywhere but in `HeartbeatTimer`, which ends where the
session is over and the clock has stopped.

| Run | States | Shows |
| --- | --- | --- |
| `store` | 501,251 | any operations with any arguments, resets and late marks included: tables and counters stay consistent |
| `session` | 2,454,340 | two orders with retries and conflicts, heartbeats, TestRequests, Logouts, replays of whole, clipped and empty ranges; frames ahead, due, behind, repeated, filling gaps, overflowing the buffer; a failure in any await: wire = journal, no hole in the numbers, no order swallowed by a gap fill, counters and buffer right; implements `OrderLedger` and `SessionLife` |
| `session_reset` | 713,626 | a reset on every Logon: keys stay fresh, no order is sent a second time in the next epoch |
| `link` | 592,826 | both sides lose connections: no execution lost, no recovery blocked by a correct replay, on arrival or out of the buffer |
| `link_live` | 907,476 | ticks, Logouts, a venue that restarts: no order taken twice, no number reused, no recovery or realignment blocked, and under fairness every recovery ends |
| `overlap` | 2,375,913 | an actor that has shown Disconnected, in whatever phase it is now, next to its successor: the wires of both are journaled, orders keep the ledger |
| `manager` | 35,625 | missed and lagging events, polls: implements `SessionDirectory`, the end of every session is noticed, an abandoned one ends |
| `control` | 3,145,618 | two clients with three orders, a conflict, a market order and one over the limits, sessions that end or are replaced: rate bounds, nothing submitted that is not new, nothing journaled beyond the policy, truthful answers |
| `control_live` | 285,158 | every other kind of request: every one is answered |
| `heartbeat` | 144,121 | commands, recoveries and slow marks around the one timer: heartbeats in time, silence ends the session, an answer in order counts |
| `peer_gap` | – | a dropped ResendRequest of the counterparty (Findings) |
| `overlap_reset` | – | a late mark after a reset (Findings) |

Why the bounds suffice:

* `store`: two request ids and two numbers show every overlap of an old row with
  a new one, marks of an earlier epoch included.
* `session`: four numbers allow a Logon, two orders and a session message before,
  between or after them; a replay then has every mixture of orders and runs of
  session messages. Two buffered frames suffice to drain one, skip one and keep
  one, and to overflow. A request to replay ends at 0, at a number in use, beyond
  `next_out` or before its begin. Requests and fingerprints are symmetric.
* `session_reset`: two full epochs, with an order in each and an order that
  survives the reset as Journaled.
* `link`: five numbers on each side are two connections with a message lost on
  either and a replay that crosses new messages. Larger instances (6/8/6, 6.6
  million states) were explored with the same result. `link_live` adds ticks,
  Logouts of both sides and a venue that restarts, with a shorter log.
* `overlap`: five numbers are a Logon of each actor, an order and the late
  answers of the first one, in every order. The instance was searched for the
  states it is about, and has them: the first actor back in Established with an
  order at hand while the second is Connecting, and while it is LogonSent; the
  first Recovering while the second is Established.
* `manager`: two sessions are the one that is watched and the one that was let
  go of; a buffer of two events lags with the third; the delay doubles twice.
* `control`: two clients at the gate, three ids and a conflicting retry, a
  window of one order, two sessions, and a clock that runs for a whole window
  after the first. `control_live` has the requests of all other kinds.
* `heartbeat`: eight intervals, more than the five a silent session can last.

Each property is accompanied by a faulty variant of a definition (marked
*Mutant* in the modules, listed in `PROJECT.json`) under which its run fails.

Some configurations are kept beside the runs: `MCFixLinkReset.cfg` is the link
with a reset on every Logon (passes), and six others, listed under Findings,
each end in a counterexample.

Fairness, used for the liveness properties only:

* `FixLink!LiveSpec`: tokio polls a task that can go on (`Proceed`), bytes written
  to a live connection are delivered and read (`Deliver`), the venue reads and
  answers (`VenueLogon`, `VenueReceive`), and the end of a connection is noticed
  (`HangUp`: a read that returns 0, or the manager that drops its handles). All
  weak: each stays enabled until taken. Nothing is assumed of agents, timers,
  reconnects or failures. `RecoveryEnds` excuses a session that has reached the
  bounds, where nothing more is delivered.
* `ConnectionManager!FairSpec`: the manager's task runs (weak). A session serves
  its mailbox and notices that it is closed under strong fairness: these compete
  with reads and the timer in a `select!` that picks at random among what is
  ready, and are disabled during a write. Clients drop the handle after one call.
* `ControlPlane!FairSpec`: client tasks run (weak), a live session works off its
  mailbox (strong, for the same reason). The lock is fair by construction of the
  queue.
* That a write ends is assumed nowhere: `write_all` has no deadline. Where it
  matters it is the premise of the property (`WritesEnd`, and the same in
  `EveryRequestAnswered`).

## Findings

Two runs end in a counterexample:

* `peer_gap` (code bug): a ResendRequest of the counterparty that arrives ahead
  of a gap is buffered; the gap fill that answers the session's own
  ResendRequest covers it, so it is dropped unanswered. The counterparty waits
  for ever for what it asked, on a connection both sides think is in order.
* `overlap_reset` (code bug): an actor that is `Disconnected` still writes the
  answer to a TestRequest; its successor resets the numbers and journals an
  order under the number of that answer. The late mark finds a row under its
  number and pairs it with the command of the session message, so that a replay
  takes the order for a session message and skips it.

Other disagreements, each shown by a configuration of its own:

* `MCFixLinkReplay.cfg` (`ReplayNeverBlocks`): a recovery with a correct replay can
  end Blocked, after it has ended. The venue's Logon (3) is ahead, is buffered, and
  the session asks for 2 onwards. The replay is execution 2 and a gap fill from 3 to
  4. Execution 2 closes the gap, the drain takes the Logon and the session is
  Established; the gap fill, now behind `next_in`, goes to `verify_possdup`
  (lib.rs:588), differs from the Logon in the journal, and blocks the session. The
  spec asks for both: that a replay covers session messages by gap fills
  (`pure-rust-mvp-spec.md:79`) and that a repetition which differs blocks (`:78`);
  `testing.md:33` asks for gaps with mixed replays to be certified.
  The next connection begins with `next_in` = 4 and has no gap. `ReplayRecovers` is
  what holds: nothing blocks the session before the gap is closed.
* `MCFixLinkGreeted.cfg` (`EstablishedAfterLogon`): like the ResendRequest, a Logon
  response can be skipped by a gap fill. The session becomes Established without
  one and never compares HeartBtInt.
* `MCFixLinkLogout.cfg` (`LogoutIsFinal`): a frame ahead of next_in takes a session
  that has sent its Logout to Recovering, then to Established, where it accepts
  orders; the spec (`pure-rust-mvp-spec.md:68`) ends the session there.
  `SessionLife` has that edge, as the code does.
* `MCFixLinkResync.cfg` (`ResyncOnLogonOnly`): while the Logon response is awaited,
  any frame behind next_in without PossDupFlag moves next_in back, not only a
  Logon.
* `MCHeartbeatSilence.cfg` (`SilenceIsNoticed`): `pure-rust-mvp-spec.md:80` has a
  TestRequest after two intervals without a frame. The deadline is
  `last_outbound + interval`, and each order moves it on: while an agent keeps
  sending, nobody looks at the silence. `SilenceEnds` is what holds without
  commands.
* `MCControlMarket.cfg` (`MarketOrdersRefused`): `README.md:101` and
  `pure-rust-mvp-spec.md:156` say that market orders are always refused.
  `validate_order` compares no notional where there is no price, and lets them
  pass. `OrdersWithinPolicy` therefore names them as exempt: what it says of an
  order with a price it does not say of them.

## Proofs

All for any values of the constants, from the named assumptions on them, each
next to the constants it is about. Eight modules hold them, each with the
inductive invariant of its argument on top.

| Theorem | States | Of the run | Holds |
| --- | --- | --- | --- |
| `FixStoreProofs!StoreTypeCorrect` … `StoreEventsAppendOnly` | `TypeOK`, `JournalContiguous`, `CopiesAgree`, `InboundEventsPaired`, `CommandsDurable`, `EventsAppendOnly` | `store` | for any client |
| `FixSessionProofs!CountersAgree` | `CountersMatch` | `session` | `Gated` |
| `FixSessionProofs!KeysFresh` | `AdminKeysFresh` | `session_reset` | `Gated` |
| `FixSessionProofs!WireInJournal` | `WireJournaled` | `session` | `Gated` |
| `FixSessionProofs!KeepsTheLedger` | `OrdersKeepTheLedger` | `session`, `session_reset` | `Gated` |
| `FixSessionProofs!SessionTyped` | `TypeOK` (part of `LinkTypeOK`) | `link` | for any client |
| `FixSessionProofs!JournalIsStore`, `SessionJournal` | `Journal!Spec`; `JournalContiguous`, `CopiesAgree`, `InboundEventsPaired` of its journal | | for any client |
| `FixSessionFlowProofs!PhasesInOrder` | `PhasesFollowLife` | `session` | for any client |
| `FixSessionFlowProofs!NoGapWhenEstablished` | `EstablishedHasNoGap` | `session` | for any client |
| `FixSessionFlowProofs!BufferIsAhead` | `BufferAhead` | `session` | for any client |
| `FixSessionFlowProofs!NumbersUnbroken` | `SequenceUnbroken` | `session` | `Gated` |
| `FixSessionFlowProofs!FillsSkipNoOrder` | `GapFillsSkipNoOrder` | `session` | `Gated` |
| `SessionOverlapProofs!BothWiresJournaled` | `BothJournaled` | `overlap` | `TRUE \notin ResetOnLogon` |
| `SessionOverlapProofs!OneLedgerKept` | `OneLedger` | `overlap` | `Gated` |
| `FixLinkProofs!TakesOrdersOnce` | `OrdersTakenOnce` | `link_live` | `Gated` |
| `FixLinkProofs!SeesNoNumberTwice` | `NumbersNeverReused` | `link_live` | `Gated` |
| `FixLinkProofs!LosesNoExecution` | `NoExecutionLost` | `link` | `Gated`, `~VenueRestarts` |
| `FixLinkProofs!LinkTyped` | `LinkTypeOK` | `link` | `AnyFrame` |
| `FixLinkProofs!LinkIsSession` | `Spec` of `FixSession` | | `AnyFrame` |
| `HeartbeatTimerProofs!TimerTyped` … `HeartbeatsInTime` | `TimerTypeOK`, `SilenceEnds`, `AnswerInOrderCounts`, `HeartbeatGap` | `heartbeat` | always |
| `ConnectionManagerProofs!ManagerTyped` | `ManagerTypeOK` | `manager` | always |
| `ConnectionManagerProofs!ServesRequests` | `KeepsTheDirectory` | `manager` | always |
| `ControlPlaneProofs!SubmitsNew`, `AnswersTrue` | `SubmitsAreNew`, `AnswersAreTrue` | `control` | always |
| `ControlPlaneProofs!AdmissionBounded`, `WireRateBounded`, `TypesHold` | `AdmissionBound`, `WireRateBound`, `ControlTypeOK` | `control` | always |
| `ControlPlaneProofs!WithinPolicy` | `OrdersWithinPolicy` | `control` | always |

`Gated` is `~DirectSubmit \/ TRUE \notin ResetOnLogon`: the system, whose control
plane looks a request up before it submits it, with and without resets; and any
user of `SessionHandle` where no Logon resets the numbers. The runs cover both
sides. What is not marked so needs nothing of the client. `AnyFrame` says that
`InFrames` has every session message, execution and gap fill; the runs give it
bounds.

### FixStoreProofs

From `StoreConstants` (numbers and ids are naturals).

* `StoreTypeCorrect`: `TypeOK` is inductive. The counters are never 0, which is
  what makes "one below the counter" meaningful in the others.
* `StoreContiguous`: a commit adds exactly the row at the counter, a mark none,
  and the reset empties the tables it sets the counters back for.
* `StoreCopiesAgree`: not inductive alone. A mark takes a record from the
  commands table and writes it into the outbound table at its number; that the
  row there then agrees with the commands table under *its* request id needs
  `KeyedById`: every record is filed under the id it holds. The two together
  are inductive, also for a mark that comes after a reset.
* `StoreInboundPaired`: each new row takes an event id above every one in use,
  and a row that is overwritten after a realignment gives its event up.
* `StoreCommandsDurable`, `StoreEventsAppendOnly`: action properties, from the
  shape of the operations and, for the latter, from `InboundEventsPaired` (the
  id of a new event is the counter, and no event has an id at or above it).

### FixSessionProofs

From `SessionConstants` and `AgentKeysDisjoint`: any requests, frames and bounds,
with a failure in any await. None of the properties is inductive, because what
decides them is what the actor has still to do. `IInv` says it:

* only the head of `todo` writes or marks; everything behind it is for later
  (`TodoOK`, `Later`), and is journaled before it is written;
* what the head writes is in the journal, as first sent, under `next_out`, and if
  it is an order it was not written before (`WriteOK`); what it marks was written
  (`MarkOK`);
* the journal's number is the actor's, and one ahead as long as the head is a
  write or a mark (`Counted`). So a new row never hits a number in use, and a mark
  finds its row;
* the rows hold frames as first sent, below the counter (`RowsOK`), commands are
  Journaled or Written (`CommandsOK`), and an order that is not journaled has no
  copy (`CopiesOK`).

`CountersAgree`, `KeysFresh` and `WireInJournal` are parts of `IInv`.
`KeepsTheLedger` adds that each step maps to a step of `OrderLedger` or is not
seen there (`StepMaps`): a commit of an order is `Accept`, its write `Transmit`
(also the write that reaches the peer and is reported as failed), its mark
`Confirm`. `NumbersBehind` is for the retry of a submit: without resets its
number is below the actor's, so it is answered from the journal
(`RetryAnswered`). With resets this is what fails, and the lookup is needed (see
FixSession above).

The last part needs none of this. `TypeOK` is inductive, and it has to be proved
together with what a step is to the journal (`KeepsTypes`): the arguments of a
commit are of the types of FixStore because the entry that holds them is
(`EntryKinds`, `EntriesMade`), and the tables are then typed because FixStore
keeps them so (`JournalTyped`, from the theorem module of the store). The one step
with a witness to find is a replay: `GapEnd` chooses the end of a gap fill, which
exists and lies behind its start (`GapEndIs`, from the least order in the range), so
what is left of the range is not empty. `JournalIsStore` is that refinement, and
`SessionJournal` reads the theorems of FixStoreProofs off it.

### FixSessionFlowProofs

What a handler has begun decides which phase comes next and what is buffered
meanwhile. `Flow` says it of the worklist `todo`, whoever uses the handle:

* `Shaped`: which step may follow which (`Worklist`). There are eight shapes, and a
  `drain` is the last step of all that take a frame or replay;
* `Lively`: the phase that a send leads to follows the present one in
  `SessionLife`, and a session is Connecting exactly until its Logon is sent;
* `NoGap`: in Connecting, LogonSent and Established the buffer is empty, or the
  ResendRequest that ends that phase is being sent;
* `Ahead`, `Keyed`: what is buffered is ahead of `next_in`, or a drain is still to
  come; each frame is under its own number.

`PhasesInOrder` is the refinement of `SessionLife`, step by step;
`NoGapWhenEstablished` and `BufferIsAhead` are what `Flow` says at the `select!`.

`NumbersUnbroken` needs `Numbered`: the first frame of a connection is new, and
its number plus the count of the new frames is the next number, the journal's or
the actor's (`IInv` has how far they may be apart). A new frame adds one to both,
a repetition to neither.

`FillsSkipNoOrder` needs `Fills`: a gap fill that is on the wire, or is about to be
written, ends at or below the counter and covers no row of an order. A range is
replayed from the least order in it (`Least`), and no row is added below the
counter afterwards. The row of an order is written as one and stays one.

The last part of the module is about one actor beside another one. `Counted` does
not hold there, so the lemmas are over `Moves`: each step of the actor, by what it
does to the tables and to what the actor has at hand (`StepMoves`). For each kind
they say what is kept (`TablesKept`, `ListedKept`, `WiredKept`, `HandedKept`), and
what the other actor may count on (`Goes`, `Leaves`), which in turn is all that
the other one needs (`WiredBeside`, `HandedBeside`).

### SessionOverlapProofs

From `OverlapConstants`, which are those of the session. The lemmas about one actor
are instantiated for each of the two; what is left is how the actors stand to each
other. The journal may be any number ahead of an actor, and what keeps that one
from sending is not that it notices: `CommitOutbound` compares the number it brings
with the journal's. But a send whose *key* is known is let through with the number
that the journal has for it. That no send meets a key of the other actor is what
has to be shown:

* `Place`: an actor that is behind the journal finds a row at the number it would
  take, and that row is a Logon, unless the actor has its own Logon to send, in
  which case it is none. The key of a session message names its type and number,
  and the command is in the row of that number (`RowsNamed`), so the key is new
  (`NeverRepeats`);
* `OneLogon`: of two actors that are both up to date exactly one has its Logon to
  send, and there are never two Logons to send. The manager starts an actor only
  when the other one has ended or has once shown Disconnected. By then its Logon had
  gone (`Flow`), and as no step of a running actor leads back to Connecting
  (`LifeAfter`), it has none to send whatever phase it is in since (`PastLogon`). So whatever row the one adds at the number of the other is of the
  kind that `Place` asks for;
* `Hand`, `Wired`: what is about to be written is journaled under the actor's number;
* `Apart`, `Handed`: an order that one actor writes or marks is not at hand for the
  other, because its request is in the journal from then on.

`BothWiresJournaled` needs that no Logon resets the numbers: a reset by one actor
takes the rows away under the wire of the other. `OneLedgerKept` does not: behind
the lookup of the control plane `Apart` is enough, and only without it is
`NeverRepeats` needed.

### FixLinkProofs

From `LinkConstants` and those of the session. What arrives is not limited by
`InFrames` here but by the venue, so the invariants of the session are taken over
with `ReceiveFrame(m)` for a frame `m` of the venue (`SessionKeeps`).

A step of the session does one of five things to the wire and to the rows under
it (`Effects`): nothing (`Rests`), it journals one row with the next number
(`Commits`), writes the frame at hand (`Writes`), starts a connection (`Opens`), or
resets (`Resets`). `LinkInv` is stated over these:

* `Ascending`: on the wire of a connection, a new message is behind everything
  that a repetition or a gap fill before it covers;
* `OrderRows`: no order has two rows, and its row names a command;
* `Expects`: the venue expects nothing behind the next new message, whether that is
  unread, about to be written or not yet made. Where both sides start over this
  holds from the Logon on (`Follows`);
* `Settled`: the row of an order that the venue has taken is behind what the venue
  expects, so no replay of it is new there;
* `Unheard`: between a reconnect and the Logon the expectation says nothing yet;
  there, the first frame to come is behind every order taken.

`TakesOrdersOnce` and `SeesNoNumberTwice` follow, also for a venue that restarts.
What makes them hold is the pair of `IInv` (the row is journaled before the frame
is written) and `Ascending` (so a counter that is recovered from the journal is
never behind the wire).

`LosesNoExecution` is about the other direction. A step does one of five things to
what was received (`InboundEffects`): nothing, it takes the frame that is due,
buffers one that is ahead, realigns, or resets. `Reported` is inductive with them:

* `Pending`: each frame on its way, in the buffer or at hand is `Truthful`: it says
  what the venue sent under that number, and if it is a gap fill, it covers no
  execution and nothing the venue has not sent;
* `Behind`: the session does not expect more than the next number of the venue;
* `Silence`: before the venue answers a Logon nothing is on its way or buffered,
  so that numbers which start over meet nothing older.

For each answer of the venue a lemma shows that it is truthful (`ReplayTruthful`,
`AnswersTruthful`, `RenumbersTruthful`). A venue that forgets its numbers makes the
statement itself meaningless, hence `~VenueRestarts`.

`LinkTyped` needs no `Gated`: `TypeOK` says of the frames on the wire that an order
names a request and everything else a number, so what the venue answers, counts or
takes for an order has its type (`UnreadTyped`, `AnswersTyped`), and what it repeats
comes from its log (`ReplayOfTyped`, where the end of a gap fill is the least of a
set that is not empty). Then what is delivered is always one of `InFrames`, and a
step over the connection is a step of FixSession (`LinkIsSession`).

### HeartbeatTimerProofs

From `TimerConstants` (a mark takes an interval at most). `SilenceEnds` is a bound
on the difference of two clocks and says nothing of what the timer has done so
far; `TimerInv` adds it: the timer is never late (`TickOnTime`), as long as nobody
has asked the last write is less than two intervals after the last frame
(`NotAskedYet`), once somebody has, the deadline lies within four intervals and
two marks, and the last write before it (`AskedSince`). `AnswersCount` needs that
an answer in order leaves no deadline and that only a deadline times out
(`Answered`).

### ConnectionManagerProofs

From `ManagerConstants`, for any number of clients and sessions, any capacity of
the event channel and any back-off. `Kept`, over `Fit` for each session:

* a session that stopped has an empty mailbox and writes nothing; a live one is
  never Blocked;
* the manager's poll is in a mailbox at most once (`PolledOnce`), only of the
  latest session, and only while the manager waits for its answer;
* an order is written for the client at the head of the mailbox;
* the slot names the latest session exactly while the manager watches it
  (`SlotFollows`), and no session above the latest was started.

`ServesRequests` maps each step to one of `SessionDirectory` or to a stutter. What
it needs of `WithoutPoll` are five lemmas: it changes nothing where there is no
poll, a client's call comes last with a poll or without, the poll itself is not
seen, and taking the head is taking the client's head or removing the poll
(`Unpolled`, `Called`, `Asked`, `PollFirst`, `ClientFirst`).

### ControlPlaneProofs

`SubmitsAreNew` and `AnswersAreTrue`, for any number of clients, requests and
sessions, from `ControlConstants`. Neither is inductive. What a client found new
in the journal stays new until its own order is committed because

* only one client at a time is between the gate and its answer, the head of the
  queue (`GateHeld`);
* only a session journals, and only the order of the client at the head of its
  mailbox; who is in a mailbox waits, once, and holds that very session
  (`MailHeld`, `HandlesHeld`); so the other sessions, the replaced one included,
  have no order at all;
* a session that is in a write has journaled the order at its head
  (`OrderAtHand`), so that the write adds nothing.

`RepliesTrue` says of a client that was replied to what `AnswersAreTrue` says of
the step in which it passes the reply on. The proof has one lemma for each step
of `SessionDirectory` (what it does to the session at hand) and one for each part
of the invariant (`BaseKept`, `MailKept`, `OrderKept`, `SubmitsKept`,
`RepliesKept`).

The theorems about limits stand in the second part of the module. The bounds are about orders on the wire, which `accepted` forgets after a second.
`Limits` therefore counts the reservations that are in the window together with
those of the orders on the wire:

* `Bounded`: any window of one `Second` holds at most `Maximum` of them. When one
  is added, every other that shares a window with it is still in `accepted`
  (`Recorded`: the reservation of an order on the wire is never given back), and
  there the limiter counts them;
* `ReservationHeld`: as long as a client holds a reservation that it has not used,
  no other one has left its window, since that client is past the gate;
* `Spread`: so an order is written before anything is reserved that is outside its
  window. An order written late thus shares the wire with two windows of
  reservations at most, which is the bound `2 * Maximum` of `WireRateBound`.

`WithinPolicy` follows the plan from `validate_order` through the gate
(`OrdersAllowed`) to the journal (`JournalAllowed`), and from there to the wire
(`WritesJournaled`: what a session writes under a request id is what it journaled,
`OrderAtHand`). It needs of the constants that quantities and prices are integers
(`OrderAmounts`: both are decimals in the code, scaled to integers here). It says
mode, quantity and notional, the latter of orders with a price: a market order
without one is exempt, as in `validate_order` (Findings). Symbol and account are
not looked at by the policy of the code. `TypesHold` collects what the parts say of types.

### Induction

The library's induction theorems take an operator as a parameter, which the
installed provers cannot instantiate. A minimal counterexample does the same
where only a least element is needed (`Least`, from `WFMin` and
`NatLessThanWellFounded`). What a recursive definition computes for every input
stays with TLC; no model here has one.

### Only model-checked

* `ReplayRecovers` of `FixLink`: a proof would need an invariant of the replay that
  is under way, from the log of the venue through `in_flight` to the gap buffer. A
  step that finds the buffer full is left out by `HasRoom`; in these instances the
  buffer has room (`GapLimit` is above `MaxLog`). `CommitResynced` is taken in
  `link_live` only, where the venue restarts. It says nothing of a session that is
  Established again (Findings: `ReplayNeverBlocks`);
* that an answer to a TestRequest which is buffered, or dropped by a gap fill, does
  not count is what `HeartbeatTimer` has; `AnswerInOrderCounts` is about the others;
* liveness (`RecoveryEnds`, `EndedSessionLeavesSlot`, `AbandonedSessionsEnd`,
  `EveryRequestAnswered`), which the prover cannot treat.

## Not modelled

* The codec: `encode` and `parse_frame` are pure, and `FrameDecoder` keeps bytes
  between reads but its verdict on a stream depends on nothing else; the
  repository fuzzes both (`fix-fuzz`). To the session a malformed frame is
  `RejectFrame`. One thing reaches further: `ingest` returns an error for a bad
  frame and drops the good ones before it in the same read. To the session this
  is a loss followed by the end of the connection, which `RejectFrame` and
  `FixLink` have.
* fix-ipc: frames of JSON with a length and a timeout over a local stream; a
  timeout closes the connection, which is `Respond` of `ControlPlane`.
* fixctl, the QuickFIX configuration parser, start-up, the message log, fix-mock
  and fix-fuzz: no state after start, output only, or test tools.
* Within the modelled parts: credentials and their redaction, the layout of
  messages, the wording of answers, the content of events.

## Plan

1. `FrameDecoder` as a function of the bytes read so far, against a reference
   parse of the whole stream.
2. `SessionOverlap` with a venue, to see what the findings of the overlap do to
   the counterparty.
