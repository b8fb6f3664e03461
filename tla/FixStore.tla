------------------------------ MODULE FixStore ------------------------------
(***************************************************************************)
(* The journal of fix-store: the redb tables behind StoreWorker and the    *)
(* operations of StoreOp that change them.                                 *)
(*                                                                         *)
(* One worker thread takes the requests of every StoreHandle off one       *)
(* channel and runs each in one write transaction committed with           *)
(* Durability::Immediate, so an operation is one step and a crash of the   *)
(* process falls between two steps: the variables here survive it.         *)
(*                                                                         *)
(* An operation that the code refuses with a StoreError, and a retry that  *)
(* CommitOutbound answers with the stored command, leave every table as it *)
(* was: here they are stuttering steps, and the guard of an action says    *)
(* when the code does more than refuse.  A client that must tell the       *)
(* refusals apart (FixSession) reads the tables.                           *)
(*                                                                         *)
(* A definition marked Mutant is a faulty variant of the one after it: no  *)
(* specification uses it, it shows that a property would notice the fault. *)
(***************************************************************************)
EXTENDS Integers, FiniteSets

CONSTANTS
  RequestIds,    \* keys of the commands table
  Fingerprints,  \* request fingerprints
  ClOrdIds,      \* client order ids; the empty one marks a session message
  Wires,         \* encoded messages, inbound or outbound
  Kinds,         \* kinds of a replay transmission
  Events,        \* what an event record says
  SeqNums,       \* message sequence numbers a client can name
  EventIds,      \* event ids a client can name
  TransmissionIds \* transmission ids a client can name

ASSUME StoreConstants ==
  /\ SeqNums \subseteq Nat
  /\ EventIds \subseteq Nat
  /\ TransmissionIds \subseteq Nat

VARIABLES
  meta,          \* META_TABLE: the four counters
  commands,      \* COMMAND_TABLE: request id -> command record
  outbound,      \* OUTBOUND_TABLE: sequence number -> command and wire
  transmissions, \* TRANSMISSION_TABLE: transmission id -> replayed message
  inbound,       \* INBOUND_TABLE: sequence number -> received message
  events         \* EVENT_TABLE: event id -> event

vars == <<meta, commands, outbound, transmissions, inbound, events>>

(***************************************************************************)
(* Records and inputs.                                                     *)
(***************************************************************************)
Phases == {"Journaled", "Written"}

Counter == Nat \ {0}

Meta ==
  [next_out : Counter, next_in : Counter, next_event : Counter,
   next_transmission : Counter]

CommandRecord ==
  [request_id : RequestIds, fingerprint : Fingerprints, cl_ord_id : ClOrdIds,
   msg_seq_num : Nat, phase : Phases]

OutboundRecord == [command : CommandRecord, wire : Wires]

TransmissionRecord ==
  [msg_seq_num : Nat, kind : Kinds, wire : Wires, phase : Phases]

InboundRecord == [msg_seq_num : Nat, wire : Wires, event_id : Nat]

OutboundCommits ==
  [request_id : RequestIds, fingerprint : Fingerprints, cl_ord_id : ClOrdIds,
   msg_seq_num : SeqNums, wire : Wires]

TransmissionCommits == [msg_seq_num : SeqNums, kind : Kinds, wire : Wires]

InboundCommits ==
  [msg_seq_num : SeqNums, next_in_after : SeqNums, wire : Wires,
   event_id : EventIds, event : Events]

\* Table.insert of redb: adds the row, or replaces it.
Inserted(table, key, row) ==
  [k \in DOMAIN table \cup {key} |-> IF k = key THEN row ELSE table[k]]

\* A table without rows.
NoRows == [k \in {} |-> 0]

NewCommand(c) ==
  [request_id |-> c.request_id, fingerprint |-> c.fingerprint,
   cl_ord_id |-> c.cl_ord_id, msg_seq_num |-> c.msg_seq_num,
   phase |-> "Journaled"]

(***************************************************************************)
(* The operations.                                                         *)
(***************************************************************************)
Init ==
  /\ meta = [next_out |-> 1, next_in |-> 1, next_event |-> 1,
             next_transmission |-> 1]
  /\ commands = NoRows
  /\ outbound = NoRows
  /\ transmissions = NoRows
  /\ inbound = NoRows
  /\ events = NoRows

\* Mutants: no look at the commands table; next_out moves only with the mark.
CommitOutboundUnchecked(c) ==
  /\ c.msg_seq_num = meta.next_out
  /\ commands' = Inserted(commands, c.request_id, NewCommand(c))
  /\ outbound' = Inserted(outbound, c.msg_seq_num,
                          [command |-> NewCommand(c), wire |-> c.wire])
  /\ meta' = [meta EXCEPT !.next_out = @ + 1]
  /\ UNCHANGED <<transmissions, inbound, events>>

CommitOutboundInPlace(c) ==
  /\ c.request_id \notin DOMAIN commands
  /\ c.msg_seq_num = meta.next_out
  /\ commands' = Inserted(commands, c.request_id, NewCommand(c))
  /\ outbound' = Inserted(outbound, c.msg_seq_num,
                          [command |-> NewCommand(c), wire |-> c.wire])
  /\ UNCHANGED <<meta, transmissions, inbound, events>>

\* Mutant: the number is taken from the client unseen.
CommitOutboundAnyNumber(c) ==
  /\ c.request_id \notin DOMAIN commands
  /\ commands' = Inserted(commands, c.request_id, NewCommand(c))
  /\ outbound' = Inserted(outbound, c.msg_seq_num,
                          [command |-> NewCommand(c), wire |-> c.wire])
  /\ meta' = [meta EXCEPT !.next_out = c.msg_seq_num + 1]
  /\ UNCHANGED <<transmissions, inbound, events>>

\* A new request id at the next outbound sequence number: the command and
\* its wire are journaled together.
CommitOutbound(c) ==
  /\ c.request_id \notin DOMAIN commands
  /\ c.msg_seq_num = meta.next_out
  /\ commands' = Inserted(commands, c.request_id, NewCommand(c))
  /\ outbound' = Inserted(outbound, c.msg_seq_num,
                          [command |-> NewCommand(c), wire |-> c.wire])
  /\ meta' = [meta EXCEPT !.next_out = @ + 1]
  /\ UNCHANGED <<transmissions, inbound, events>>

\* Mutant: only the commands table is updated.
MarkCommandWritten(request_id, msg_seq_num) ==
  /\ request_id \in DOMAIN commands
  /\ commands[request_id].msg_seq_num = msg_seq_num
  /\ commands' = [commands EXCEPT ![request_id].phase = "Written"]
  /\ UNCHANGED <<meta, outbound, transmissions, inbound, events>>

\* The mark replaces the command in both tables and keeps the wire that the
\* outbound table holds at that sequence number.
MarkOutboundWritten(request_id, msg_seq_num) ==
  /\ request_id \in DOMAIN commands
  /\ commands[request_id].msg_seq_num = msg_seq_num
  /\ msg_seq_num \in DOMAIN outbound
  /\ LET written == [commands[request_id] EXCEPT !.phase = "Written"]
     IN  /\ commands' = [commands EXCEPT ![request_id] = written]
         /\ outbound' = [outbound EXCEPT ![msg_seq_num].command = written]
  /\ UNCHANGED <<meta, transmissions, inbound, events>>

CommitTransmission(t) ==
  /\ transmissions' =
       Inserted(transmissions, meta.next_transmission,
                [msg_seq_num |-> t.msg_seq_num, kind |-> t.kind,
                 wire |-> t.wire, phase |-> "Journaled"])
  /\ meta' = [meta EXCEPT !.next_transmission = @ + 1]
  /\ UNCHANGED <<commands, outbound, inbound, events>>

MarkTransmissionWritten(id) ==
  /\ id \in DOMAIN transmissions
  /\ transmissions' = [transmissions EXCEPT ![id].phase = "Written"]
  /\ UNCHANGED <<meta, commands, outbound, inbound, events>>

\* The received message, its event and both counters move together.
CommitInbound(c) ==
  /\ c.msg_seq_num = meta.next_in
  /\ c.event_id = meta.next_event
  /\ c.next_in_after > meta.next_in
  /\ inbound' = Inserted(inbound, c.msg_seq_num,
                         [msg_seq_num |-> c.msg_seq_num, wire |-> c.wire,
                          event_id |-> c.event_id])
  /\ events' = Inserted(events, c.event_id, c.event)
  /\ meta' = [meta EXCEPT !.next_in = c.next_in_after, !.next_event = @ + 1]
  /\ UNCHANGED <<commands, outbound, transmissions>>

\* Mutant: the event id is not used up.
ResyncInboundSameEvent(next_in_after, event_id, event) ==
  /\ next_in_after # 0
  /\ event_id = meta.next_event
  /\ events' = Inserted(events, event_id, event)
  /\ meta' = [meta EXCEPT !.next_in = next_in_after]
  /\ UNCHANGED <<commands, outbound, transmissions, inbound>>

\* Moves the inbound expectation in either direction; the rows of the old
\* numbering stay in the inbound table.
ResyncInbound(next_in_after, event_id, event) ==
  /\ next_in_after # 0
  /\ event_id = meta.next_event
  /\ events' = Inserted(events, event_id, event)
  /\ meta' = [meta EXCEPT !.next_in = next_in_after, !.next_event = @ + 1]
  /\ UNCHANGED <<commands, outbound, transmissions, inbound>>

\* Mutants: what a reset may forget to do, or do too much.
ResetTo(counters, kept_commands, kept_transmissions) ==
  /\ outbound' = NoRows
  /\ inbound' = NoRows
  /\ transmissions' = kept_transmissions
  /\ commands' = kept_commands
  /\ meta' = counters
  /\ UNCHANGED events
FreshCounters(next_event) ==
  [next_out |-> 1, next_in |-> 1, next_transmission |-> 1, next_event |-> next_event]

ResetToZero ==
  ResetTo([FreshCounters(meta.next_event + 1) EXCEPT !.next_out = 0], commands, NoRows)
ResetKeepsTransmissions ==
  ResetTo(FreshCounters(meta.next_event + 1), commands, transmissions)
ResetForgetsCommands == ResetTo(FreshCounters(meta.next_event + 1), NoRows, NoRows)
ResetRestartsEvents == ResetTo(FreshCounters(1), commands, NoRows)
ResetSameEvent == ResetTo(FreshCounters(meta.next_event), commands, NoRows)
ResetKeepsNextIn ==
  ResetTo([FreshCounters(meta.next_event + 1) EXCEPT !.next_in = meta.next_in],
          commands, NoRows)

\* ResetSeqNumFlag=Y: the tables keyed by sequence number are emptied, the
\* commands and events are kept, and the reset consumes one event id.
ResetSequences ==
  /\ outbound' = NoRows
  /\ transmissions' = NoRows
  /\ inbound' = NoRows
  /\ meta' = [next_out |-> 1, next_in |-> 1, next_transmission |-> 1,
              next_event |-> meta.next_event + 1]
  /\ UNCHANGED <<commands, events>>

\* recover and the four Load operations run in a read transaction.
Load == UNCHANGED vars

\* TransmissionIds and EventIds also bound the two counters that no client
\* names when it makes them grow.
Next ==
  \/ \E c \in OutboundCommits : CommitOutbound(c)
  \/ \E r \in RequestIds, n \in SeqNums : MarkOutboundWritten(r, n)
  \/ meta.next_transmission \in TransmissionIds
     /\ \E t \in TransmissionCommits : CommitTransmission(t)
  \/ \E id \in TransmissionIds : MarkTransmissionWritten(id)
  \/ \E c \in InboundCommits : CommitInbound(c)
  \/ \E n \in SeqNums, e \in EventIds, event \in Events :
        ResyncInbound(n, e, event)
  \/ meta.next_event \in EventIds /\ ResetSequences
  \/ Load

Spec == Init /\ [][Next]_vars

(***************************************************************************)
(* Properties.                                                             *)
(***************************************************************************)
\* Every table is a partial function to its record type: what serde reads
\* back is what an operation wrote.
TypeOK ==
  /\ meta \in Meta
  /\ DOMAIN commands \subseteq RequestIds
  /\ \A r \in DOMAIN commands : commands[r] \in CommandRecord
  /\ DOMAIN outbound \subseteq Nat
  /\ \A n \in DOMAIN outbound : outbound[n] \in OutboundRecord
  /\ DOMAIN transmissions \subseteq Nat
  /\ \A id \in DOMAIN transmissions : transmissions[id] \in TransmissionRecord
  /\ DOMAIN inbound \subseteq Nat
  /\ \A n \in DOMAIN inbound : inbound[n] \in InboundRecord
  /\ DOMAIN events \subseteq Nat
  /\ \A e \in DOMAIN events : events[e] \in Events

\* The numbers journaled since the last reset have no hole: a replay of any
\* range finds a row for every sequence number and every transmission id
\* below its counter (load_outbound_range would silently skip a hole).
JournalContiguous ==
  /\ DOMAIN outbound = 1..(meta.next_out - 1)
  /\ DOMAIN transmissions = 1..(meta.next_transmission - 1)

\* The two copies of a command never diverge: the row a replay reads and the
\* row a retry or a query reads say the same, also after a mark that reaches
\* the journal late, in another epoch than the commit it belongs to.
CopiesAgree ==
  \A n \in DOMAIN outbound :
     LET copy == outbound[n].command
     IN  /\ copy.msg_seq_num = n
         /\ copy.request_id \in DOMAIN commands
         /\ commands[copy.request_id] = copy

\* A received message and its event are one unit: every inbound row has its
\* own event, and no event id at or above the counter is in use.
InboundEventsPaired ==
  /\ \A e \in DOMAIN events : e < meta.next_event
  /\ \A n \in DOMAIN inbound :
        /\ inbound[n].msg_seq_num = n
        /\ inbound[n].event_id \in DOMAIN events
        /\ \A k \in DOMAIN inbound :
              inbound[k].event_id = inbound[n].event_id => k = n

\* A command, once journaled, is never forgotten, never changes identity or
\* sequence number, and never goes back from Written to Journaled, whatever
\* operations follow, resets included: a retry in any later epoch gets the
\* answer of the first request.
CommandsDurable ==
  [][\A r \in DOMAIN commands :
        /\ r \in DOMAIN commands'
        /\ commands'[r] \in {commands[r],
                             [commands[r] EXCEPT !.phase = "Written"]}]_vars

\* The event log is append-only: no operation overwrites or drops an event,
\* although every one of them names the id it writes itself.
EventsAppendOnly ==
  [][\A e \in DOMAIN events :
        e \in DOMAIN events' /\ events'[e] = events[e]]_vars
=============================================================================
