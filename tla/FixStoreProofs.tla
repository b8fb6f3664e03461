--------------------------- MODULE FixStoreProofs ---------------------------
(***************************************************************************)
(* The journal's invariants and its two durability properties, for every   *)
(* set of request ids, wires, sequence numbers and event ids.              *)
(*                                                                         *)
(* TypeOK is inductive as it stands.  CopiesAgree needs to know that the   *)
(* commands table files every record under its own request id (KeyedById): *)
(* without it a mark could write a record of another request into the      *)
(* outbound table.  The other two need TypeOK only.                        *)
(***************************************************************************)
EXTENDS FixStore, TLAPS

\* Rows of the commands table are filed under the request id they hold.
KeyedById == \A r \in DOMAIN commands : commands[r].request_id = r

USE DEF Counter

(***************************************************************************)
(* The table operation.                                                    *)
(***************************************************************************)
\* An insert of a typed row keeps a table typed.
LEMMA InsertedTyped ==
  ASSUME NEW table, NEW key, NEW row, NEW Keys, NEW Rows,
         DOMAIN table \subseteq Keys, \A k \in DOMAIN table : table[k] \in Rows,
         key \in Keys, row \in Rows
  PROVE  /\ DOMAIN Inserted(table, key, row) \subseteq Keys
         /\ \A k \in DOMAIN Inserted(table, key, row) :
               Inserted(table, key, row)[k] \in Rows
  BY DEF Inserted

\* The empty table has no keys.
LEMMA NoRowsEmpty == DOMAIN NoRows = {}
  BY DEF NoRows

(***************************************************************************)
(* Types.                                                                  *)
(***************************************************************************)
\* A journal as initialize creates it is well typed.
LEMMA InitType == Init => TypeOK
  BY NoRowsEmpty DEF Init, TypeOK, Meta

\* Every operation keeps the journal well typed.
LEMMA NextType == ASSUME TypeOK, [Next]_vars PROVE TypeOK'
<1> USE StoreConstants DEF TypeOK
<1>1. ASSUME NEW c \in OutboundCommits, CommitOutbound(c) PROVE TypeOK'
  <2>1. /\ NewCommand(c) \in CommandRecord
        /\ [command |-> NewCommand(c), wire |-> c.wire] \in OutboundRecord
        /\ c.request_id \in RequestIds /\ c.msg_seq_num \in Nat
    BY DEF OutboundCommits, NewCommand, CommandRecord, OutboundRecord, Phases
  <2>2. meta' \in Meta
    BY <1>1 DEF CommitOutbound, Meta
  <2>3. /\ DOMAIN commands' \subseteq RequestIds
        /\ \A r \in DOMAIN commands' : commands'[r] \in CommandRecord
    BY <1>1, <2>1, InsertedTyped DEF CommitOutbound
  <2>4. /\ DOMAIN outbound' \subseteq Nat
        /\ \A n \in DOMAIN outbound' : outbound'[n] \in OutboundRecord
    BY <1>1, <2>1, InsertedTyped DEF CommitOutbound
  <2> QED BY <1>1, <2>2, <2>3, <2>4 DEF CommitOutbound
<1>2. ASSUME NEW r \in RequestIds, NEW n \in SeqNums, MarkOutboundWritten(r, n)
      PROVE  TypeOK'
  <2> DEFINE written == [commands[r] EXCEPT !.phase = "Written"]
  <2>1. written \in CommandRecord
    BY <1>2 DEF MarkOutboundWritten, CommandRecord, Phases
  <2>2. /\ commands' = [commands EXCEPT ![r] = written]
        /\ outbound' = [outbound EXCEPT ![n].command = written]
    BY <1>2 DEF MarkOutboundWritten
  <2>3. /\ DOMAIN commands' \subseteq RequestIds
        /\ \A q \in DOMAIN commands' : commands'[q] \in CommandRecord
    BY <2>1, <2>2
  <2>4. [outbound[n] EXCEPT !.command = written] \in OutboundRecord
    BY <1>2, <2>1 DEF MarkOutboundWritten, OutboundRecord
  <2>5. /\ DOMAIN outbound' \subseteq Nat
        /\ \A k \in DOMAIN outbound' : outbound'[k] \in OutboundRecord
    BY <2>2, <2>4
  <2> QED BY <1>2, <2>3, <2>5 DEF MarkOutboundWritten
<1>3. ASSUME NEW t \in TransmissionCommits, CommitTransmission(t) PROVE TypeOK'
  <2>1. [msg_seq_num |-> t.msg_seq_num, kind |-> t.kind, wire |-> t.wire,
         phase |-> "Journaled"] \in TransmissionRecord
    BY DEF TransmissionCommits, TransmissionRecord, Phases
  <2>2. meta' \in Meta /\ meta.next_transmission \in Nat
    BY <1>3 DEF CommitTransmission, Meta
  <2>3. /\ DOMAIN transmissions' \subseteq Nat
        /\ \A id \in DOMAIN transmissions' : transmissions'[id] \in TransmissionRecord
    BY <1>3, <2>1, <2>2, InsertedTyped DEF CommitTransmission
  <2> QED BY <1>3, <2>2, <2>3 DEF CommitTransmission
<1>4. ASSUME NEW id \in TransmissionIds, MarkTransmissionWritten(id) PROVE TypeOK'
  BY <1>4 DEF MarkTransmissionWritten, TransmissionRecord, Phases
<1>5. ASSUME NEW c \in InboundCommits, CommitInbound(c) PROVE TypeOK'
  <2>1. /\ [msg_seq_num |-> c.msg_seq_num, wire |-> c.wire, event_id |-> c.event_id]
              \in InboundRecord
        /\ c.msg_seq_num \in Nat /\ c.event_id \in Nat /\ c.event \in Events
        /\ c.next_in_after \in Nat
    BY DEF InboundCommits, InboundRecord
  <2>2. meta' \in Meta
    <3>1. /\ meta.next_in \in Counter /\ meta.next_event \in Counter
          /\ c.next_in_after > meta.next_in
          /\ meta' = [meta EXCEPT !.next_in = c.next_in_after, !.next_event = @ + 1]
      BY <1>5 DEF CommitInbound, Meta
    <3>2. c.next_in_after \in Counter /\ meta.next_event + 1 \in Counter
      BY <2>1, <3>1
    <3> QED BY <3>1, <3>2 DEF Meta
  <2>3. /\ DOMAIN inbound' \subseteq Nat
        /\ \A n \in DOMAIN inbound' : inbound'[n] \in InboundRecord
    <3> DEFINE row == [msg_seq_num |-> c.msg_seq_num, wire |-> c.wire,
                       event_id |-> c.event_id]
    <3>1. /\ inbound' = Inserted(inbound, c.msg_seq_num, row)
          /\ row \in InboundRecord /\ c.msg_seq_num \in Nat
      BY <1>5, <2>1 DEF CommitInbound
    <3> HIDE DEF row
    <3> QED BY <3>1, InsertedTyped
  <2>4. /\ DOMAIN events' \subseteq Nat
        /\ \A e \in DOMAIN events' : events'[e] \in Events
    BY <1>5, <2>1, InsertedTyped DEF CommitInbound
  <2> QED BY <1>5, <2>2, <2>3, <2>4 DEF CommitInbound
<1>6. ASSUME NEW n \in SeqNums, NEW e \in EventIds, NEW event \in Events,
             ResyncInbound(n, e, event)
      PROVE  TypeOK'
  <2>1. meta' \in Meta
    <3>1. /\ n \in Counter /\ meta.next_event + 1 \in Counter
          /\ meta' = [meta EXCEPT !.next_in = n, !.next_event = @ + 1]
      BY <1>6 DEF ResyncInbound, Meta
    <3> QED BY <3>1 DEF Meta
  <2>2. /\ DOMAIN events' \subseteq Nat
        /\ \A id \in DOMAIN events' : events'[id] \in Events
    BY <1>6, InsertedTyped DEF ResyncInbound
  <2> QED BY <1>6, <2>1, <2>2 DEF ResyncInbound
<1>7. ASSUME ResetSequences PROVE TypeOK'
  BY <1>7, NoRowsEmpty DEF ResetSequences, Meta
<1>8. ASSUME UNCHANGED vars PROVE TypeOK'
  BY <1>8 DEF vars
<1> QED BY <1>1, <1>2, <1>3, <1>4, <1>5, <1>6, <1>7, <1>8 DEF Next, Load

\* Every reachable journal is well typed (serde never meets a row that no
\* operation wrote).
THEOREM StoreTypeCorrect == Spec => []TypeOK
<1>1. Init => TypeOK
  BY InitType
<1>2. TypeOK /\ [Next]_vars => TypeOK'
  BY NextType
<1> QED BY <1>1, <1>2, PTL DEF Spec

(***************************************************************************)
(* JournalContiguous.                                                      *)
(***************************************************************************)
\* Every operation keeps the two numbered tables without holes: a commit adds
\* the row at the counter, a mark adds none, a reset empties table and counter.
LEMMA NextContiguous ==
  ASSUME TypeOK, JournalContiguous, [Next]_vars PROVE JournalContiguous'
<1> USE StoreConstants DEF JournalContiguous
<1>0. meta.next_out \in Counter /\ meta.next_transmission \in Counter
  BY DEF TypeOK, Meta
<1>1. ASSUME NEW c \in OutboundCommits, CommitOutbound(c) PROVE JournalContiguous'
  <2>1. DOMAIN outbound' = 1..(meta.next_out - 1) \cup {meta.next_out}
    BY <1>1 DEF Inserted, CommitOutbound
  <2>2. /\ meta'.next_out = meta.next_out + 1
        /\ meta'.next_transmission = meta.next_transmission
        /\ transmissions' = transmissions
    BY <1>1 DEF CommitOutbound, TypeOK, Meta
  <2> QED BY <1>0, <2>1, <2>2
<1>2. ASSUME NEW t \in TransmissionCommits, CommitTransmission(t)
      PROVE  JournalContiguous'
  <2>1. DOMAIN transmissions' = 1..(meta.next_transmission - 1) \cup {meta.next_transmission}
    BY <1>2 DEF Inserted, CommitTransmission
  <2>2. /\ meta'.next_transmission = meta.next_transmission + 1
        /\ meta'.next_out = meta.next_out
        /\ outbound' = outbound
    BY <1>2 DEF CommitTransmission, TypeOK, Meta
  <2> QED BY <1>0, <2>1, <2>2
<1>3. ASSUME ResetSequences PROVE JournalContiguous'
  BY <1>3, NoRowsEmpty DEF ResetSequences
<1>4. ASSUME /\ DOMAIN outbound' = DOMAIN outbound
             /\ DOMAIN transmissions' = DOMAIN transmissions
             /\ meta'.next_out = meta.next_out
             /\ meta'.next_transmission = meta.next_transmission
      PROVE  JournalContiguous'
  BY <1>4
<1>5. ASSUME NEW r \in RequestIds, NEW n \in SeqNums, MarkOutboundWritten(r, n)
      PROVE  JournalContiguous'
  BY <1>5, <1>4 DEF MarkOutboundWritten
<1>6. ASSUME NEW id \in TransmissionIds, MarkTransmissionWritten(id)
      PROVE  JournalContiguous'
  BY <1>6, <1>4 DEF MarkTransmissionWritten
<1>7. ASSUME NEW c \in InboundCommits, CommitInbound(c) PROVE JournalContiguous'
  BY <1>7, <1>4 DEF CommitInbound, TypeOK, Meta
<1>8. ASSUME NEW n \in SeqNums, NEW e \in EventIds, NEW event \in Events,
             ResyncInbound(n, e, event)
      PROVE  JournalContiguous'
  BY <1>8, <1>4 DEF ResyncInbound, TypeOK, Meta
<1>9. ASSUME UNCHANGED vars PROVE JournalContiguous'
  BY <1>9, <1>4 DEF vars
<1> QED BY <1>1, <1>2, <1>3, <1>5, <1>6, <1>7, <1>8, <1>9 DEF Next, Load

\* A replay of any range below next_out finds a row for every number, in
\* every epoch.
THEOREM StoreContiguous == Spec => []JournalContiguous
<1>1. Init => JournalContiguous
  BY NoRowsEmpty DEF Init, JournalContiguous
<1>2. TypeOK /\ JournalContiguous /\ [Next]_vars => JournalContiguous'
  BY NextContiguous
<1> QED BY <1>1, <1>2, StoreTypeCorrect, PTL DEF Spec

(***************************************************************************)
(* CopiesAgree, with KeyedById.                                            *)
(***************************************************************************)
\* Every operation keeps the two copies of a command equal and the commands
\* table keyed by the id in the record.
LEMMA NextAgree ==
  ASSUME TypeOK, KeyedById, CopiesAgree, [Next]_vars
  PROVE  KeyedById' /\ CopiesAgree'
<1> USE DEF KeyedById, CopiesAgree
<1>1. ASSUME NEW c \in OutboundCommits, CommitOutbound(c)
      PROVE  KeyedById' /\ CopiesAgree'
  <2> DEFINE row == [command |-> NewCommand(c), wire |-> c.wire]
  <2>1. /\ c.request_id \notin DOMAIN commands
        /\ commands' = Inserted(commands, c.request_id, NewCommand(c))
        /\ outbound' = Inserted(outbound, c.msg_seq_num, row)
    BY <1>1 DEF CommitOutbound
  <2>2. /\ NewCommand(c).request_id = c.request_id
        /\ NewCommand(c).msg_seq_num = c.msg_seq_num
        /\ row.command = NewCommand(c)
    BY DEF NewCommand
  <2> HIDE DEF row
  <2>3. KeyedById'
    BY <2>1, <2>2 DEF Inserted
  <2>4. ASSUME NEW n \in DOMAIN outbound'
        PROVE  /\ outbound'[n].command.msg_seq_num = n
               /\ outbound'[n].command.request_id \in DOMAIN commands'
               /\ commands'[outbound'[n].command.request_id] = outbound'[n].command
    <3>1. CASE n = c.msg_seq_num
      BY <2>1, <2>2, <3>1 DEF Inserted
    <3>2. CASE n # c.msg_seq_num
      BY <2>1, <2>4, <3>2 DEF Inserted
    <3> QED BY <3>1, <3>2
  <2> QED BY <2>3, <2>4
<1>2. ASSUME NEW r \in RequestIds, NEW n \in SeqNums, MarkOutboundWritten(r, n)
      PROVE  KeyedById' /\ CopiesAgree'
  <2> DEFINE written == [commands[r] EXCEPT !.phase = "Written"]
  <2>1. /\ r \in DOMAIN commands /\ n \in DOMAIN outbound
        /\ commands[r].msg_seq_num = n
        /\ commands' = [commands EXCEPT ![r] = written]
        /\ outbound' = [outbound EXCEPT ![n].command = written]
    BY <1>2 DEF MarkOutboundWritten
  <2>2. /\ written.request_id = commands[r].request_id
        /\ written.msg_seq_num = commands[r].msg_seq_num
    OBVIOUS
  <2> HIDE DEF written
  <2>3. KeyedById'
    BY <2>1, <2>2
  <2>4. ASSUME NEW k \in DOMAIN outbound'
        PROVE  /\ outbound'[k].command.msg_seq_num = k
               /\ outbound'[k].command.request_id \in DOMAIN commands'
               /\ commands'[outbound'[k].command.request_id] = outbound'[k].command
    <3>1. CASE k = n
      <4>1. outbound[n] \in OutboundRecord
        BY <2>1 DEF TypeOK
      <4>2. outbound'[k].command = written
        BY <2>1, <3>1, <4>1 DEF OutboundRecord
      <4> QED BY <2>1, <2>2, <3>1, <4>2
    <3>2. CASE k # n
      <4>1. k \in DOMAIN outbound /\ outbound'[k] = outbound[k]
        BY <2>1, <2>4, <3>2
      <4>2. outbound[k].command.request_id # r
        BY <2>1, <3>2, <4>1
      <4> QED BY <2>1, <4>1, <4>2
    <3> QED BY <3>1, <3>2
  <2> QED BY <2>3, <2>4
<1>3. ASSUME ResetSequences PROVE KeyedById' /\ CopiesAgree'
  BY <1>3, NoRowsEmpty DEF ResetSequences
<1>4. ASSUME UNCHANGED <<commands, outbound>> PROVE KeyedById' /\ CopiesAgree'
  BY <1>4
<1> QED BY <1>1, <1>2, <1>3, <1>4
        DEF Next, Load, vars, CommitTransmission, MarkTransmissionWritten,
            CommitInbound, ResyncInbound

\* The command a replay reads and the command a retry reads are the same.
THEOREM StoreCopiesAgree == Spec => []CopiesAgree
<1>1. Init => KeyedById /\ CopiesAgree
  BY NoRowsEmpty DEF Init, KeyedById, CopiesAgree
<1>2. TypeOK /\ KeyedById /\ CopiesAgree /\ [Next]_vars => KeyedById' /\ CopiesAgree'
  BY NextAgree
<1> QED BY <1>1, <1>2, StoreTypeCorrect, PTL DEF Spec

(***************************************************************************)
(* InboundEventsPaired.                                                    *)
(***************************************************************************)
\* Every operation gives an inbound row an event of its own: the new event id is
\* above every one in use.
LEMMA NextPaired ==
  ASSUME TypeOK, InboundEventsPaired, [Next]_vars PROVE InboundEventsPaired'
<1> USE StoreConstants DEF InboundEventsPaired
<1>0. /\ meta.next_event \in Counter
      /\ DOMAIN events \subseteq Nat
  BY DEF TypeOK, Meta
<1>1. ASSUME NEW c \in InboundCommits, CommitInbound(c) PROVE InboundEventsPaired'
  <2> DEFINE row == [msg_seq_num |-> c.msg_seq_num, wire |-> c.wire,
                     event_id |-> c.event_id]
  <2>1. /\ c.event_id = meta.next_event
        /\ inbound' = Inserted(inbound, c.msg_seq_num, row)
        /\ events' = Inserted(events, c.event_id, c.event)
        /\ meta'.next_event = meta.next_event + 1
    BY <1>1 DEF CommitInbound, TypeOK, Meta
  <2>2. row.msg_seq_num = c.msg_seq_num /\ row.event_id = c.event_id
    OBVIOUS
  <2> HIDE DEF row
  <2>3. \A e \in DOMAIN events' : e < meta'.next_event
    BY <1>0, <2>1 DEF Inserted
  <2>4. \A n \in DOMAIN inbound : inbound[n].event_id # c.event_id
    BY <1>0, <2>1
  <2>5. /\ DOMAIN inbound' = DOMAIN inbound \cup {c.msg_seq_num}
        /\ inbound'[c.msg_seq_num] = row
        /\ \A n \in DOMAIN inbound :
              n # c.msg_seq_num => inbound'[n] = inbound[n]
        /\ DOMAIN events' = DOMAIN events \cup {c.event_id}
    BY <2>1 DEF Inserted
  <2> QED BY <2>2, <2>3, <2>4, <2>5
<1>2. ASSUME NEW n \in SeqNums, NEW e \in EventIds, NEW event \in Events,
             ResyncInbound(n, e, event)
      PROVE  InboundEventsPaired'
  <2>1. /\ DOMAIN events' = DOMAIN events \cup {meta.next_event}
        /\ meta'.next_event = meta.next_event + 1
        /\ inbound' = inbound
    BY <1>2 DEF Inserted, ResyncInbound, TypeOK, Meta
  <2> QED BY <1>0, <2>1
<1>3. ASSUME ResetSequences PROVE InboundEventsPaired'
  BY <1>0, <1>3, NoRowsEmpty DEF ResetSequences
<1>4. ASSUME UNCHANGED <<inbound, events>>, meta'.next_event = meta.next_event
      PROVE  InboundEventsPaired'
  BY <1>4
<1>5. ASSUME NEW c \in OutboundCommits, CommitOutbound(c) PROVE InboundEventsPaired'
  BY <1>4, <1>5 DEF CommitOutbound, TypeOK, Meta
<1>6. ASSUME NEW t \in TransmissionCommits, CommitTransmission(t)
      PROVE  InboundEventsPaired'
  BY <1>4, <1>6 DEF CommitTransmission, TypeOK, Meta
<1> QED BY <1>1, <1>2, <1>3, <1>4, <1>5, <1>6
        DEF Next, Load, vars, MarkOutboundWritten, MarkTransmissionWritten

\* Every journaled inbound message has an event of its own, below the counter.
THEOREM StoreInboundPaired == Spec => []InboundEventsPaired
<1>1. Init => InboundEventsPaired
  BY NoRowsEmpty DEF Init, InboundEventsPaired
<1>2. TypeOK /\ InboundEventsPaired /\ [Next]_vars => InboundEventsPaired'
  BY NextPaired
<1> QED BY <1>1, <1>2, StoreTypeCorrect, PTL DEF Spec

(***************************************************************************)
(* What no step may do.                                                    *)
(***************************************************************************)
\* A command is never forgotten, renumbered or taken back: the answer a retry
\* or a query gets is final, across resets too.
THEOREM StoreCommandsDurable == Spec => CommandsDurable
<1> DEFINE Kept == \A r \in DOMAIN commands :
                      /\ r \in DOMAIN commands'
                      /\ commands'[r] \in {commands[r],
                                           [commands[r] EXCEPT !.phase = "Written"]}
<1>1. [Next]_vars => [Kept]_vars
  <2>1. ASSUME NEW c \in OutboundCommits, CommitOutbound(c) PROVE Kept
    <3>1. /\ c.request_id \notin DOMAIN commands
          /\ commands' = Inserted(commands, c.request_id, NewCommand(c))
      BY <2>1 DEF CommitOutbound
    <3> QED BY <3>1 DEF Inserted
  <2>2. ASSUME NEW r \in RequestIds, NEW n \in SeqNums, MarkOutboundWritten(r, n)
        PROVE  Kept
    BY <2>2 DEF MarkOutboundWritten
  <2>3. ASSUME commands' = commands PROVE Kept
    BY <2>3
  <2> QED BY <2>1, <2>2, <2>3
          DEF Next, Load, vars, CommitTransmission, MarkTransmissionWritten,
              CommitInbound, ResyncInbound, ResetSequences
<1> QED BY <1>1, PTL DEF Spec, CommandsDurable

\* No operation overwrites an event, because every client-named id must be
\* the counter, which is above every id in use (InboundEventsPaired).
THEOREM StoreEventsAppendOnly == Spec => EventsAppendOnly
<1> DEFINE Kept == \A e \in DOMAIN events :
                      e \in DOMAIN events' /\ events'[e] = events[e]
<1>1. TypeOK /\ InboundEventsPaired /\ [Next]_vars => [Kept]_vars
  <2> SUFFICES ASSUME TypeOK, InboundEventsPaired, Next PROVE Kept
    OBVIOUS
  <2>0. meta.next_event \notin DOMAIN events
    BY DEF TypeOK, Meta, InboundEventsPaired
  <2>1. ASSUME NEW c \in InboundCommits, CommitInbound(c) PROVE Kept
    BY <2>0, <2>1 DEF Inserted, CommitInbound
  <2>2. ASSUME NEW n \in SeqNums, NEW e \in EventIds, NEW event \in Events,
               ResyncInbound(n, e, event)
        PROVE  Kept
    BY <2>0, <2>2 DEF Inserted, ResyncInbound
  <2>3. ASSUME events' = events PROVE Kept
    BY <2>3
  <2> QED BY <2>1, <2>2, <2>3
          DEF Next, Load, vars, CommitOutbound, MarkOutboundWritten,
              CommitTransmission, MarkTransmissionWritten, ResetSequences
<1> QED BY <1>1, StoreTypeCorrect, StoreInboundPaired, PTL DEF Spec, EventsAppendOnly
=============================================================================
