SPECIFICATION Spec
CONSTANTS
  RequestIds = {r1, r2}
  Fingerprints = {f1}
  ClOrdIds = {c1}
  Wires = {w1}
  Kinds = {gap_fill}
  Events = {ev1, ev2}
  SeqNums <- MCSeqNums
  EventIds <- MCEventIds
  TransmissionIds <- MCTransmissionIds
INVARIANTS
  TypeOK
  JournalContiguous
  CopiesAgree
  InboundEventsPaired
PROPERTIES
  CommandsDurable
  EventsAppendOnly
