SPECIFICATION Spec
CONSTANTS
  Requests = {r1, r2}
  Fingerprints = {f1, f2}
  NoClOrdId = NoClOrdId
  InFrames <- SessionFrames
  HeartBtInt = 1
  GapLimit = 2
  ResetOnLogon = {FALSE}
  DirectSubmit = TRUE
  MaxOut = 4
  MaxEvent = 5
SYMMETRY Symmetry
INVARIANTS
  WireJournaled
  SequenceUnbroken
  GapFillsSkipNoOrder
  CountersMatch
  EstablishedHasNoGap
  BufferAhead
PROPERTIES
  OrdersKeepTheLedger
  PhasesFollowLife
