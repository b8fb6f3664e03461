SPECIFICATION Spec
CONSTANTS
  Requests = {r1}
  Fingerprints = {f1}
  NoClOrdId = NoClOrdId
  InFrames <- LateFrames
  HeartBtInt = 1
  GapLimit = 2
  ResetOnLogon = {FALSE}
  DirectSubmit = TRUE
  MaxOut = 5
  MaxEvent = 5
INVARIANTS
  BothJournaled
PROPERTIES
  OneLedger
