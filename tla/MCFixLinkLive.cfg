SPECIFICATION LiveSpec
CONSTANTS
  Requests = {r1}
  Fingerprints = {f1}
  NoClOrdId = NoClOrdId
  InFrames <- VenueFrames
  HeartBtInt = 1
  GapLimit = 10
  ResetOnLogon = {FALSE}
  DirectSubmit = TRUE
  MaxOut = 4
  MaxEvent = 5
  VenueRestarts = TRUE
  Ticks = TRUE
  Logouts = TRUE
  MaxLog = 3
INVARIANTS
  OrdersTakenOnce
  NumbersNeverReused
PROPERTIES
  RecoveryEnds
  ReplayRecovers
