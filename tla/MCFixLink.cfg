SPECIFICATION LinkSpec
CONSTANTS
  Requests = {r1}
  Fingerprints = {f1}
  NoClOrdId = NoClOrdId
  InFrames <- VenueFrames
  HeartBtInt = 1
  GapLimit = 10
  ResetOnLogon = {FALSE}
  DirectSubmit = TRUE
  MaxOut = 5
  MaxEvent = 8
  VenueRestarts = FALSE
  Ticks = FALSE
  Logouts = FALSE
  MaxLog = 5
INVARIANTS
  LinkTypeOK
  NoExecutionLost
PROPERTIES
  ReplayRecovers
