SPECIFICATION LiveSpec
CONSTANTS
  Requests = {r1}
  Fingerprints = {f1}
  NoClOrdId = NoClOrdId
  InFrames <- VenueFrames
  HeartBtInt = 1
  GapLimit = 10
  ResetOnLogon = {FALSE}
  DirectSubmit = FALSE
  MaxOut = 5
  MaxEvent = 5
  VenueRestarts = FALSE
  Ticks = FALSE
  Logouts = FALSE
  MaxLog = 4
PROPERTIES
  PeerGapCloses
