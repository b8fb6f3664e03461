SPECIFICATION Spec
CONSTANTS
  Requests = {r1}
  Fingerprints = {f1}
  NoClOrdId = NoClOrdId
  InFrames <- LogoutFirst
  HeartBtInt = 1
  GapLimit = 2
  ResetOnLogon = {TRUE}
  DirectSubmit = FALSE
  MaxOut = 4
  MaxEvent = 6
INVARIANT OrdersReplayable
