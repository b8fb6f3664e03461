SPECIFICATION Spec
CONSTANTS
  Requests = {r1}
  Fingerprints = {f1}
  NoClOrdId = NoClOrdId
  InFrames <- ResetFrames
  HeartBtInt = 1
  GapLimit = 2
  ResetOnLogon = {TRUE}
  DirectSubmit = FALSE
  MaxOut = 3
  MaxEvent = 6

  
PROPERTIES
  OrdersKeepTheLedger
