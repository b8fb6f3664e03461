SPECIFICATION FairSpec
CONSTANTS
  r1 = r1
  r2 = r2
  r3 = r3
  Clients = {c1, c2}
  MaxSessions = 2
  Profile = "P"
  RuntimeMode = "certification"
  MaxQuantity = 3
  MaxNotional = 4
  MaxDecimal = 100
  Requests <- OtherRequests
  NoRequest = NoRequest
  Maximum = 1
  Second = 2
  MaxTime = 0
PROPERTIES EveryRequestAnswered
