SPECIFICATION FairSpec
CONSTANTS
  Clients = {c1}
  MaxSessions = 2
  EventCap = 2
  ReconnectInitial = 1
  ReconnectMax = 3
INVARIANTS
  ManagerTypeOK
PROPERTIES
  KeepsTheDirectory
  EndedSessionLeavesSlot
  AbandonedSessionsEnd
