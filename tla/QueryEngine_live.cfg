SPECIFICATION FairSpec
CONSTANTS
  Clients = {c1}
  SubIds = {s1}
  Events = {"e1"}
  MaxSubs = 1
  Permits = 1
  Cap = 1
  BroadcastCap = 1
  CheckEvery = 1
  MaxQueries = 3
  Requests <- OneEventRequests
  LiveOnly <- NoRequests
  NoRequest = NoRequest
PROPERTIES OnlyTheSendRace
CHECK_DEADLOCK FALSE
