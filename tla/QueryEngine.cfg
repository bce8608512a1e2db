SPECIFICATION Spec
CONSTANTS
  Clients = {c1}
  SubIds = {s1, s2}
  Events = {"e1", "e2"}
  Requests <- MixedRequests
  LiveOnly <- LiveRequests
  NoRequest = NoRequest
  MaxSubs = 2
  Permits = 1
  Cap = 1
  BroadcastCap = 1
  CheckEvery = 2
  MaxQueries = 2
SYMMETRY Symmetry
INVARIANTS TypeOK PermitsConserved OrphansCancelled NoGap
CHECK_DEADLOCK FALSE
