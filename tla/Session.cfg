SPECIFICATION FairSpec
CONSTANTS
  c1 = c1  c2 = c2  u1 = u1  u2 = u2  u3 = u3
  None = None
  Conns = {c1, c2}
  Users = {u1, u2, u3}
  Events <- MCEvents
  AuthEvents <- MCAuthEvents
  Blocked = {u3}
  Exempt = {}
  BlockedTexts = {"w"}
  Window = 2
  MaxFuture = 1
  BlockedKinds = {7}
  AllowedKinds = None
  Whitelist = {u2}
  PayToRelay = TRUE
  Nip05 = TRUE
  Grpc = FALSE
  Nip42Auth = TRUE
  Nip42Dms = TRUE
  AuthWindow = 1
  QueueCap = 1
  NoticeCap = 1
  MaxAsks <- MCAsks
  MaxTime = 2
INVARIANTS TypeOK EveryAskAccounted DedupWindow PrivateMessages
PROPERTY WorkEnds
CHECK_DEADLOCK FALSE
