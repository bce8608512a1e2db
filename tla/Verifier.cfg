SPECIFICATION FairSpec
CONSTANTS
  Profiles <- TwoNames
  NoName = NoName
  NoProfile = NoProfile
  Configs <- Settings
  Expiration = 2
  Frequency = 0
  Jitter = 0
  MaxFailures = 1
  Capacity = 1
  MaxFaults = 2
INVARIANTS TypeOK VouchedFor RecordsExclusive BroadcastOnce
PROPERTIES RefreshedOrForgotten
