SPECIFICATION Spec
CONSTANTS
  Engines = {"sqlite", "postgres"}
  Keys <- MCKeys
  Events <- MCEvents
  RawFilters <- MCRawFilters
  Requests <- MCRequests
  Letters = {"t", "e"}
  EvenHex = {"ab"}
  OddHex = {"abc"}
  MaxRows = 2
  LastStamp = 5
  LimitScrapers = TRUE
  MaxTime = 2
INVARIANTS TypeOK SameAnswer FoundIsHeard DelegationStands
PROPERTIES LimitKeepsNewest
CHECK_DEADLOCK FALSE
