SPECIFICATION Spec
CONSTANTS
  Events <- MCEvents
  NoValue = NoValue
  None = None
  Writers = {"db_writer", "verifier"}
  Calls <- MCCalls
  MaxNow = 1
INVARIANTS TypeOK NothingLost VersionsBounded
