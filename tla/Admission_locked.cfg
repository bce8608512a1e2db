SPECIFICATION Spec
CONSTANTS
  Authors = {ann, wil}
  Whitelist = {wil}
  NoAuthor = NoAuthor
  AdmissionCost = 2
  CostPerEvent = 0
  SignUps = TRUE
  DirectMessage = TRUE
  Capacity = 2
  MaxInvoices = 2
  MaxHooks = 1
  MaxEvents = 2
INVARIANTS AdmittedCanWrite
