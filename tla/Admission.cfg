SPECIFICATION FairSpec
CONSTANTS
  Authors = {ann, wil}
  Whitelist = {wil}
  NoAuthor = NoAuthor
  AdmissionCost = 2
  CostPerEvent = 1
  SignUps = TRUE
  DirectMessage = TRUE
  Capacity = 2
  MaxInvoices = 2
  MaxHooks = 1
  MaxEvents = 2
INVARIANTS TypeOK PaidFor CreditedOnce OneOpenInvoice
PROPERTIES PaidIsAdmitted
