SPECIFICATION Spec
CONSTANTS
  r1 = r1
  r2 = r2
  u1 = u1
  Requests = {r1, r2}
  Users = {u1}
  MAX_CATALOG_CREATIONS_PER_DAY = 1
  MAX_LEDGER_REPORTS_PER_DAY = 1
  FreeLimit = 1
  MAX_POLL_ATTEMPTS = 2
  SaarasModels = 2
  DaysPerMonth = 1
  MaxDays = 2
  MaxAsked = 3
INVARIANTS CapHeld OnlyAdmittedWork PosterPaidOnce DeliveredIsStored LimitHeld RefusedForCause MeteringInv
SYMMETRY MCHandlers
CHECK_DEADLOCK FALSE
