SPECIFICATION Spec
CONSTANTS
  a1 = a1
  s1 = s1
  v1 = v1
  Calls = {a1, s1, v1}
  Kind <- Mixed
  Cost <- MCCost
  DegradeAt = 2
  HardStopAt = 4
  FailureThreshold = 1
  Cooldown = 1
  StatusTTL = 2
  MaxLatency = 1
  MaxFaults = 1
  MaxClock = 4
INVARIANTS RefusedForCause BooksBalance RouterInv
PROPERTIES BudgetHeeded DownVendorLeftAlone
CHECK_DEADLOCK FALSE
