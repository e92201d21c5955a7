SPECIFICATION FairSpec
CONSTANTS
  m1 = m1
  m2 = m2
  m3 = m3
  p1 = p1
  p2 = p2
  Messages <- MCMessages2
  Phones = {p1}
  Sender <- MCSender2
  Attempts = {1, 2}
  Refused = {}
  Unsupported <- MCUnsupported
  MaxPerHour = 1
  MaxHour = 3
  RetryWindow = 0
  MaxLatency = 1
  DedupRetention = 2
  RateRetention = 2
  MaxFaults = 1
  MaxCrashes = 1
INVARIANTS AtMostOneTurn RateBound IInv
PROPERTIES ImplementsAdmission DeliveredIsAnswered
CHECK_DEADLOCK FALSE
