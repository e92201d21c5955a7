SPECIFICATION Spec
CONSTANTS
  silence = silence
  haggle = haggle
  haggle80 = haggle80
  offer80 = offer80
  offer205 = offer205
  offer300 = offer300
  setPrice = setPrice
  yes = yes
  ok = ok
  less = less
  more = more
  thinking = thinking
  Words <- MCWords
  Silence <- silence
  Offer <- MCOffer
  Signal <- MCSignal
  Affirmative <- MCAffirmative
  Blocked <- MCBlocked
  Classes <- MCClasses
  Messages <- Hasty
  Profiles <- AnySeller
  MaxTurns = 3
  MaxInFlight = 2
  MaxFaults = 1
  MaxChanges = 1
INVARIANTS SettledWasNamed NoDealBelowFloor PriceCoversCost BargainInv
CHECK_DEADLOCK FALSE
