SPECIFICATION Spec
CONSTANTS
  silence = silence
  haggle = haggle
  haggle80 = haggle80
  offer80 = offer80
  offer205 = offer205
  offer300 = offer300
  setPrice = setPrice
  yes = yes
  ok = ok
  less = less
  more = more
  thinking = thinking
  Words <- MCWords
  Silence <- silence
  Offer <- MCOffer
  Signal <- MCSignal
  Affirmative <- MCAffirmative
  Blocked <- MCBlocked
  Classes <- MCClasses
  Messages <- Patient
  Profiles <- OneSeller
  MaxTurns = 6
  MaxInFlight = 1
  MaxFaults = 1
  MaxChanges = 0
INVARIANTS BargainCapped 
CHECK_DEADLOCK FALSE
