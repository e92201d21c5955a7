SPECIFICATION Spec
CONSTANTS
  seller = seller
  boss = boss
  sita = sita
  gita = gita
  admin = admin
  Numbers = {seller, boss}
  Handles = {sita, gita, admin}
  Digits <- NoDigits
  Ends <- NoDigits
  Spells <- NoDigits
  Tails <- AnyTail
  Stem <- Short
  AdminLike = {}
  AdminNumber = boss
  Admin = admin
  Nobody = Nobody
  r1 = r1
  r2 = r2
  Requests = {r1, r2}
  Strangers <- MCWriter
  Writers <- MCWriter
  Signups <- MCSignups
  Messages <- MCTyped
  MaxLines = 1
  MaxBatches = 1
  MaxAsked = 4
  MaxFaults = 0
INVARIANT OnlyOwnListed
CHECK_DEADLOCK FALSE
