SPECIFICATION Spec
CONSTANTS
  seller = seller
  boss = boss
  sita = sita
  gita = gita
  admin = admin
  Numbers = {seller, boss}
  Handles = {gita, admin}
  Digits <- SellersDigits
  Ends <- SellersDigits
  Spells <- SellersNumber
  Tails <- OtherTails
  Stem <- Short
  AdminLike = {}
  AdminNumber = boss
  Admin = admin
  Nobody = Nobody
  r1 = r1
  r2 = r2
  Requests = {r1, r2}
  Strangers <- MCWriter
  Writers <- MCWriter
  Signups <- MCRegistered
  Messages <- MCTexted
  MaxLines = 1
  MaxBatches = 1
  MaxAsked = 3
  MaxFaults = 1
INVARIANTS FiledUnderCaller ReadyHasRow ListsOwnBook AccountsInv
SYMMETRY MCHandlers
CHECK_DEADLOCK FALSE
