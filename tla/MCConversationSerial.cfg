SPECIFICATION Spec
CONSTANTS
  silence = silence
  yes = yes
  okay = okay
  no = no
  sale = sale
  amount = amount
  fix = fix
  hello = hello
  tapSave = tapSave
  tapDiscard = tapDiscard
  tapFix = tapFix
  Words <- MCWords
  Silence = silence
  Means <- MCMeans
  Keyword <- MCKeyword
  Guess <- MCAnyGuess
  Amounts <- SavableOrNot
  Messages <- Serial
  MaxTurns = 4
  MaxInFlight = 1
  MaxFaults = 1
  MaxCrashes = 1
INVARIANTS SavedOnce DeclinedStaysOut
PROPERTY ImplementsConsent
CHECK_DEADLOCK FALSE
