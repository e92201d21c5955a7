SPECIFICATION Spec
CONSTANTS
  silence = silence
  yes = yes
  okay = okay
  no = no
  sale = sale
  amount = amount
  fix = fix
  hello = hello
  tapSave = tapSave
  tapDiscard = tapDiscard
  tapFix = tapFix
  Words <- MCWords
  Silence = silence
  Means <- MCMeans
  Keyword <- MCKeyword
  Guess <- MCAnyGuess
  Amounts <- GoodAmounts
  Messages <- Typed
  MaxTurns = 3
  MaxInFlight = 2
  MaxFaults = 1
  MaxCrashes = 1
INVARIANTS ConsentGiven ExtractsOwnMessage TypistInv
CHECK_DEADLOCK FALSE
