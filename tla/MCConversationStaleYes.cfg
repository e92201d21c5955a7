SPECIFICATION Spec
CONSTANTS
  silence = silence
  yes = yes
  okay = okay
  no = no
  sale = sale
  amount = amount
  fix = fix
  hello = hello
  tapSave = tapSave
  tapDiscard = tapDiscard
  tapFix = tapFix
  Words <- MCWords
  Silence = silence
  Means <- MCMeans
  Keyword <- MCKeyword
  Guess <- MCRightGuess
  Amounts <- GoodAmounts
  Messages <- SaleThenVoice
  MaxTurns = 3
  MaxInFlight = 1
  MaxFaults = 1
  MaxCrashes = 0
INVARIANT CancelWritesNothing
CHECK_DEADLOCK FALSE
