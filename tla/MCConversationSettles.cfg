SPECIFICATION FairSpec
CONSTANTS
  silence = silence
  yes = yes
  okay = okay
  no = no
  sale = sale
  amount = amount
  fix = fix
  hello = hello
  tapSave = tapSave
  tapDiscard = tapDiscard
  tapFix = tapFix
  Words <- MCWords
  Silence = silence
  Means <- MCMeans
  Keyword <- MCKeyword
  Guess <- MCRightGuess
  Amounts <- AmountKinds
  Messages <- Replies
  MaxTurns = 5
  MaxInFlight = 1
  MaxFaults = 1
  MaxCrashes = 0
PROPERTY YesSettles
CHECK_DEADLOCK FALSE
