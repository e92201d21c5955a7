SPECIFICATION FairSpec
CONSTANTS
  r1 = r1
  r2 = r2
  Requests = {r1, r2}
  Texts <- MCTexts
  ModelAnswers <- MCModelAnswers
  NoLine = NoLine
  MAX_TRANSACTIONS_PER_ENTRY = 2
  MaxRupees = 100
  MaxLines = 3
  MaxParses = 2
  MaxAttempts = 2
  MaxFaults = 1
INVARIANTS AnswersOwnText OneNumberIsTheAmount AmountsWereSaid SavedAsShown WebLedgerInv
PROPERTIES ReadingAnswered
CHECK_DEADLOCK FALSE
