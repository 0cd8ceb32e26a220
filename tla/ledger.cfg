SPECIFICATION Spec
CONSTANTS
  BankLine <- MCBankLine
  Receipts <- MCReceipts
  KeywordKonto <- MCKeywordKonto
  Blank = "blank"
  Accounts = {"3001"}
  Figures <- MCFigures
  FiscalYears = {1, 2}
  MaxLines = 2
  MaxReceipts = 2
  MaxEdits = 2
  MaxTrouble = 1
INVARIANT NothingIsPostedTwice
INVARIANT VouchersAreTheirLines
INVARIANT MatchingIsStable
PROPERTY BookedByConsent
PROPERTY SuccessIsComplete
CHECK_DEADLOCK FALSE
