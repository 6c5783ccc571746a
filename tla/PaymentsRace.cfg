SPECIFICATION PreviewSpec
CONSTANTS
  l1 = l1
  i1 = i1
  f1 = f1
  None = None
  Applies = {a1, a2, a3}
  Reverses = {}
  Waives = {w1}
  Loans = {l1}
  Items = {i1}
  Fees = {f1}
  ItemLoan <- AllOfLoan1
  ScheduledTotal <- Due
  FeeAmount <- Owed
  Assessed = {}
  Loan0 <- OneLoan
  Requests <- Usual
  MaxFaults = 1
  Previewers = {a3}
  Amounts = {1, 20}
  FeesByDue <- OneFee
CHECK_DEADLOCK FALSE
INVARIANTS
  TypeOK
  NumbersDense
  NeverOverReduced
  PaidItemIsCovered
  PaidFeeIsCovered
  SuggestionsAreAccepted
