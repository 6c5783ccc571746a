SPECIFICATION FairSpec
CONSTANTS
  l1 = l1
  i1 = i1
  f1 = f1
  None = None
  Applies = {a1, a2}
  Reverses = {r1}
  Waives = {w1}
  Loans = {l1}
  Items = {i1}
  Fees = {f1}
  ItemLoan <- AllOfLoan1
  ScheduledTotal <- Due
  FeeAmount <- Owed
  Assessed = {}
  Loan0 <- OneLoan
  Requests <- Whole
  MaxFaults = 1
CHECK_DEADLOCK FALSE
PROPERTIES
  SessionsEnd
  ImplementsBook
