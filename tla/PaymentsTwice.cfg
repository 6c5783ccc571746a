SPECIFICATION Spec
CONSTANTS
  l1 = l1
  i1 = i1
  f1 = f1
  None = None
  Applies = {a1}
  Reverses = {r1, r2}
  Waives = {}
  Loans = {l1}
  Items = {i1}
  Fees = {f1}
  ItemLoan <- AllOfLoan1
  ScheduledTotal <- Due
  FeeAmount <- Owed
  Assessed = {}
  Loan0 <- OneLoan
  Requests <- Twice
  MaxFaults = 0
CHECK_DEADLOCK FALSE
INVARIANT
  ReversedOnce
