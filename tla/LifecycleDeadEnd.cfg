SPECIFICATION EagerSpec
CONSTANTS
  d1 = d1
  d2 = d2
  None = None
  Draws = {d1, d2}
  Approvals = {p1}
  Activations = {s1, s2}
  Modifications = {}
  Payers = {}
  Reversals = {}
  Receipts = {1}
  Amounts = {2}
  Commitment = 2
  Loan0 <- NewLoan
  Draws0 <- NoDraws
  Changes <- AnyChange
  FundingDesk = FALSE
  MaxFaults = 0
CHECK_DEADLOCK FALSE
PROPERTY
  LoanComesAlive
