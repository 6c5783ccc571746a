SPECIFICATION FairSpec
CONSTANTS
  d1 = d1
  d2 = d2
  None = None
  Draws = {d1, d2}
  Approvals = {p1}
  Activations = {s1, s2}
  Modifications = {m1}
  Payers = {y1}
  Reversals = {v1}
  Receipts = {2}
  Amounts = {1}
  Commitment = 2
  Loan0 <- NewLoan
  Draws0 <- OneDraw
  Changes <- AnyChange
  FundingDesk = TRUE
  MaxFaults = 1
CHECK_DEADLOCK FALSE
INVARIANTS
  TypeOK
  SchedulesAreWhole
  PaidItemsStay
  OutstandingIsFunded
  TermsAreRecorded
  ScheduleFollowsTheLoan

  
