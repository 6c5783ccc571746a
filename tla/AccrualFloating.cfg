SPECIFICATION Spec
CONSTANTS
  l1 = l1
  l2 = l2
  t1 = t1
  t2 = t2
  NoLoan = NoLoan
  NoRate = NoRate
  NotANumber = NotANumber
  Nightly = {n1, n2}
  Backfills = {}
  Savers = {}
  Loans = {l1, l2}
  Tenants = {t1, t2}
  TenantOf <- TwoTenants
  MaxDay = 2
  MaxFaults = 1
  Origination <- Originations
  InterestType <- OneFloating
  FixedRate <- Rates
  IndexAsOf <- IndexFromDay2
  Disbursed <- LateFunding
INVARIANT
  FloatingLoanAccrues
CHECK_DEADLOCK FALSE
