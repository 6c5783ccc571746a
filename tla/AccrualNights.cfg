SPECIFICATION FairSpec
CONSTANTS
  l1 = l1
  l2 = l2
  t1 = t1
  t2 = t2
  NoLoan = NoLoan
  NoRate = NoRate
  NotANumber = NotANumber
  Nightly = {n1}
  Backfills = {b1}
  Savers = {}
  Loans = {l1, l2}
  Tenants = {t1, t2}
  TenantOf <- OneTenant
  MaxDay = 2
  MaxFaults = 1
  Origination <- Originations
  InterestType <- OneFloating
  FixedRate <- Rates
  IndexAsOf <- IndexFromDay2
  Disbursed <- LateFunding
INVARIANTS
  NoSilentSkip
  WorkInv
  NoDoubleCredit
  LedgerInv
  MissingInterestIsExplained
PROPERTIES
  ExecutionsEnd
CHECK_DEADLOCK FALSE
