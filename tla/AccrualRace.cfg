SPECIFICATION ServicingSpec
CONSTANTS
  l1 = l1
  t1 = t1
  NoLoan = NoLoan
  NoRate = NoRate
  NotANumber = NotANumber
  Nightly = {n1}
  Backfills = {}
  Savers = {m1}
  Loans = {l1}
  Tenants = {t1}
  TenantOf <- OneTenant
  MaxDay = 2
  MaxFaults = 1
  Origination <- LaterOn
  InterestType <- AllFixed
  FixedRate <- Rates
  IndexAsOf <- NoIndex
  Disbursed <- Funding
  Cashiers = {p1, p2}
  Reversers = {v1, v2}
  Shares = {2}
SYMMETRY Interchangeable
INVARIANTS
  ServicingTypeOK
  StampIsCredited
  NightCoversActiveLoans
  InterestBalances
  OverwritesFavourTheBorrower
CHECK_DEADLOCK FALSE
