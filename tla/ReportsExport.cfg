SPECIFICATION PageSpec
CONSTANTS
  t1 = t1
  Tenants = {t1}
  Loans = {l1}
  LoanTenant <- OneTenant
  Exports = {e1, e2}
  ExportTypes = {"ACTIVE_LOANS", "none"}
  NoType = "none"
  Rows0 <- NewOrLate
  MaxDay = 2
  MaxFaults = 1
  Loads = {r1, r2}
  PageExports = {e2}
  Nothing = Nothing
INVARIANTS
  ObjectsAreDescribed
  SnapshotsHaveObjects
PROPERTIES
  LoadingEnds
CHECK_DEADLOCK FALSE
