SPECIFICATION FormSpec
CONSTANTS
  Requests = {f1, f2, q1}
  FormRequests = {f1, f2}
  Ops = {"createLoan", "createBorrower", "waiveFee"}
  Connections = {c1, c2}
  Tenants = {t1, t2}
  NoTenant = NoTenant
  Nobody = Nobody
  Years = 2
  FormTenant = t1
  FormRole = "OPERATOR"
  MaxLost = 1
INVARIANTS
  NumbersFollowTheCount
  NoConnectionLeaks
  SecondLoanNeedsALostAnswer
PROPERTIES
  RequestsAreAnswered
CHECK_DEADLOCK FALSE
