CONSTANTS
  k1 = k1
  b1 = b1
  b2 = b2
  c1 = c1
  c2 = c2
  p1 = p1
  p2 = p2
  None = None
  Companies = {k1}
  Batches = {b1, b2}
  Clerks = {c1, c2}
  Payers = {p1, p2}
  Totals = {1, 2}
  CompanyOf <- MCCompanyOf
  Payments <- MCPayments

SPECIFICATION Spec
SYMMETRY Alike
CONSTRAINT Uncontested
INVARIANT TypeOK
INVARIANT SettledBeforePaid
INVARIANT OverpaidOnlyTogether
INVARIANT NumbersFollowOn
PROPERTY StableUnlessContested
PROPERTY ImplementsLedger
CHECK_DEADLOCK FALSE
