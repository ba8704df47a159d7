CONSTANTS
  c1 = c1
  c2 = c2
  c3 = c3
  e1 = e1
  e2 = e2
  s1 = s1
  s2 = s2
  None = None
  Timesheets = {1, 2}
  Creates = {c1, c2, c3}
  Editors = {e1}
  Settlers = {}
  Selection <- MCOverlap

SPECIFICATION Spec
INVARIANT TypeOK
INVARIANT NoRingOfWaiters
PROPERTY OnlyEligibleJoin
CHECK_DEADLOCK FALSE
