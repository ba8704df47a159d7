CONSTANTS
  w1 = w1
  w2 = w2
  t1 = t1
  t2 = t2
  p1 = p1
  p2 = p2
  c1 = c1
  c2 = c2
  r1 = r1
  e1 = e1
  None = None
  Weeks = {w1}
  Timesheets = {t1}
  Hours = {8}
  Billers = {p1}
  Clients = {c1,c2}
  Resolvers = {}
  Editors = {}
  MaxVersion = 2
  Matches <- MCMatches

SPECIFICATION Spec
CHECK_DEADLOCK FALSE
PROPERTY OnlyPendingIsApproved
