CONSTANTS
  s1 = s1
  s2 = s2
  g1 = g1
  g2 = g2
  p1 = p1
  p2 = p2
  d1 = d1
  None = None
  ShiftIds = {s1, s2}
  Guards = {g1, g2}
  Times <- MCTimes
  Planners = {p1, p2}
  Phones = {d1}

SPECIFICATION Spec
SYMMETRY Alike
INVARIANT TypeOK
INVARIANT ClashOnlyByMoveOrRace
INVARIANT SheetFollowsGuard
CONSTRAINT Calm
CHECK_DEADLOCK FALSE
