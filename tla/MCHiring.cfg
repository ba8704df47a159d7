CONSTANTS
  j1 = j1
  g1 = g1
  g2 = g2
  a1 = a1
  a2 = a2
  h1 = h1
  h2 = h2
  h3 = h3
  r1 = r1
  r2 = r2
  None = None
  Jobs = {j1}
  Guards = {g1, g2}
  Applies = {a1, a2}
  Hires = {h1, h2, h3}
  Reviews = {r1, r2}
  JobOf <- MCJobOf
  GuardOf <- MCGuardOf
  Target <- MCTarget
  Decision <- MCDecision
  GuardsRequired <- MCGuardsRequired

SPECIFICATION FairSpec
INVARIANT TypeOK
INVARIANT CapacityRespected
INVARIANT FilledWhenFull
INVARIANT AcceptedIsAssigned
PROPERTY ImplementsJobCapacity
PROPERTY EveryHireEnds
CHECK_DEADLOCK FALSE
