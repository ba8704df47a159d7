CONSTANTS
  j1 = j1
  g1 = g1
  g2 = g2
  a1 = a1
  a2 = a2
  h1 = h1
  h2 = h2
  h3 = h3
  r1 = r1
  r2 = r2
  None = None
  Jobs = {j1}
  Guards = {g1, g2}
  Applies = {a1}
  Hires = {h1}
  Reviews = {r1}
  JobOf <- MCJobOf
  GuardOf <- MCGuardOf
  Target <- MCTarget
  Decision <- MCDecision
  GuardsRequired <- MCGuardsRequired

SPECIFICATION Spec
PROPERTY AcceptedIsFinal
CHECK_DEADLOCK FALSE
