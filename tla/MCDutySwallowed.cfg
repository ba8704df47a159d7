CONSTANTS
  s1 = s1
  s2 = s2
  d1 = d1
  d2 = d2
  None = None
  ShiftIds = {s1}
  Phones = {d1}
  Interval = 1
  MaxTime = 4
  MaxFaults = 0
  MaxCalls = 0

SPECIFICATION FairSpec
PROPERTY EveryLapseIsAlerted
CHECK_DEADLOCK FALSE
