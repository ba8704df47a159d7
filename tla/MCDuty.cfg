CONSTANTS
  s1 = s1
  s2 = s2
  d1 = d1
  d2 = d2
  None = None
  ShiftIds = {s1}
  Phones = {d1, d2}
  Interval = 1
  MaxTime = 4
  MaxFaults = 1
  MaxCalls = 1

SPECIFICATION FairSpec
INVARIANT TypeOK
INVARIANT EventsAlternate
INVARIANT MinutesAreAttended
INVARIANT AlertMeansLapse
INVARIANT OneAlertPerLapse
PROPERTY OverdueIsAlerted
CHECK_DEADLOCK FALSE
