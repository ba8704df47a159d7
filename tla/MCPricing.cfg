CONSTANTS
  None = None
  PayRate = 1000
  Minutes <- MCMinutes
  Shifts <- MCShifts
  PayRules <- MCPayRules
  Contracts <- MCContracts
  Above <- MCAbove
  Beyond <- MCBeyond

SPECIFICATION Spec
INVARIANT TypeOK
INVARIANT LongerPaysNoLess
INVARIANT LongerBilledWithinGrace
INVARIANT RecomputableFromSnapshot
INVARIANT LinesAddUp
PROPERTY BatchedPayFixed
PROPERTY PaidForApprovedTime
CHECK_DEADLOCK FALSE
