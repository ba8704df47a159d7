------------------------------ MODULE MCPayroll ------------------------------
(* Claims: three create requests select overlapping sets of two timesheets   *)
(* while an editor changes them.  Batches: one timesheet and one batch that  *)
(* two settlers and an editor load and save at their own pace.               *)
EXTENDS Payroll, TLC

CONSTANTS c1, c2, c3, e1, e2, s1, s2

MCOverlap == [c \in Creates |-> IF c = c3 THEN {2} ELSE Timesheets]
MCAll == [c \in Creates |-> Timesheets]

Alike == Permutations(Settlers) \cup Permutations(Editors)
==============================================================================
