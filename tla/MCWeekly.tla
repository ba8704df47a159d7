------------------------------ MODULE MCWeekly -------------------------------
(* Two transactions of the company compete with the client's responses, the  *)
(* resolution of disputes and an edit of the timesheets, over two versions.  *)
EXTENDS WeeklyApproval, TLC

CONSTANTS w1, w2, t1, t2, p1, p2, c1, c2, r1, e1

(* t1 may move to the second week, the others stay in the first.             *)
MCMatches == [t \in Timesheets |-> IF t = t1 THEN Weeks ELSE {w1}]

Alike == Permutations(Billers)
==============================================================================
