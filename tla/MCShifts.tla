------------------------------ MODULE MCShifts -------------------------------
(* Two shifts that may fall into overlapping times, two planners and the   *)
(* guards' phones.                                                         *)
EXTENDS Shifts, TLC

CONSTANTS s1, s2, g1, g2, p1, p2, d1

MCTimes == {{1, 2}, {2, 3}}

Alike == Permutations(ShiftIds) \cup Permutations(Guards) \cup Permutations(Planners)

(* A bound: what follows an accident, a move, or two requests that met on a *)
(* shift or a guard is not explored.                                       *)
Calm ==
  /\ \A s \in ShiftIds : ~overlapped[s] /\ ~interrupted[s] /\ ~retimed[s]
  /\ \A g \in Guards : ~crowded[g]
==============================================================================
