----------------------------- MODULE JobCapacity -----------------------------
(***************************************************************************)
(* What hiring promises about a job, with no request, lock or application  *)
(* in sight: a job takes at most GuardsRequired guards, one at a time, and *)
(* says "filled" exactly from the moment it has them all.                  *)
(***************************************************************************)
EXTENDS Naturals, FiniteSets

CONSTANTS
  Jobs,            \* the jobs of the marketplace
  Posts,           \* everything that can ever occupy a place on a job
  GuardsRequired   \* [Jobs -> Nat \ {0}]: jobs.guardsRequired

VARIABLES
  taken,    \* [Jobs -> SUBSET Posts]: the places taken on a job
  status    \* [Jobs -> {"open", "filled"}]

vars == <<taken, status>>

Init ==
  /\ taken  = [j \in Jobs |-> {}]
  /\ status = [j \in Jobs |-> "open"]

(* A guard takes a place on j: only while the job is open, and the last    *)
(* place closes it in the same step.                                       *)
Take(j, p) ==
  /\ status[j] = "open"
  /\ p \notin taken[j]
  /\ taken'  = [taken EXCEPT ![j] = @ \cup {p}]
  /\ status' = [status EXCEPT ![j] =
                  IF Cardinality(taken[j]) + 1 >= GuardsRequired[j]
                  THEN "filled" ELSE "open"]

Next == \E j \in Jobs, p \in Posts : Take(j, p)

Spec == Init /\ [][Next]_vars
==============================================================================
