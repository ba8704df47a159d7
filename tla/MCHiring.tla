------------------------------ MODULE MCHiring -------------------------------
(* One job with two places.  Two guards apply; the first application is      *)
(* hired twice and reviewed twice, the second one is hired once, so three    *)
(* hires compete for two places while stale reviews undo what they did.      *)
EXTENDS Hiring

CONSTANTS j1, g1, g2, a1, a2, h1, h2, h3, r1, r2

MCJobOf == [a \in Applies |-> j1]
MCGuardOf == [a \in Applies |-> IF a = a1 THEN g1 ELSE g2]
MCTarget == [x \in Hires \cup Reviews |-> IF x = h3 THEN a2 ELSE a1]
MCDecision == [r \in Reviews |-> IF r = r1 THEN "under_review" ELSE "rejected"]
MCGuardsRequired == [j \in Jobs |-> 2]
==============================================================================
