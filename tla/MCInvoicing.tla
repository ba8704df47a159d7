----------------------------- MODULE MCInvoicing -----------------------------
(* Two batches of one company, clerks that load and save at their own      *)
(* pace, and payers who share the total of a batch.                        *)
EXTENDS Invoicing, TLC

CONSTANTS k1, b1, b2, c1, c2, p1, p2

MCCompanyOf == [b \in Batches |-> k1]
MCPayments == {-1, 1}

Alike == Permutations(Batches) \cup Permutations(Clerks) \cup Permutations(Payers)

(* A bound: what follows two finalise requests that loaded the same draft  *)
(* is not explored; the properties say nothing of such a batch.            *)
Uncontested == \A b \in Batches : ~contested[b]
==============================================================================
