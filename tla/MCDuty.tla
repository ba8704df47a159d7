------------------------------- MODULE MCDuty --------------------------------
(* Phones that book on and off at once, guards and companies, and the scan. *)
EXTENDS Duty

CONSTANTS s1, s2, d1, d2
==============================================================================
