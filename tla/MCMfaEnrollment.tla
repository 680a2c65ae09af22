--------------------------- MODULE MCMfaEnrollment ---------------------------
(* MfaEnrollment on small instances: challenges and requests are interchangeable. *)
EXTENDS MfaEnrollment, TLC

Symmetry == Permutations(Challenges) \cup Permutations(Requests)
=============================================================================
