-------------------------- MODULE MCTotpVerification --------------------------
(* TotpVerification on small instances: the verifications are interchangeable.    *)
EXTENDS TotpVerification, TLC

Symmetry == Permutations(Attempts)
=============================================================================
