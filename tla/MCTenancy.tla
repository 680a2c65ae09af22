------------------------------- MODULE MCTenancy -------------------------------
(* Tenancy for TLC: the requests are alike.                                 *)
EXTENDS Tenancy

Symmetry == Permutations(Requests)
=============================================================================
