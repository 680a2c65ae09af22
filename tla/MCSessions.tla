------------------------------ MODULE MCSessions ------------------------------
(* Sessions on small instances: the sets of tokens and of request slots are   *)
(* interchangeable, the families are not (one may be a superadmin's).         *)
EXTENDS Sessions, TLC

Symmetry == Permutations(Rows) \cup Permutations(Requests)
=============================================================================
