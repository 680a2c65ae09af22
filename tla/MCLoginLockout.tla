---------------------------- MODULE MCLoginLockout ----------------------------
(* LoginLockout on small instances: requests and IPs are interchangeable, an       *)
(* address with an account and one without are not.                                *)
EXTENDS LoginLockout, TLC

Symmetry == Permutations(Attempts) \cup Permutations(IPs)
=============================================================================
