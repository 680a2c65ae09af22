-------------------------- MODULE MCRevocationCache --------------------------
(* RevocationCache on small instances: replicas, families and slots are         *)
(* interchangeable.                                                             *)
EXTENDS RevocationCache, TLC

Symmetry == Permutations(Replicas) \cup Permutations(Families) \cup Permutations(Slots)
=============================================================================
