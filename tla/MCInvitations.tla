---------------------------- MODULE MCInvitations ----------------------------
(* Invitations for TLC: rows, seats and requests are interchangeable. *)
EXTENDS Invitations, TLC

Symmetry == Permutations(Invites) \cup Permutations(Accepts) \cup Permutations(Seats)
=============================================================================
