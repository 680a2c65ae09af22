--------------------------- MODULE MCPasswordReset ---------------------------
(* Password reset for TLC: every message is a link.                         *)
EXTENDS PasswordReset
=============================================================================
