------------------------- MODULE MCIdentitySessions -------------------------
(* Model values for checking IdentitySessions with TLC. *)
EXTENDS IdentitySessions, TLC

CONSTANTS q1, q2, d1, d2
=============================================================================
