-------------------------- MODULE MCResumeEditing --------------------------
(* Instances of ResumeEditing for TLC. *)
EXTENDS ResumeEditing

CONSTANTS t1, t2, u1
=============================================================================
