------------------------ MODULE MCResultNotification ------------------------
(* Instances of ResultNotification for TLC. *)
EXTENDS ResultNotification
=============================================================================
