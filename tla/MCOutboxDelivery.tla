-------------------------- MODULE MCOutboxDelivery --------------------------
(* Model values for checking OutboxDelivery with TLC. *)
EXTENDS OutboxDelivery, TLC

CONSTANTS d1, d2, p1, p2, h1, h2

(* Two job slots of one process, and one slot in each of two processes. *)
SharedHost == (h1 :> p1) @@ (h2 :> p1)
OwnHost == (h1 :> p1) @@ (h2 :> p2)
=============================================================================
