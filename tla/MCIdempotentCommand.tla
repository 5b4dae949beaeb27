------------------------- MODULE MCIdempotentCommand -------------------------
(* Three requests of one account: under the key of a route that locks the  *)
(* account before it reserves (login), of one that locks it afterwards     *)
(* (verify), under both, and with a retry whose body was changed.          *)
EXTENDS IdempotentCommand, TLC

CONSTANTS q1, q2, q3, login, verify, b1, b2

Asks(k1, c1, k2, c2, k3, c3) ==
  (q1 :> [key |-> k1, body |-> c1]) @@ (q2 :> [key |-> k2, body |-> c2])
    @@ (q3 :> [key |-> k3, body |-> c3])

Mixes ==
  {Asks(login, b1, login, b1, verify, b1), Asks(login, b1, login, b2, login, b1),
   Asks(verify, b1, verify, b2, verify, b1), Asks(verify, b1, login, b1, verify, b1)}
=============================================================================
