------------------------- MODULE MCIdempotencyGate -------------------------
(* Requests that share keys: a first attempt, a concurrent duplicate and a *)
(* retry, on either route.                                                 *)
EXTENDS IdempotencyGate
=============================================================================
