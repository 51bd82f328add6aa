----------------------------- MODULE MCBreaker -----------------------------
(* Small instances of the circuit breaker. *)
EXTENDS Breaker
=============================================================================
