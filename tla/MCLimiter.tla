----------------------------- MODULE MCLimiter -----------------------------
(* Small instances of the rate limiter. *)
EXTENDS Limiter, TLC

CONSTANTS k1, k2

\* The operator changes k1's budget back and forth; k2 keeps one.
ChangingRates == k1 :> {1, 3} @@ k2 :> {2}
=============================================================================
