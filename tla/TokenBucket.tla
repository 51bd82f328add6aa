---------------------------- MODULE TokenBucket ----------------------------
(***************************************************************************)
(* What the rate limiter promises: every key owns a bucket that holds one  *)
(* minute's budget, starts full, is refilled continuously and pays one     *)
(* token per call; a call is refused only when its key has less than one.  *)
(* There are no lazy timestamps, no map and no sweep here.                 *)
(***************************************************************************)
EXTENDS Naturals

CONSTANTS
    Keys,    \* the keys this is promised for
    Minute,  \* clock ticks in a minute; tokens are counted in 1/Minute
    Budget   \* Budget[k]: calls per minute of key k

VARIABLES level, verdict

NoVerdict == [key |-> "none"]
Full(k) == Budget[k] * Minute

Init ==
    /\ level = [k \in Keys |-> Full(k)]
    /\ verdict = NoVerdict

Grant(k) ==
    /\ level[k] >= Minute
    /\ level' = [level EXCEPT ![k] = @ - Minute]
    /\ verdict' = [key |-> k, ok |-> TRUE]

Refuse(k) ==
    /\ level[k] < Minute
    /\ verdict' = [key |-> k, ok |-> FALSE]
    /\ UNCHANGED level

Refill ==
    /\ level' = [k \in Keys |-> IF level[k] + Budget[k] > Full(k) THEN Full(k)
                                ELSE level[k] + Budget[k]]
    /\ verdict' = NoVerdict

\* A call of a key outside Keys is answered.
Elsewhere ==
    /\ verdict' = NoVerdict
    /\ UNCHANGED level

Next == Refill \/ Elsewhere \/ \E k \in Keys : Grant(k) \/ Refuse(k)

Spec == Init /\ [][Next]_<<level, verdict>>
=============================================================================
