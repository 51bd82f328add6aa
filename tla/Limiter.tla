------------------------------ MODULE Limiter ------------------------------
(***************************************************************************)
(* The in-process rate limiter of internal/upstream/limiter.go: a map of   *)
(* token buckets that are made on first use, refilled lazily from the time *)
(* of the last refill, rescaled when a caller brings another budget, and   *)
(* swept when the map is large and they are idle.                          *)
(*                                                                         *)
(* Tokens are counted in 1/Minute so that a tick's refill is a whole       *)
(* number (the code uses float64 seconds).  A timestamp is kept as its     *)
(* age, up to the idle cutoff; the cutoff is longer than a minute and a    *)
(* minute refills any bucket, so nothing is lost by stopping there.        *)
(***************************************************************************)
EXTENDS Naturals, FiniteSets

CONSTANTS
    Keys,        \* instance IDs
    Rates,       \* Rates[k]: the budgets (calls per minute) callers of k bring
    Minute,      \* clock ticks in a minute
    MaxKeys,     \* maxLimiterKeys
    IdleCutoff   \* the ten minutes after which sweepLocked drops a bucket

\* A budget of zero is "unlimited": Allow returns before it looks at the map.
ASSUME LimiterAssumption ==
    /\ Minute \in Nat \ {0}
    /\ MaxKeys \in Nat
    /\ IdleCutoff \in Nat /\ IdleCutoff >= Minute
    /\ \A k \in Keys : Rates[k] \subseteq Nat \ {0}

VARIABLES
    buckets,  \* buckets[k]: the map's bucket for k, or NoBucket
    verdict,  \* the answer of the last call, until time passes
    recent,   \* history: recent[k][w] grants of k in the last w ticks
    top       \* history: the largest budget a caller of k has brought

vars == <<buckets, verdict, recent, top>>

NoBucket == [capacity |-> 0]
NoVerdict == [key |-> "none"]
Bucket == [tokens : Nat, capacity : Nat \ {0}, age : 0 .. IdleCutoff + 1]

Lesser(m, n) == IF m < n THEN m ELSE n
Live(k) == buckets[k] # NoBucket

Init ==
    /\ buckets = [k \in Keys |-> NoBucket]
    /\ verdict = NoVerdict
    /\ recent = [k \in Keys |-> [w \in 0 .. Minute |-> 0]]
    /\ top = [k \in Keys |-> 0]

-----------------------------------------------------------------------------
\* Mutant of Sweep: the cutoff is shorter than the refill of a bucket.
SweepEarly(m) ==
    IF Cardinality({k \in Keys : m[k] # NoBucket}) <= MaxKeys THEN m
    ELSE [k \in Keys |-> IF m[k] # NoBucket /\ m[k].age > 0 THEN NoBucket ELSE m[k]]

\* sweepLocked over the map m.
Sweep(m) ==
    IF Cardinality({k \in Keys : m[k] # NoBucket}) <= MaxKeys THEN m
    ELSE [k \in Keys |-> IF m[k] # NoBucket /\ m[k].age > IdleCutoff THEN NoBucket ELSE m[k]]

\* Mutant of Rescaled: a changed budget starts a new, full bucket.
RescaledToFull(b, rate) ==
    IF b.capacity = rate THEN b
    ELSE [b EXCEPT !.tokens = rate * Minute, !.capacity = rate]

\* The budget changed: what the smaller bucket cannot hold is lost, the rest
\* is kept.
Rescaled(b, rate) ==
    [tokens |-> Lesser(b.tokens, rate * Minute), capacity |-> rate, age |-> b.age]

\* What flowed in since the last refill, up to the capacity.
Refilled(b) ==
    [tokens |-> Lesser(b.tokens + b.age * b.capacity, b.capacity * Minute),
     capacity |-> b.capacity, age |-> 0]

\* MemoryLimiter.Allow with a positive budget.
Allow(k, rate) ==
    LET new == [tokens |-> rate * Minute, capacity |-> rate, age |-> 0]
        swept == IF Live(k) THEN buckets ELSE Sweep([buckets EXCEPT ![k] = new])
        b == Refilled(Rescaled(IF Live(k) THEN buckets[k] ELSE new, rate))
        ok == b.tokens >= Minute
    IN  /\ buckets' = [swept EXCEPT ![k] = IF ok THEN [b EXCEPT !.tokens = @ - Minute] ELSE b]
        /\ verdict' = [key |-> k, ok |-> ok]
        /\ recent' = IF ok THEN [recent EXCEPT ![k] = [w \in 0 .. Minute |-> @[w] + 1]] ELSE recent
        /\ top' = [top EXCEPT ![k] = IF rate > @ THEN rate ELSE @]

Tick ==
    /\ buckets' = [k \in Keys |-> IF Live(k)
                      THEN [buckets[k] EXCEPT !.age = Lesser(@ + 1, IdleCutoff + 1)]
                      ELSE NoBucket]
    /\ recent' = [k \in Keys |-> [w \in 0 .. Minute |-> IF w = 0 THEN 0 ELSE recent[k][w - 1]]]
    /\ verdict' = NoVerdict
    /\ UNCHANGED top

Next == Tick \/ \E k \in Keys : \E rate \in Rates[k] : Allow(k, rate)

Spec == Init /\ [][Next]_vars

-----------------------------------------------------------------------------
TypeOK ==
    /\ buckets \in [Keys -> Bucket \cup {NoBucket}]
    /\ verdict \in [key : Keys, ok : BOOLEAN] \cup {NoVerdict}
    /\ recent \in [Keys -> [0 .. Minute -> Nat]]
    /\ top \in [Keys -> Nat]

(* The budget a key can spend in any window of up to a minute: one bucket  *)
(* and what flows in meanwhile, at the largest budget ever configured.     *)
(* Changing the budget, or being swept and made again, buys nothing ("a    *)
(* configuration change cannot be used to reset an exhausted bucket").     *)
WindowBound ==
    \A k \in Keys : \A w \in 0 .. Minute :
        recent[k][w] * Minute <= top[k] * (Minute + w)

\* The tokens a key could spend now: a key without a bucket gets a full one.
Level(k) ==
    LET rate == CHOOSE r \in Rates[k] : TRUE
    IN  IF Live(k) THEN Refilled(buckets[k]).tokens ELSE rate * Minute

\* The keys whose callers all bring the same budget.
Steady == {k \in Keys : \E rate \in Rates[k] : Rates[k] = {rate}}

Promise == INSTANCE TokenBucket WITH
    Keys <- Steady,
    Budget <- [k \in Steady |-> CHOOSE r \in Rates[k] : TRUE],
    level <- [k \in Steady |-> Level(k)],
    verdict <- IF verdict.key \in Steady THEN verdict ELSE NoVerdict

(* While a key keeps one budget, the lazy map with its sweep is the ideal  *)
(* bucket: it grants and refuses exactly when that one would, whatever     *)
(* calls and budgets of other keys do to the map in between.               *)
ImplementsTokenBucket == Promise!Spec
=============================================================================
