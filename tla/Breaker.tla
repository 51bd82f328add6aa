------------------------------ MODULE Breaker ------------------------------
(***************************************************************************)
(* The per-key circuit breaker of internal/upstream/breaker.go and the     *)
(* calls that go through it.  Every method runs under one mutex and is one *)
(* action; between Allow and Record a call is out, and any number of calls *)
(* can be out at once, so outcomes arrive in any order and late.           *)
(*                                                                         *)
(* Time is kept as the age of a timestamp, up to the threshold it is       *)
(* compared with; the failure count likewise stops at the threshold.  Both *)
(* are exact: the code only compares them.                                 *)
(***************************************************************************)
EXTENDS Naturals, FiniteSets

CONSTANTS
    Keys,               \* instance IDs
    Calls,              \* concurrent callers
    FailureThreshold,   \* BreakerConfig.FailureThreshold
    OpenDuration,       \* BreakerConfig.OpenDuration, in clock ticks
    HalfOpenSuccesses,  \* BreakerConfig.HalfOpenSuccesses
    MaxKeys,            \* maxBreakerKeys
    IdleCutoff          \* the hour after which sweepLocked drops an entry

\* withDefaults leaves no parameter below one.
ASSUME BreakerAssumption ==
    /\ FailureThreshold \in Nat \ {0}
    /\ OpenDuration \in Nat \ {0}
    /\ HalfOpenSuccesses \in Nat \ {0}
    /\ MaxKeys \in Nat
    /\ IdleCutoff \in Nat
    /\ "none" \notin Keys

VARIABLES
    entry,  \* entry[k]: the map's entry for k, or NoEntry
    out,    \* out[c]: the key call c was admitted for and is out with, or NotOut
    streak  \* history: failures reported for k in a row, while its entry was kept

vars == <<entry, out, streak>>

NoEntry == [state |-> "none"]
NotOut == "none"
Entry == [state : {"closed", "open", "half-open"},
          failures : 0 .. FailureThreshold,
          successes : 0 .. HalfOpenSuccesses,
          openAge : 0 .. OpenDuration,
          idle : 0 .. IdleCutoff + 1]

Capped(n, bound) == IF n > bound THEN bound ELSE n

\* A zero time.Time lies before every cutoff.
FreshEntry == [state |-> "closed", failures |-> 0, successes |-> 0,
               openAge |-> OpenDuration, idle |-> IdleCutoff + 1]

Live(k) == entry[k] # NoEntry
Cooling(k) == entry[k].state = "open" /\ entry[k].openAge < OpenDuration

Init ==
    /\ entry = [k \in Keys |-> NoEntry]
    /\ out = [c \in Calls |-> NotOut]
    /\ streak = [k \in Keys |-> 0]

-----------------------------------------------------------------------------
\* Breaker.entry, first half: the entry a method works on.
EntryOf(k) == IF Live(k) THEN entry[k] ELSE FreshEntry

\* Mutant of Sweep: idle entries are swept whatever their state.
SweepAnyState(m) ==
    IF Cardinality({k \in Keys : m[k] # NoEntry}) <= MaxKeys THEN m
    ELSE [k \in Keys |-> IF m[k] # NoEntry /\ m[k].idle > IdleCutoff THEN NoEntry ELSE m[k]]

\* sweepLocked over the map m: past MaxKeys, closed and long idle entries go.
Sweep(m) ==
    IF Cardinality({k \in Keys : m[k] # NoEntry}) <= MaxKeys THEN m
    ELSE [k \in Keys |-> IF m[k] # NoEntry /\ m[k].state = "closed" /\ m[k].idle > IdleCutoff
                         THEN NoEntry ELSE m[k]]

\* The map after a method changed the entry of k to e and stamped its
\* activity.  An entry made by this call was put in the map and swept over
\* with its zero timestamp before the method touched it: the sweep can drop
\* it, and the method then works on an object the map has lost.
Store(k, e) ==
    LET stamped == [e EXCEPT !.idle = 0]
        swept == Sweep([entry EXCEPT ![k] = FreshEntry])
    IN  IF Live(k) THEN [entry EXCEPT ![k] = stamped]
        ELSE IF swept[k] = NoEntry THEN swept
        ELSE [swept EXCEPT ![k] = stamped]

\* History: the row of reports for k has come to n; a row ends with its entry.
CountReports(k, n) ==
    streak' = [q \in Keys |-> IF entry'[q] = NoEntry THEN 0
                              ELSE IF q = k THEN n ELSE streak[q]]

\* Mutant of Allow: a shed call restarts the cooldown.
AllowRestarts(c, k) ==
    /\ out[c] = NotOut
    /\ LET e == EntryOf(k)
           shed == e.state = "open" /\ e.openAge < OpenDuration
           opened == [e EXCEPT !.state = "half-open", !.successes = 0]
       IN  /\ entry' = Store(k, IF shed THEN [e EXCEPT !.openAge = 0]
                                ELSE IF e.state = "open" THEN opened ELSE e)
           /\ out' = IF shed THEN out ELSE [out EXCEPT ![c] = k]
    /\ CountReports(k, streak[k])

\* Mutant of Allow: the last tick of the cooldown is not waited for.
AllowEarly(c, k) ==
    /\ out[c] = NotOut
    /\ LET e == EntryOf(k)
           shed == e.state = "open" /\ e.openAge + 1 < OpenDuration
           opened == [e EXCEPT !.state = "half-open", !.successes = 0]
       IN  /\ entry' = Store(k, IF e.state = "open" /\ ~shed THEN opened ELSE e)
           /\ out' = IF shed THEN out ELSE [out EXCEPT ![c] = k]
    /\ CountReports(k, streak[k])

\* Breaker.Allow for call c: shed while the cooldown runs, otherwise admit;
\* the first call after the cooldown turns the circuit half-open.
Allow(c, k) ==
    /\ out[c] = NotOut
    /\ LET e == EntryOf(k)
           shed == e.state = "open" /\ e.openAge < OpenDuration
           opened == [e EXCEPT !.state = "half-open", !.successes = 0]
       IN  /\ entry' = Store(k, IF e.state = "open" /\ ~shed THEN opened ELSE e)
           /\ out' = IF shed THEN out ELSE [out EXCEPT ![c] = k]
    /\ CountReports(k, streak[k])

\* Mutant of AfterSuccess: a success keeps the count of earlier failures.
AfterSuccessKeepsCount(e) ==
    IF e.state = "half-open" /\ e.successes + 1 < HalfOpenSuccesses
    THEN [e EXCEPT !.successes = @ + 1]
    ELSE [e EXCEPT !.state = "closed",
                   !.successes = IF e.state = "half-open" THEN 0 ELSE @]

\* Breaker.Record(k, true): counts towards closing when half-open, and in any
\* other state, open included, closes the circuit.
AfterSuccess(e) ==
    IF e.state = "half-open" /\ e.successes + 1 < HalfOpenSuccesses
    THEN [e EXCEPT !.successes = @ + 1]
    ELSE [e EXCEPT !.state = "closed", !.failures = 0,
                   !.successes = IF e.state = "half-open" THEN 0 ELSE @]

\* Mutant of AfterFailure: off by one at the threshold.
AfterFailureLate(e) ==
    LET failed == [e EXCEPT !.failures = Capped(@ + 1, FailureThreshold), !.successes = 0]
    IN  IF e.state = "half-open" \/ e.failures >= FailureThreshold
        THEN [failed EXCEPT !.state = "open", !.openAge = 0] ELSE failed

\* Breaker.Record(k, false).
AfterFailure(e) ==
    LET failed == [e EXCEPT !.failures = Capped(@ + 1, FailureThreshold), !.successes = 0]
    IN  IF e.state = "half-open" \/ failed.failures >= FailureThreshold
        THEN [failed EXCEPT !.state = "open", !.openAge = 0]
        ELSE failed

\* The outcome of call c is in: Breaker.Record.
Record(c, ok) ==
    /\ out[c] # NotOut
    /\ LET k == out[c] IN
        /\ entry' = Store(k, IF ok THEN AfterSuccess(EntryOf(k)) ELSE AfterFailure(EntryOf(k)))
        /\ CountReports(k, IF ok THEN 0 ELSE Capped(streak[k] + 1, FailureThreshold))
    /\ out' = [out EXCEPT ![c] = NotOut]

\* An admitted call that fails before it reaches the upstream (no free slot,
\* a request that cannot be built) returns without a Record.
Abandon(c) ==
    /\ out[c] # NotOut
    /\ out' = [out EXCEPT ![c] = NotOut]
    /\ UNCHANGED <<entry, streak>>

\* Breaker.Reset: the instance was reconfigured.
Reset(k) ==
    /\ entry' = [entry EXCEPT ![k] = NoEntry]
    /\ streak' = [streak EXCEPT ![k] = 0]
    /\ UNCHANGED out

\* The clock moves on for every timestamp.
Tick ==
    /\ entry' = [k \in Keys |-> IF Live(k)
                    THEN [entry[k] EXCEPT !.openAge = Capped(@ + 1, OpenDuration),
                                          !.idle = Capped(@ + 1, IdleCutoff + 1)]
                    ELSE NoEntry]
    /\ UNCHANGED <<out, streak>>

Next ==
    \/ \E c \in Calls, k \in Keys : Allow(c, k)
    \/ \E c \in Calls, ok \in BOOLEAN : Record(c, ok)
    \/ \E c \in Calls : Abandon(c)
    \/ \E k \in Keys : Reset(k)
    \/ Tick

Spec == Init /\ [][Next]_vars

\* Nothing but time is fair: callers may stop calling and outcomes may never
\* arrive.
FairSpec == Spec /\ WF_vars(Tick)

-----------------------------------------------------------------------------
TypeOK ==
    /\ entry \in [Keys -> Entry \cup {NoEntry}]
    /\ out \in [Calls -> Keys \cup {NotOut}]
    /\ streak \in [Keys -> 0 .. FailureThreshold]

(* "FailureThreshold is the number of consecutive failures that opens the  *)
(* circuit": after that many reports in a row the circuit is not closed,   *)
(* whichever calls they came from and however they were interleaved with   *)
(* probes, resets and other keys, unless its entry was swept in between.   *)
TripsOnThreshold ==
    \A k \in Keys : streak[k] = FailureThreshold => entry[k].state \in {"open", "half-open"}

(* The converse: a closed circuit opens in no other way, so a success in   *)
(* between always starts the count again.                                  *)
OpensOnlyOnStreak ==
    [][\A k \in Keys :
        entry[k].state \in {"closed", "none"} /\ entry'[k].state = "open"
            => streak'[k] = FailureThreshold]_vars

(* OpenDuration is "how long the circuit stays open before a trial request *)
(* is allowed through": no probe starts before the whole of it has passed  *)
(* since the last failure that was reported, late failures included.       *)
ProbesAfterCooldown ==
    \A k \in Keys : entry[k].state = "half-open" => entry[k].openAge = OpenDuration

(* "It will be retried automatically" (what a shed caller is told): shed   *)
(* calls, late failures and failed probes cannot keep a circuit in its     *)
(* cooldown for ever.                                                      *)
NeverShedsForever ==
    \A k \in Keys : []<>~Cooling(k)

(* The sweep that bounds the map forgets no outage: an open or half-open   *)
(* entry goes only when its instance is reconfigured.                      *)
SweepKeepsOutages ==
    [][\A k \in Keys :
        entry[k].state \in {"open", "half-open"} /\ entry'[k] = NoEntry => Reset(k)]_vars
=============================================================================
