------------------------------ MODULE Executor ------------------------------
(***************************************************************************)
(* Executor.Execute of internal/engine/executor.go: one tool call's way    *)
(* through the rate limiter, the circuit breaker, the concurrency gate,    *)
(* the deadline and the upstream, composed from the modules of the three   *)
(* controls.  No lock is held across them, so calls interleave between any *)
(* two; each works with the Target it was given, which is a copy of the    *)
(* instance's settings that the operator may since have changed.           *)
(***************************************************************************)
EXTENDS Naturals, FiniteSets

CONSTANTS
    Keys, Calls,                                       \* instances, callers
    Chans, NoChan,                                     \* gate
    FailureThreshold, OpenDuration, HalfOpenSuccesses, \* breaker
    Minute,                                            \* limiter
    Settings,   \* the settings an instance can have: [max, rate], rate 0 unlimited
    Timeout,    \* ticks a request may take once it has a slot
    MaxChanges  \* bound on reconfigurations

Limits == {s.max : s \in Settings}
Budgets == {s.rate : s \in Settings}

\* clampConcurrency leaves at least one slot, withDefaults no parameter of the
\* breaker below one.
ASSUME ExecutorAssumption ==
    /\ {Timeout, Minute, FailureThreshold, OpenDuration, HalfOpenSuccesses} \subseteq Nat \ {0}
    /\ MaxChanges \in Nat
    /\ IsFiniteSet(Keys) /\ IsFiniteSet(Calls)
    /\ "none" \notin Keys /\ NoChan \notin Chans
    /\ Settings \subseteq [max : Nat \ {0}, rate : Nat]

VARIABLES
    sems, chans, slot, asked,      \* Gate
    entry, out, streak,            \* Breaker
    buckets, verdict, recent, top, \* Limiter
    pc,       \* pc[c]: the last line of Execute call c has passed
    target,   \* target[c]: the instance and settings c was handed
    config,   \* config[k]: the settings of instance k now
    changes,  \* reconfigurations so far
    age,      \* age[c]: ticks since c's request was sent
    failed    \* history: failed[k]: requests of k that failed since one was answered

gateVars == <<sems, chans, slot, asked>>
breakerVars == <<entry, out, streak>>
limiterVars == <<buckets, verdict, recent, top>>
vars == <<gateVars, breakerVars, limiterVars, pc, target, config, changes, age, failed>>

G == INSTANCE Gate
B == INSTANCE Breaker WITH MaxKeys <- Cardinality(Keys), IdleCutoff <- 0
L == INSTANCE Limiter WITH MaxKeys <- Cardinality(Keys), IdleCutoff <- Minute,
                           Rates <- [k \in Keys |-> Budgets \ {0}]

\* How client.Do ends: with a status, or an error for the upstream's silence,
\* the deadline, the caller's hanging up, an address or a redirect refused.
Outcomes == {"2xx", "4xx", "5xx", "transport", "deadline", "gone", "blocked", "redirect"}

\* A status below 500 says the upstream is well.  Everything else counts
\* against it, also the last three outcomes, which are not its doing.
Healthy == {"2xx", "4xx"}

Steps == {"idle", "limited", "admitted", "queued", "holding", "sent", "returning"}
Key(c) == target[c].key

Init ==
    /\ G!Init /\ B!Init /\ L!Init
    /\ config \in [Keys -> Settings]
    /\ pc = [c \in Calls |-> "idle"]
    /\ target \in [Calls -> {[key |-> k, max |-> config[k].max, rate |-> config[k].rate] : k \in Keys}]
    /\ changes = 0
    /\ age = [c \in Calls |-> 0]
    /\ failed = [k \in Keys |-> 0]

-----------------------------------------------------------------------------
\* The caller (an MCP request, or a reindex run before its first call) is
\* handed the current settings of an instance; it may use them many times.
Resolve(c, k) ==
    /\ pc[c] = "idle"
    /\ target' = [target EXCEPT ![c] = [key |-> k, max |-> config[k].max, rate |-> config[k].rate]]
    /\ UNCHANGED <<gateVars, breakerVars, limiterVars, pc, config, changes, age, failed>>

\* limiter.Allow, once the arguments were found valid.
PassLimiter(c) ==
    /\ pc[c] = "idle"
    /\ \/ /\ target[c].rate = 0
          /\ pc' = [pc EXCEPT ![c] = "limited"]
          /\ UNCHANGED limiterVars
       \/ /\ target[c].rate > 0
          /\ L!Allow(Key(c), target[c].rate)
          /\ pc' = IF verdict'.ok THEN [pc EXCEPT ![c] = "limited"] ELSE pc
    /\ UNCHANGED <<gateVars, breakerVars, target, config, changes, age, failed>>

\* breaker.Allow: a shed call returns.
PassBreaker(c) ==
    /\ pc[c] = "limited"
    /\ B!Allow(c, Key(c))
    /\ pc' = [pc EXCEPT ![c] = IF out'[c] = B!NotOut THEN "idle" ELSE "admitted"]
    /\ UNCHANGED <<gateVars, limiterVars, target, config, changes, age, failed>>

\* gate.Acquire up to its wait.
QueueForSlot(c) ==
    /\ pc[c] = "admitted"
    /\ G!Request(c, Key(c), target[c].max)
    /\ pc' = [pc EXCEPT ![c] = "queued"]
    /\ UNCHANGED <<breakerVars, limiterVars, target, config, changes, age, failed>>

\* gate.Acquire returns a slot.
TakeSlot(c) ==
    /\ pc[c] = "queued"
    /\ G!TakeSlot(c)
    /\ pc' = [pc EXCEPT ![c] = "holding"]
    /\ UNCHANGED <<breakerVars, limiterVars, target, config, changes, age, failed>>

\* Mutant of GiveUp: the wait's end is reported as a failure.
GiveUpReports(c) ==
    /\ pc[c] = "queued"
    /\ G!GiveUp(c) /\ B!Record(c, FALSE)
    /\ pc' = [pc EXCEPT ![c] = "idle"]
    /\ UNCHANGED <<limiterVars, target, config, changes, age, failed>>

\* gate.Acquire returns the context's error; the breaker hears nothing.
GiveUp(c) ==
    /\ pc[c] = "queued"
    /\ G!GiveUp(c) /\ B!Abandon(c)
    /\ pc' = [pc EXCEPT ![c] = "idle"]
    /\ UNCHANGED <<limiterVars, target, config, changes, age, failed>>

\* Mutant of BuildFails: the release is deferred only after the request was
\* built.
BuildFailsLeaks(c) ==
    /\ pc[c] = "holding"
    /\ B!Abandon(c)
    /\ pc' = [pc EXCEPT ![c] = "idle"]
    /\ UNCHANGED <<gateVars, limiterVars, target, config, changes, age, failed>>

\* buildRequest fails: the deferred release runs, the breaker hears nothing.
BuildFails(c) ==
    /\ pc[c] = "holding"
    /\ G!Release(c) /\ B!Abandon(c)
    /\ pc' = [pc EXCEPT ![c] = "idle"]
    /\ UNCHANGED <<limiterVars, target, config, changes, age, failed>>

\* The deadline starts and client.Do is entered.
Send(c) ==
    /\ pc[c] = "holding"
    /\ pc' = [pc EXCEPT ![c] = "sent"]
    /\ age' = [age EXCEPT ![c] = 0]
    /\ UNCHANGED <<gateVars, breakerVars, limiterVars, target, config, changes, failed>>

\* client.Do returns and breaker.Record hears of it; at the deadline the
\* context ends the request.
Finish(c, outcome) ==
    /\ pc[c] = "sent"
    /\ outcome = "deadline" => age[c] = Timeout
    /\ B!Record(c, outcome \in Healthy)
    /\ failed' = [failed EXCEPT ![Key(c)] =
                      IF outcome \in Healthy THEN 0 ELSE B!Capped(@ + 1, FailureThreshold)]
    /\ pc' = [pc EXCEPT ![c] = "returning"]
    /\ age' = [age EXCEPT ![c] = 0]
    /\ UNCHANGED <<gateVars, limiterVars, target, config, changes>>

\* Execute returns: the deferred release.
Return(c) ==
    /\ pc[c] = "returning"
    /\ G!Release(c)
    /\ pc' = [pc EXCEPT ![c] = "idle"]
    /\ UNCHANGED <<breakerVars, limiterVars, target, config, changes, age, failed>>

\* Instances.Update: the settings change and the breaker is reset.
Reconfigure(k, s) ==
    /\ changes < MaxChanges
    /\ s # config[k]
    /\ config' = [config EXCEPT ![k] = s]
    /\ changes' = changes + 1
    /\ B!Reset(k)
    /\ failed' = [failed EXCEPT ![k] = 0]
    /\ UNCHANGED <<gateVars, limiterVars, pc, target, age>>

\* Time passes, but not beyond the deadline of a request.
Tick ==
    /\ \A c \in Calls : pc[c] = "sent" => age[c] < Timeout
    /\ B!Tick /\ L!Tick
    /\ age' = [c \in Calls |-> IF pc[c] = "sent" /\ age[c] <= Timeout
                               THEN age[c] + 1 ELSE age[c]]
    /\ UNCHANGED <<gateVars, pc, target, config, changes, failed>>

Next ==
    \/ \E c \in Calls :
        \/ \E k \in Keys : Resolve(c, k)
        \/ PassLimiter(c) \/ PassBreaker(c)
        \/ QueueForSlot(c) \/ TakeSlot(c) \/ GiveUp(c)
        \/ BuildFails(c) \/ Send(c)
        \/ \E outcome \in Outcomes : Finish(c, outcome)
        \/ Return(c)
    \/ \E k \in Keys, s \in Settings : Reconfigure(k, s)
    \/ Tick

Spec == Init /\ [][Next]_vars

\* A call's own code runs on, the deadline ends its request, and the gate's
\* queue is first-in first-out.  Nobody has to call, hang up or reconfigure.
Fairness ==
    \A c \in Calls :
        /\ WF_vars(PassBreaker(c)) /\ WF_vars(QueueForSlot(c))
        /\ SF_vars(TakeSlot(c))
        /\ WF_vars(BuildFails(c) \/ Send(c))
        /\ WF_vars(\E outcome \in Outcomes : Finish(c, outcome))
        /\ WF_vars(Return(c))

FairSpec == Spec /\ Fairness /\ WF_vars(Tick)

-----------------------------------------------------------------------------
TypeOK ==
    /\ G!TypeOK /\ B!TypeOK /\ L!TypeOK
    /\ pc \in [Calls -> Steps]
    /\ target \in [Calls -> [key : Keys, max : Limits, rate : Budgets]]
    /\ config \in [Keys -> Settings]
    /\ changes \in 0 .. MaxChanges
    /\ age \in [Calls -> 0 .. Timeout]
    /\ failed \in [Keys -> 0 .. FailureThreshold]

(* Whatever way Execute returns, it has given back its slot and its        *)
(* admission, and while it runs upstream work it has both: a leak on one   *)
(* error path would close the gate for good.                               *)
NothingHeldAfterReturn ==
    \A c \in Calls :
        /\ slot[c].st = "holding" <=> pc[c] \in {"holding", "sent", "returning"}
        /\ out[c] # B!NotOut <=> pc[c] \in {"admitted", "queued", "holding", "sent"}

(* Every call of Execute returns, whatever the upstream, the breaker and   *)
(* the other calls do.                                                     *)
EveryCallReturns ==
    \A c \in Calls : (pc[c] # "idle") ~> (pc[c] = "idle")

(* A circuit opens only when FailureThreshold requests of the instance, by *)
(* whichever calls, failed and none was answered below 500 in between: the *)
(* calls that were limited, shed, given up in the queue or could not build *)
(* their request leave no trace in it.  A request counts as failed however *)
(* client.Do failed (executor.go:175-178), so that callers who hang up do  *)
(* open it, and 4xx answers close the row (executor.go:180-183).           *)
OnlyFailedRequestsTrip ==
    [][\A k \in Keys :
        entry[k].state \in {"closed", "none"} /\ entry'[k].state = "open"
            => failed'[k] = FailureThreshold]_vars
=============================================================================
