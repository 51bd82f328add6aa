--------------------------- MODULE ExecutorProofs ---------------------------
(* Proofs about the executor, which composes the three controls: what was  *)
(* proved of each of them holds inside it as well; and about the call: the *)
(* request it sends, the pages of its response and its entry in the log.   *)
EXTENDS Executor, ToolRequest, Paging, UsageLog, Integers, FiniteSetTheorems, SequenceTheorems,
        WellFoundedInduction, TLAPS

GP == INSTANCE GateProofs
BP == INSTANCE BreakerProofs WITH MaxKeys <- Cardinality(Keys), IdleCutoff <- 0
LP == INSTANCE LimiterProofs WITH MaxKeys <- Cardinality(Keys), IdleCutoff <- Minute,
                                  Rates <- [k \in Keys |-> Budgets \ {0}]

(* The executor's own state. *)
Targets == [key : Keys, max : Limits, rate : Budgets]

Own ==
    /\ pc \in [Calls -> Steps]
    /\ target \in [Calls -> Targets]
    /\ config \in [Keys -> Settings]
    /\ changes \in 0 .. MaxChanges
    /\ age \in [Calls -> 0 .. Timeout]
    /\ failed \in [Keys -> 0 .. FailureThreshold]

(* A call that is out at the breaker is out with its target's instance. *)
OutWithTarget == \A c \in Calls : out[c] # BP!NotOut => out[c] = Key(c)

(* Every failure the breaker counts was a request's. *)
Blamed == \A k \in Keys : streak[k] <= failed[k]

-----------------------------------------------------------------------------
(* Settings leave at least one slot. *)
LEMMA SettingsTyped ==
    /\ Timeout \in Nat /\ FailureThreshold \in Nat \ {0} /\ MaxChanges \in Nat
    /\ Limits \subseteq Nat \ {0} /\ Budgets \subseteq Nat
    /\ \A s \in Settings : s.max \in Limits /\ s.rate \in Budgets
<1>1. \A s \in Settings : s.max \in Nat \ {0} /\ s.rate \in Nat
  BY ExecutorAssumption
<1> QED
  BY <1>1, ExecutorAssumption DEF Limits, Budgets

(* The parameters the controls are given satisfy what they assume. *)
LEMMA Parameters == GP!GateAssumption /\ BP!BreakerAssumption /\ LP!LimiterAssumption
<1> USE ExecutorAssumption
<1>1. GP!GateAssumption
  BY SettingsTyped DEF GP!GateAssumption, IsFiniteSet, GP!IsFiniteSet
<1>2. Cardinality(Keys) \in Nat
  BY FS_CardinalityType
<1>3. BP!BreakerAssumption
  BY <1>2 DEF BP!BreakerAssumption
<1>4. LP!LimiterAssumption
  BY <1>2, SettingsTyped DEF LP!LimiterAssumption
<1> QED
  BY <1>1, <1>3, <1>4

-----------------------------------------------------------------------------
(* The executor's own state keeps its types. *)
LEMMA OwnInvariance == Spec => []Own
<1>1. Init => Own
  <2> SUFFICES ASSUME Init PROVE Own
    OBVIOUS
  <2>1. \A k \in Keys : [key |-> k, max |-> config[k].max, rate |-> config[k].rate]
                          \in Targets
    BY SettingsTyped DEF Init, Targets
  <2> QED
    BY <2>1, SettingsTyped DEF Init, Own, Steps
<1>2. Own /\ [Next]_vars => Own'
  <2> SUFFICES ASSUME Own, [Next]_vars PROVE Own'
    OBVIOUS
  <2> USE DEF Own
  <2>1. ASSUME NEW c \in Calls, NEW k \in Keys, Resolve(c, k)
        PROVE  Own'
    <3>1. [key |-> k, max |-> config[k].max, rate |-> config[k].rate]
             \in Targets
      BY SettingsTyped DEF Targets
    <3> QED
      BY <2>1, <3>1 DEF Resolve
  <2>2. ASSUME NEW c \in Calls,
               \/ PassLimiter(c) \/ PassBreaker(c) \/ QueueForSlot(c) \/ TakeSlot(c) \/ GiveUp(c)
               \/ BuildFails(c) \/ Send(c) \/ Return(c)
        PROVE  Own'
    BY <2>2, SettingsTyped DEF PassLimiter, PassBreaker, QueueForSlot, TakeSlot, GiveUp, BuildFails, Send,
                Return, Steps
  <2>3. ASSUME NEW c \in Calls, NEW outcome \in Outcomes, Finish(c, outcome)
        PROVE  Own'
    <3>1. /\ B!Capped(failed[Key(c)] + 1, FailureThreshold) \in 0 .. FailureThreshold
          /\ Key(c) \in Keys
      BY SettingsTyped DEF B!Capped, Key, Targets
    <3>2. failed' \in [Keys -> 0 .. FailureThreshold]
      BY <2>3, <3>1, SettingsTyped DEF Finish
    <3> QED
      BY <2>3, <3>2, SettingsTyped DEF Finish, Steps
  <2>4. ASSUME NEW k \in Keys, NEW s \in Settings, Reconfigure(k, s)
        PROVE  Own'
    BY <2>4, SettingsTyped DEF Reconfigure
  <2>5. CASE Tick
    BY <2>5, SettingsTyped DEF Tick
  <2>6. CASE UNCHANGED vars
    BY <2>6 DEF vars
  <2> QED
    BY <2>1, <2>2, <2>3, <2>4, <2>5, <2>6 DEF Next
<1> QED
  BY <1>1, <1>2, PTL DEF Spec

-----------------------------------------------------------------------------
(* The gate does not notice what is around it: every step of the executor  *)
(* is a step of the gate, for an instance and a limit it is meant for, or  *)
(* leaves it alone.                                                        *)
LEMMA GateInside == Spec => GP!Spec
<1>1. Init => GP!Init
  BY DEF Init, G!Init, GP!Init, G!IdleSlot, GP!IdleSlot, G!NoKey, GP!NoKey
<1>2. Own /\ [Next]_vars => [GP!Next]_GP!vars
  <2> SUFFICES ASSUME Own, [Next]_vars PROVE GP!Next \/ UNCHANGED gateVars
    BY DEF gateVars, GP!vars
  <2>1. ASSUME NEW c \in Calls, QueueForSlot(c)
        PROVE  GP!Next
    <3>1. Key(c) \in Keys /\ target[c].max \in Limits
      BY DEF Own, Key, Targets
    <3>2. GP!Request(c, Key(c), target[c].max)
      <4>1. G!Fresh = GP!Fresh
        BY DEF G!Fresh, GP!Fresh, G!Current, GP!Current, G!Referenced, GP!Referenced
      <4> QED
        BY <2>1, <4>1 DEF QueueForSlot, G!Request, GP!Request, G!Sem, GP!Sem, G!HasChannel,
                          GP!HasChannel, G!Current, GP!Current, G!Referenced, GP!Referenced
    <3> QED
      BY <3>1, <3>2 DEF GP!Next
  <2>2. ASSUME NEW c \in Calls, TakeSlot(c)
        PROVE  GP!Next
    BY <2>2 DEF TakeSlot, G!TakeSlot, GP!TakeSlot, GP!Next
  <2>3. ASSUME NEW c \in Calls, GiveUp(c)
        PROVE  GP!Next
    BY <2>3 DEF GiveUp, G!GiveUp, GP!GiveUp, GP!Next, G!IdleSlot, GP!IdleSlot, G!NoKey, GP!NoKey
  <2>4. ASSUME NEW c \in Calls, BuildFails(c) \/ Return(c)
        PROVE  GP!Next
    BY <2>4 DEF BuildFails, Return, G!Release, GP!Release, GP!Next, G!IdleSlot, GP!IdleSlot,
                G!NoKey, GP!NoKey
  <2>5. \/ UNCHANGED gateVars
        \/ \E c \in Calls : \/ QueueForSlot(c) \/ TakeSlot(c) \/ GiveUp(c)
                            \/ BuildFails(c) \/ Return(c)
    BY DEF Next, vars, Resolve, PassLimiter, PassBreaker, Send, Finish, Reconfigure, Tick
  <2> QED
    BY <2>1, <2>2, <2>3, <2>4, <2>5
<1> QED
  BY <1>1, <1>2, OwnInvariance, PTL DEF Spec, GP!Spec

(* The breaker and the limiter count sets the way their proofs do. *)
LEMMA SameSweeps ==
    /\ \A m : B!Sweep(m) = BP!Sweep(m)
    /\ \A m : L!Sweep(m) = LP!Sweep(m)
<1>1. ASSUME NEW S
      PROVE  B!Cardinality(S) = BP!Cardinality(S)
  BY DEF B!Cardinality, BP!Cardinality
<1>2. ASSUME NEW S
      PROVE  L!Cardinality(S) = LP!Cardinality(S)
  BY DEF L!Cardinality, LP!Cardinality
<1>3. B!NoEntry = BP!NoEntry /\ L!NoBucket = LP!NoBucket
  BY DEF B!NoEntry, BP!NoEntry, L!NoBucket, LP!NoBucket
<1>4. ASSUME NEW m
      PROVE  B!Sweep(m) = BP!Sweep(m)
  <2>1. B!Cardinality({k \in Keys : m[k] # B!NoEntry}) = BP!Cardinality({k \in Keys : m[k] # BP!NoEntry})
    BY <1>1, <1>3
  <2> QED
    BY <1>3, <2>1 DEF B!Sweep, BP!Sweep
<1>5. ASSUME NEW m
      PROVE  L!Sweep(m) = LP!Sweep(m)
  <2>1. L!Cardinality({k \in Keys : m[k] # L!NoBucket}) = LP!Cardinality({k \in Keys : m[k] # LP!NoBucket})
    BY <1>2, <1>3
  <2> QED
    BY <1>3, <2>1 DEF L!Sweep, LP!Sweep
<1> QED
  BY <1>4, <1>5

(* Every step of the executor is a step of the limiter, or none. *)
LEMMA LimiterInside == Spec => LP!Spec
<1>1. Init => LP!Init
  BY DEF Init, L!Init, LP!Init, L!NoBucket, LP!NoBucket, L!NoVerdict, LP!NoVerdict
<1>2. Own /\ [Next]_vars => [LP!Next]_LP!vars
  <2> SUFFICES ASSUME Own, [Next]_vars PROVE LP!Next \/ UNCHANGED limiterVars
    BY DEF limiterVars, LP!vars
  <2>1. ASSUME NEW c \in Calls, PassLimiter(c)
        PROVE  LP!Next \/ UNCHANGED limiterVars
    <3>1. Key(c) \in Keys /\ target[c].rate \in Budgets
      BY DEF Own, Key, Targets
    <3>2. CASE UNCHANGED limiterVars
      BY <3>2
    <3>3. CASE target[c].rate > 0 /\ L!Allow(Key(c), target[c].rate)
      <4>1. LP!Allow(Key(c), target[c].rate)
        BY <3>3, SameSweeps DEF L!Allow, LP!Allow, L!Live, LP!Live, L!NoBucket, LP!NoBucket,
              L!Refilled, LP!Refilled, L!Rescaled, LP!Rescaled, L!Lesser, LP!Lesser
      <4>2. target[c].rate \in [k \in Keys |-> Budgets \ {0}][Key(c)]
        BY <3>1, <3>3
      <4> QED
        BY <3>1, <4>1, <4>2 DEF LP!Next
    <3> QED
      BY <2>1, <3>2, <3>3 DEF PassLimiter
  <2>2. CASE Tick
    <3>1. LP!Tick
      BY <2>2 DEF Tick, L!Tick, LP!Tick, L!Live, LP!Live, L!NoBucket, LP!NoBucket,
            L!Lesser, LP!Lesser, L!NoVerdict, LP!NoVerdict
    <3> QED
      BY <3>1 DEF LP!Next
  <2>3. UNCHANGED limiterVars \/ Tick \/ \E c \in Calls : PassLimiter(c)
    BY DEF Next, vars, Resolve, PassBreaker, QueueForSlot, TakeSlot, GiveUp, BuildFails, Send,
           Finish, Return, Reconfigure
  <2> QED
    BY <2>1, <2>2, <2>3
<1> QED
  BY <1>1, <1>2, OwnInvariance, PTL DEF Spec, LP!Spec

(* Every step of the executor is a step of the breaker, or none. *)
LEMMA BreakerInside == Spec => BP!Spec
<1>1. Init => BP!Init
  BY DEF Init, B!Init, BP!Init, B!NoEntry, BP!NoEntry, B!NotOut, BP!NotOut
<1>2. Own /\ [Next]_vars => [BP!Next]_BP!vars
  <2> SUFFICES ASSUME Own, [Next]_vars PROVE BP!Next \/ UNCHANGED breakerVars
    BY DEF breakerVars, BP!vars
  <2>1. ASSUME NEW k, NEW e
        PROVE  B!Store(k, e) = BP!Store(k, e) /\ B!EntryOf(k) = BP!EntryOf(k)
    BY SameSweeps DEF B!Store, BP!Store, B!EntryOf, BP!EntryOf, B!Live, BP!Live, B!NoEntry,
          BP!NoEntry, B!FreshEntry, BP!FreshEntry
  <2>2. ASSUME NEW k, NEW n
        PROVE  B!CountReports(k, n) = BP!CountReports(k, n)
    BY DEF B!CountReports, BP!CountReports, B!NoEntry, BP!NoEntry
  <2>3. ASSUME NEW e
        PROVE  B!AfterSuccess(e) = BP!AfterSuccess(e) /\ B!AfterFailure(e) = BP!AfterFailure(e)
    BY DEF B!AfterSuccess, BP!AfterSuccess, B!AfterFailure, BP!AfterFailure, B!Capped, BP!Capped
  <2>4. B!NotOut = BP!NotOut
    BY DEF B!NotOut, BP!NotOut
  <2>5. ASSUME NEW c \in Calls, PassBreaker(c)
        PROVE  BP!Next
    <3>1. Key(c) \in Keys
      BY DEF Own, Key, Targets
    <3> DEFINE k == Key(c)
               e == BP!EntryOf(k)
               shed == e.state = "open" /\ e.openAge < OpenDuration
               opened == [e EXCEPT !.state = "half-open", !.successes = 0]
               made == IF e.state = "open" /\ ~shed THEN opened ELSE e
    <3>2. BP!Allow(c, k)
      <4>1. e = B!EntryOf(k)
        BY <2>1
      <4>2. /\ out[c] = B!NotOut
            /\ entry' = B!Store(k, made)
            /\ out' = IF shed THEN out ELSE [out EXCEPT ![c] = k]
            /\ B!CountReports(k, streak[k])
        BY <2>5, <4>1 DEF PassBreaker, B!Allow
      <4>3. B!Store(k, made) = BP!Store(k, made) /\ BP!CountReports(k, streak[k])
        BY <2>1, <2>2, <4>2
      <4> QED
        BY <2>4, <4>2, <4>3 DEF BP!Allow
    <3> QED
      BY <3>1, <3>2 DEF BP!Next
  <2>6. ASSUME NEW c \in Calls, GiveUp(c) \/ BuildFails(c)
        PROVE  BP!Next
    BY <2>4, <2>6 DEF GiveUp, BuildFails, B!Abandon, BP!Abandon, BP!Next
  <2>7. ASSUME NEW c \in Calls, NEW outcome \in Outcomes, Finish(c, outcome)
        PROVE  BP!Next
    <3>1. BP!Record(c, outcome \in Healthy)
      BY <2>1, <2>2, <2>3, <2>4, <2>7 DEF Finish, B!Record, BP!Record, B!Capped, BP!Capped
    <3>2. (outcome \in Healthy) \in BOOLEAN
      OBVIOUS
    <3> QED
      BY <3>1, <3>2 DEF BP!Next
  <2>8. ASSUME NEW k \in Keys, NEW s \in Settings, Reconfigure(k, s)
        PROVE  BP!Next
    BY <2>8 DEF Reconfigure, B!Reset, BP!Reset, B!NoEntry, BP!NoEntry, BP!Next
  <2>9. CASE Tick
    <3>1. BP!Tick
      BY <2>9 DEF Tick, B!Tick, BP!Tick, B!Live, BP!Live, B!NoEntry, BP!NoEntry, B!Capped, BP!Capped
    <3> QED
      BY <3>1 DEF BP!Next
  <2>10. \/ UNCHANGED breakerVars \/ Tick
         \/ \E c \in Calls : \/ PassBreaker(c) \/ GiveUp(c) \/ BuildFails(c)
                             \/ \E outcome \in Outcomes : Finish(c, outcome)
         \/ \E k \in Keys, s \in Settings : Reconfigure(k, s)
    BY DEF Next, vars, Resolve, PassLimiter, QueueForSlot, TakeSlot, Send, Return
  <2> QED
    BY <2>5, <2>6, <2>7, <2>8, <2>9, <2>10
<1> QED
  BY <1>1, <1>2, OwnInvariance, PTL DEF Spec, BP!Spec

-----------------------------------------------------------------------------
(* What was proved of the controls holds inside the executor: the gate     *)
(* keeps its books and its bound, the breaker trips at its threshold,      *)
(* waits out its cooldown and forgets no outage, the limiter keeps every   *)
(* key within its budget, whatever the interleaving of calls, deadlines,   *)
(* reconfigurations and time.                                              *)
THEOREM ControlsHold ==
    Spec => /\ [](GP!SlotsAccounted /\ GP!BoundedInFlight)
            /\ [](BP!TripsOnThreshold /\ BP!ProbesAfterCooldown) /\ BP!SweepKeepsOutages
            /\ []LP!WindowBound
<1>1. GP!Spec => [](GP!SlotsAccounted /\ GP!BoundedInFlight)
  BY Parameters, GP!SlotsAreAccounted, GP!InFlightIsBounded, PTL
<1>2. BP!Spec => [](BP!TripsOnThreshold /\ BP!ProbesAfterCooldown) /\ BP!SweepKeepsOutages
  BY Parameters, BP!ThresholdTrips, BP!CooldownIsWaitedFor, BP!OutagesAreKept, PTL
<1>3. LP!Spec => []LP!WindowBound
  BY Parameters, LP!WindowIsBounded
<1> QED
  BY <1>1, <1>2, <1>3, GateInside, BreakerInside, LimiterInside, PTL

(* The controls' states keep their types. *)
LEMMA PartsTyped == Spec => [](Own /\ GP!TypeOK /\ BP!TypeOK /\ LP!TypeOK)
<1>1. (GP!Spec => []GP!TypeOK) /\ (BP!Spec => []BP!TypeOK) /\ (LP!Spec => []LP!TypeOK)
  BY Parameters, GP!TypeCorrect, BP!TypeCorrect, LP!TypeCorrect
<1> QED
  BY <1>1, OwnInvariance, GateInside, BreakerInside, LimiterInside, PTL

(* The state of the executor and of the three controls keeps its types:    *)
(* no release empties a channel twice, no request outlives its deadline.   *)
THEOREM TypeCorrect == Spec => []TypeOK
<1>1. Own /\ GP!TypeOK /\ BP!TypeOK /\ LP!TypeOK => TypeOK
  <2> SUFFICES ASSUME Own, GP!TypeOK, BP!TypeOK, LP!TypeOK PROVE TypeOK
    OBVIOUS
  <2>1. G!TypeOK
    BY DEF G!TypeOK, GP!TypeOK, G!Channel, GP!Channel, G!Slot, GP!Slot, G!NoKey, GP!NoKey
  <2>2. B!TypeOK
    BY DEF B!TypeOK, BP!TypeOK, B!Entry, BP!Entry, B!NoEntry, BP!NoEntry, B!NotOut, BP!NotOut
  <2>3. L!TypeOK
    BY DEF L!TypeOK, LP!TypeOK, L!Bucket, LP!Bucket, L!NoBucket, LP!NoBucket, L!NoVerdict,
           LP!NoVerdict
  <2> QED
    BY <2>1, <2>2, <2>3 DEF TypeOK, Own, Targets
<1> QED
  BY <1>1, PartsTyped, PTL

-----------------------------------------------------------------------------
(* A call holds a slot and an admission exactly as long as its code says.  *)
Held(c) ==
    /\ slot[c].st = "holding" <=> pc[c] \in {"holding", "sent", "returning"}
    /\ out[c] # B!NotOut <=> pc[c] \in {"admitted", "queued", "holding", "sent"}
    /\ out[c] # B!NotOut => out[c] = Key(c)

HeldInv == NothingHeldAfterReturn /\ OutWithTarget

LEMMA HeldSplit == HeldInv <=> \A c \in Calls : Held(c)
<1>1. B!NotOut = BP!NotOut
  BY DEF B!NotOut, BP!NotOut
<1> QED
  BY <1>1 DEF HeldInv, NothingHeldAfterReturn, OutWithTarget, Held

LEMMA HeldStep ==
    ASSUME Own, GP!TypeOK, BP!TypeOK, HeldInv, [Next]_vars
    PROVE  HeldInv'
<1>1. \A c \in Calls : Held(c)
  BY HeldSplit
<1>2. HeldInv' <=> \A c \in Calls : Held(c)'
  <2>1. B!NotOut = BP!NotOut
    BY DEF B!NotOut, BP!NotOut
  <2> QED
    BY <2>1 DEF HeldInv, NothingHeldAfterReturn, OutWithTarget, Held
<1>3. /\ pc \in [Calls -> Steps] /\ target \in [Calls -> Targets]
      /\ slot \in [Calls -> GP!Slot] /\ DOMAIN out = Calls
  BY DEF Own, GP!TypeOK, BP!TypeOK
<1>4. \A c \in Calls : Key(c) \in Keys /\ Key(c) # B!NotOut /\ target[c].max \in Nat \ {0}
  BY <1>3, SettingsTyped, ExecutorAssumption DEF Targets, Key, B!NotOut
<1> SUFFICES ASSUME NEW d \in Calls PROVE Held(d)'
  BY <1>2
<1>5. Held(d) /\ d \in Calls
  BY <1>1
<1>6. ASSUME NEW c \in Calls, NEW k \in Keys, Resolve(c, k)
      PROVE  Held(d)'
  BY <1>1, <1>3, <1>6 DEF Resolve, Held, Key, gateVars, breakerVars
<1>7. ASSUME NEW c \in Calls, PassLimiter(c)
      PROVE  Held(d)'
  BY <1>1, <1>3, <1>7 DEF PassLimiter, Held, Key, gateVars, breakerVars, Steps
<1>8. ASSUME NEW c \in Calls, PassBreaker(c)
      PROVE  Held(d)'
  <2>1. \/ out' = out
        \/ out' = [out EXCEPT ![c] = Key(c)]
    BY <1>8 DEF PassBreaker, B!Allow
  <2>2. /\ pc[c] = "limited" /\ out[c] = B!NotOut
        /\ pc' = [pc EXCEPT ![c] = IF out'[c] = B!NotOut THEN "idle" ELSE "admitted"]
        /\ slot' = slot /\ target' = target
    BY <1>8, <1>1 DEF PassBreaker, B!Allow, gateVars
  <2> QED
    BY <1>1, <1>3, <1>4, <2>1, <2>2 DEF Held, Key, Steps
<1>9. ASSUME NEW c \in Calls, QueueForSlot(c)
      PROVE  Held(d)'
  <2>1. \E n : slot' = [slot EXCEPT ![c] = [st |-> "waiting", key |-> Key(c), chan |-> n]]
    BY <1>4, <1>9 DEF QueueForSlot, G!Request, G!Sem
  <2> QED
    BY <1>1, <1>3, <1>9, <2>1 DEF QueueForSlot, Held, Key, Steps, breakerVars
<1>10. ASSUME NEW c \in Calls, TakeSlot(c)
       PROVE  Held(d)'
  <2>1. slot' = [slot EXCEPT ![c].st = "holding"]
    BY <1>10 DEF TakeSlot, G!TakeSlot
  <2>2. slot'[c].st = "holding" /\ (d # c => slot'[d] = slot[d])
    BY <1>3, <2>1 DEF GP!Slot
  <2> QED
    BY <1>1, <1>3, <1>10, <2>2 DEF TakeSlot, Held, Key, Steps, breakerVars
<1>11. ASSUME NEW c \in Calls, GiveUp(c) \/ BuildFails(c)
       PROVE  Held(d)'
  BY <1>1, <1>3, <1>11 DEF GiveUp, BuildFails, G!GiveUp, G!Release, G!IdleSlot, B!Abandon, Held,
        Key, Steps
<1>12. ASSUME NEW c \in Calls, Send(c)
       PROVE  Held(d)'
  BY <1>1, <1>3, <1>12 DEF Send, Held, Key, Steps, gateVars, breakerVars
<1>13. ASSUME NEW c \in Calls, NEW outcome \in Outcomes, Finish(c, outcome)
       PROVE  Held(d)'
  <2>1. /\ pc[c] = "sent" /\ pc' = [pc EXCEPT ![c] = "returning"]
        /\ out' = [out EXCEPT ![c] = B!NotOut]
        /\ slot' = slot /\ target' = target
    BY <1>13 DEF Finish, B!Record, gateVars
  <2> QED
    BY <1>1, <1>3, <2>1 DEF Held, Key, Steps
<1>14. ASSUME NEW c \in Calls, Return(c)
       PROVE  Held(d)'
  BY <1>1, <1>3, <1>14 DEF Return, G!Release, G!IdleSlot, Held, Key, Steps, breakerVars
<1>15. CASE \/ Tick \/ UNCHANGED vars
            \/ \E k \in Keys, s \in Settings : Reconfigure(k, s)
  <2>1. slot' = slot /\ out' = out /\ pc' = pc /\ target' = target
    BY <1>15 DEF Tick, vars, Reconfigure, B!Tick, B!Reset, gateVars, breakerVars
  <2> QED
    BY <1>5, <2>1 DEF Held, Key
<1> QED
  BY <1>6, <1>7, <1>8, <1>9, <1>10, <1>11, <1>12, <1>13, <1>14, <1>15 DEF Next

(* Whatever way Execute returns, it has given back its slot and its        *)
(* admission, and upstream work runs only with both: no path through the   *)
(* code leaks a slot, for any number of calls, instances and settings.     *)
THEOREM NothingIsHeld == Spec => []NothingHeldAfterReturn
<1>1. Init => HeldInv
  BY DEF Init, G!Init, G!IdleSlot, B!Init, HeldInv, NothingHeldAfterReturn, OutWithTarget,
         B!NotOut, BP!NotOut
<1>2. Own /\ GP!TypeOK /\ BP!TypeOK /\ HeldInv /\ [Next]_vars => HeldInv'
  BY HeldStep
<1>3. HeldInv => NothingHeldAfterReturn
  BY DEF HeldInv
<1> QED
  BY <1>1, <1>2, <1>3, PartsTyped, PTL DEF Spec

-----------------------------------------------------------------------------
(* The breaker's count never runs ahead of the requests that failed: it is *)
(* the count of those, or was cut short.                                   *)
LEMMA BlamedStep ==
    ASSUME Own, BP!TypeOK, HeldInv, Blamed, [Next]_vars
    PROVE  Blamed'
<1>1. /\ failed \in [Keys -> 0 .. FailureThreshold] /\ streak \in [Keys -> 0 .. FailureThreshold]
      /\ FailureThreshold \in Nat \ {0}
  BY SettingsTyped DEF Own, BP!TypeOK
<1> SUFFICES ASSUME NEW k \in Keys PROVE streak'[k] <= failed'[k]
  BY DEF Blamed
<1>2. streak[k] <= failed[k] /\ streak[k] \in Nat /\ failed[k] \in Nat
  BY <1>1 DEF Blamed
<1>3. ASSUME NEW c \in Calls, PassBreaker(c)
      PROVE  streak'[k] <= failed'[k]
  <2>1. failed' = failed /\ streak'[k] \in {0, streak[k]}
    BY <1>3 DEF PassBreaker, B!Allow, B!CountReports
  <2> QED
    BY <1>2, <2>1
<1>4. ASSUME NEW c \in Calls, NEW outcome \in Outcomes, Finish(c, outcome)
      PROVE  streak'[k] <= failed'[k]
  <2>1. out[c] = Key(c) /\ out[c] # B!NotOut
    BY <1>4 DEF Finish, B!Record, HeldInv, OutWithTarget, B!NotOut, BP!NotOut
  <2>2. CASE k = Key(c) /\ outcome \in Healthy
    <3>1. streak'[k] = 0 /\ failed'[k] = 0
      BY <1>1, <1>4, <2>1, <2>2 DEF Finish, B!Record, B!CountReports
    <3> QED
      BY <3>1
  <2>3. CASE k = Key(c) /\ outcome \notin Healthy
    <3>1. /\ streak'[k] \in {0, B!Capped(streak[k] + 1, FailureThreshold)}
          /\ failed'[k] = B!Capped(failed[k] + 1, FailureThreshold)
      BY <1>1, <1>4, <2>1, <2>3 DEF Finish, B!Record, B!CountReports
    <3> QED
      BY <1>1, <1>2, <3>1 DEF B!Capped
  <2>4. CASE k # Key(c)
    <3>1. streak'[k] \in {0, streak[k]} /\ failed'[k] = failed[k]
      BY <1>1, <1>4, <2>1, <2>4 DEF Finish, B!Record, B!CountReports
    <3> QED
      BY <1>2, <3>1
  <2> QED
    BY <2>2, <2>3, <2>4
<1>5. ASSUME NEW q \in Keys, NEW s \in Settings, Reconfigure(q, s)
      PROVE  streak'[k] <= failed'[k]
  BY <1>1, <1>2, <1>5 DEF Reconfigure, B!Reset
<1>6. \/ failed' = failed /\ streak' = streak
      \/ \E c \in Calls : PassBreaker(c) \/ \E outcome \in Outcomes : Finish(c, outcome)
      \/ \E q \in Keys, s \in Settings : Reconfigure(q, s)
  BY DEF Next, vars, Resolve, PassLimiter, QueueForSlot, TakeSlot, GiveUp, BuildFails, Send,
         Return, Tick, B!Tick, B!Abandon, breakerVars
<1> QED
  BY <1>2, <1>3, <1>4, <1>5, <1>6

(* A closed circuit opens only after FailureThreshold requests in a row    *)
(* failed, sent by whichever calls of the instance: a call that was        *)
(* limited, shed, gave up waiting or could not build its request, or whose *)
(* request was answered below 500, adds nothing to the row.                *)
THEOREM FailedRequestsTrip == Spec => OnlyFailedRequestsTrip
<1>1. Init => HeldInv /\ Blamed
  BY DEF Init, G!Init, G!IdleSlot, B!Init, HeldInv, NothingHeldAfterReturn, OutWithTarget,
         B!NotOut, BP!NotOut, Blamed
<1>2. Own /\ GP!TypeOK /\ BP!TypeOK /\ HeldInv /\ Blamed /\ [Next]_vars => HeldInv' /\ Blamed'
  BY HeldStep, BlamedStep
<1>3. BP!Spec => BP!OpensOnlyOnStreak
  BY Parameters, BP!OpensOnStreak
<1>4. /\ Own' /\ BP!TypeOK' /\ Blamed' /\ [Next]_vars
      /\ [\A k \in Keys : entry[k].state \in {"closed", "none"} /\ entry'[k].state = "open"
                            => streak'[k] = FailureThreshold]_BP!vars
      => [\A k \in Keys : entry[k].state \in {"closed", "none"} /\ entry'[k].state = "open"
                            => failed'[k] = FailureThreshold]_vars
  <2> SUFFICES ASSUME Own', Blamed',
                      [\A k \in Keys :
                          entry[k].state \in {"closed", "none"} /\ entry'[k].state = "open"
                            => streak'[k] = FailureThreshold]_BP!vars,
                      NEW k \in Keys,
                      entry[k].state \in {"closed", "none"}, entry'[k].state = "open"
               PROVE  failed'[k] = FailureThreshold
    OBVIOUS
  <2>1. entry' # entry
    OBVIOUS
  <2>2. streak'[k] = FailureThreshold
    BY <2>1 DEF BP!vars
  <2>3. failed'[k] \in 0 .. FailureThreshold /\ streak'[k] <= failed'[k]
    BY DEF Own, Blamed
  <2> QED
    BY <2>2, <2>3, SettingsTyped
<1> QED
  BY <1>1, <1>2, <1>3, <1>4, PartsTyped, BreakerInside, PTL
     DEF Spec, BP!OpensOnlyOnStreak, OnlyFailedRequestsTrip

-----------------------------------------------------------------------------
(* The log of the calls. *)

(* The equation of the fold that adds up the sizes of the entries of es.   *)
Adds(iter, es) ==
    iter = [s \in SUBSET es |->
              IF s = {} THEN 0
              ELSE LET x == CHOOSE x \in s : TRUE IN x.size + iter[s \ {x}]]

SumOf(es) == (CHOOSE iter : Adds(iter, es))[es]

LEMMA LiveIsASum == Live = SumOf(log) /\ Live' = SumOf(log')
BY DEF Live, MapThenSumSet, MapThenFoldSet, SumOf, Adds

(* A nonempty set of naturals has a least element.                         *)
LEMMA LeastOf ==
    ASSUME NEW S \in SUBSET Nat, S # {}
    PROVE  \E x \in S : \A y \in S : x <= y
<1>1. PICK x \in S : \A y \in S : ~(<<y, x>> \in OpToRel(<, Nat))
  BY NatLessThanWellFounded, WFMin
<1>2. ASSUME NEW y \in S PROVE x <= y
  <2>1. <<y, x>> \in Nat \X Nat /\ ~(<<y, x>>[1] < <<y, x>>[2])
    BY <1>1 DEF OpToRel
  <2> QED
    BY <2>1
<1> QED
  BY <1>2

(* Entries of one size but for one of them add up to a product and that.   *)
LEMMA SumOfEqual ==
    ASSUME NEW es, IsFiniteSet(es), NEW k \in Nat, NEW one, one.size \in Nat,
           \A e \in es : e # one => e.size = k
    PROVE  SumOf(es) = k * Cardinality(es \ {one}) + (IF one \in es THEN one.size ELSE 0)
<1> DEFINE SumIn(s) == k * Cardinality(s \ {one}) + (IF one \in s THEN one.size ELSE 0)
           sums == [s \in SUBSET es |-> SumIn(s)]
<1>0. \A n \in Nat : k * n \in Nat
  OBVIOUS
<1>1. ASSUME NEW s \in SUBSET es
      PROVE  IsFiniteSet(s) /\ IsFiniteSet(s \ {one}) /\ Cardinality(s) \in Nat /\ Cardinality(s \ {one}) \in Nat
  <2>1. IsFiniteSet(s) /\ IsFiniteSet(s \ {one})
    BY FS_Subset
  <2> QED
    BY <2>1, FS_CardinalityType
<1>2. ASSUME NEW s \in SUBSET es, NEW x \in s
      PROVE  SumIn(s) = x.size + SumIn(s \ {x})
  <2>1. CASE x = one
    <3> DEFINE product == k * Cardinality(s \ {one})
    <3>1. (s \ {x}) \ {one} = s \ {one}
      BY <2>1
    <3>2. product \in Nat
      BY <1>1, <1>0
    <3>3. SumIn(s) = product + one.size
      BY <2>1
    <3>4. SumIn(s \ {x}) = product + 0
      BY <2>1, <3>1
    <3> HIDE DEF product, SumIn
    <3> QED
      BY <2>1, <3>2, <3>3, <3>4
  <2>2. CASE x # one
    <3> DEFINE rest == s \ {one}
    <3>1. x \in rest /\ IsFiniteSet(rest) /\ (s \ {x}) \ {one} = rest \ {x}
      BY <2>2, <1>1
    <3>2. Cardinality(rest \ {x}) = Cardinality(rest) - 1 /\ Cardinality(rest) \in Nat
      <4> HIDE DEF rest
      <4> QED
        BY <3>1, FS_RemoveElement, FS_CardinalityType
    <3>3. k * Cardinality(rest) = k + k * Cardinality(rest \ {x})
      <4> HIDE DEF rest
      <4>1. \A n \in Nat : k * n = k + k * (n - 1)
        OBVIOUS
      <4> QED
        BY <3>2, <4>1
    <3>4. x.size = k /\ (one \in s <=> one \in s \ {x})
      BY <2>2
    <3>5. k * Cardinality(rest \ {x}) \in Nat
      <4>1. rest \ {x} \in SUBSET es
        OBVIOUS
      <4>2. Cardinality(rest \ {x}) \in Nat
        BY <4>1, FS_Subset, FS_CardinalityType
      <4> QED
        BY <4>2
    <3>6. SumIn(s) = k * Cardinality(rest) + (IF one \in s THEN one.size ELSE 0)
      OBVIOUS
    <3>7. SumIn(s \ {x}) = k * Cardinality(rest \ {x}) + (IF one \in s THEN one.size ELSE 0)
      BY <3>1, <3>4
    <3> QED
      <4> HIDE DEF rest, SumIn
      <4> QED
        BY <3>3, <3>4, <3>5, <3>6, <3>7
  <2> QED
    BY <2>1, <2>2
<1>3. SumIn({}) = 0
  <2>1. {} \ {one} = {} /\ Cardinality({}) = 0
    BY FS_EmptySet
  <2> QED
    BY <2>1
<1> HIDE DEF SumIn
<1>4. Adds(sums, es)
  <2>1. ASSUME NEW s \in SUBSET es
        PROVE  SumIn(s) = IF s = {} THEN 0
                          ELSE LET x == CHOOSE x \in s : TRUE IN x.size + sums[s \ {x}]
    <3>1. CASE s = {}
      BY <3>1, <1>3
    <3>2. CASE s # {}
      <4> DEFINE c == CHOOSE x \in s : TRUE
      <4>1. c \in s
        BY <3>2
      <4>2. SumIn(s) = c.size + SumIn(s \ {c})
        BY <4>1, <1>2
      <4>3. sums[s \ {c}] = SumIn(s \ {c})
        OBVIOUS
      <4> QED
        BY <3>2, <4>2, <4>3
    <3> QED
      BY <3>1, <3>2
  <2> QED
    BY <2>1 DEF Adds
<1> DEFINE iter == CHOOSE i : Adds(i, es)
<1>5. Adds(iter, es)
  BY <1>4
<1> HIDE DEF iter
<1>6. iter[es] = SumIn(es)
  <2> DEFINE bad == {n \in Nat : \E s \in SUBSET es : Cardinality(s) = n /\ iter[s] # SumIn(s)}
  <2> SUFFICES ASSUME iter[es] # SumIn(es) PROVE FALSE
    OBVIOUS
  <2>1. Cardinality(es) \in bad
    BY <1>1
  <2>2. PICK n \in bad : \A m \in bad : n <= m
    BY <2>1, LeastOf
  <2>3. PICK s \in SUBSET es : Cardinality(s) = n /\ iter[s] # SumIn(s)
    BY <2>2
  <2> DEFINE c == CHOOSE x \in s : TRUE
  <2>4. iter[s] = IF s = {} THEN 0 ELSE c.size + iter[s \ {c}]
    BY <1>5 DEF Adds
  <2>5. s # {}
    BY <2>3, <2>4, <1>3
  <2>6. c \in s
    BY <2>5
  <2> HIDE DEF c
  <2>7. s \ {c} \in SUBSET es /\ Cardinality(s \ {c}) = n - 1 /\ n - 1 \in Nat
    <3>1. IsFiniteSet(s) /\ s \ {c} \in SUBSET es
      BY <1>1
    <3>2. Cardinality(s \ {c}) = Cardinality(s) - 1
      BY <3>1, <2>6, FS_RemoveElement
    <3>3. Cardinality(s \ {c}) \in Nat
      BY <3>1, <1>1
    <3> QED
      BY <3>1, <3>2, <3>3, <2>3
  <2>8. iter[s \ {c}] = SumIn(s \ {c})
    <3>1. n - 1 \notin bad
      BY <2>2, <2>7
    <3> QED
      BY <3>1, <2>7
  <2> QED
    BY <1>2, <2>3, <2>4, <2>5, <2>6, <2>8
<1> QED
  BY <1>6 DEF SumOf, iter, SumIn

(* Entries of one size add up to a product.                                *)
LEMMA SumOfSame ==
    ASSUME NEW es, IsFiniteSet(es), NEW k \in Nat, \A e \in es : e.size = k
    PROVE  SumOf(es) = k * Cardinality(es)
<1>1. CASE es = {}
  <2> DEFINE one == [size |-> k]
  <2>1. one.size \in Nat /\ one \notin es /\ es \ {one} = {} /\ Cardinality({}) = 0 /\ Cardinality(es) = 0
    BY <1>1, FS_EmptySet
  <2> HIDE DEF one
  <2>2. SumOf(es) = k * Cardinality(es \ {one}) + (IF one \in es THEN one.size ELSE 0)
    <3>1. \A e \in es : e # one => e.size = k
      OBVIOUS
    <3> QED
      BY <2>1, <3>1, SumOfEqual
  <2>3. k * Cardinality(es) = 0 /\ k * Cardinality(es \ {one}) = 0
    BY <2>1
  <2> QED
    BY <2>1, <2>2, <2>3
<1>2. CASE es # {}
  <2>1. PICK e \in es : TRUE
    BY <1>2
  <2>2. SumOf(es) = k * Cardinality(es \ {e}) + k
    BY <2>1, SumOfEqual
  <2>3. Cardinality(es \ {e}) = Cardinality(es) - 1 /\ Cardinality(es) \in Nat
    BY <2>1, FS_RemoveElement, FS_CardinalityType
  <2>4. \A n \in Nat : k * (n - 1) + k = k * n
    OBVIOUS
  <2> QED
    BY <2>2, <2>3, <2>4
<1> QED
  BY <1>1, <1>2

(* Min of a set of naturals. *)
LEMMA FirstOf ==
    ASSUME NEW S \in SUBSET Nat, S # {}
    PROVE  Min(S) \in S /\ \A y \in S : Min(S) <= y
BY LeastOf DEF Min

(* The average is no less than an entry where all are alike.               *)
LEMMA EstimateIsModest ==
    ASSUME NEW size \in Nat, NEW count \in Nat \ {0}, NEW s \in Nat \ {0},
           size >= s * count, prune.cap \in Nat, size > prune.cap
    PROVE  /\ Estimate(size, count) \in Nat \ {0}
           /\ (Estimate(size, count) - 1) * s <= size - prune.cap
<1> DEFINE average == Max({size \div count, 1})
           over == size - prune.cap
           wanted == over \div average + 1
<1>1. size \div count \in Nat /\ s <= size \div count
  <2>1. \A q \in Nat : \A r \in Nat : size = q * count + r /\ r < count => s <= q
    <3> SUFFICES ASSUME NEW q \in Nat, NEW r \in Nat, size = q * count + r, r < count, q < s
                 PROVE  FALSE
      OBVIOUS
    <3>1. s - q - 1 \in Nat /\ s * count = q * count + count + (s - q - 1) * count
      OBVIOUS
    <3>2. (s - q - 1) * count \in Nat
      BY <3>1
    <3> HIDE <3>1
    <3>3. q * count \in Nat /\ s * count \in Nat
      OBVIOUS
    <3> QED
      BY <3>1, <3>2, <3>3
  <2> QED
    BY <2>1
<1>2. average \in Nat \ {0} /\ s <= average
  <2>1. \E x \in {size \div count, 1} : \A y \in {size \div count, 1} : x >= y
    <3>1. CASE size \div count >= 1
      BY <1>1, <3>1
    <3>2. CASE ~(size \div count >= 1)
      BY <1>1, <3>2
    <3> QED
      BY <3>1, <3>2
  <2>2. average \in {size \div count, 1} /\ average >= size \div count /\ average >= 1
    BY <2>1 DEF Max
  <2> HIDE DEF average
  <2> QED
    BY <1>1, <2>2
<1> HIDE DEF average
<1>3. over \in Nat \ {0}
  OBVIOUS
<1> HIDE DEF over
<1>4. over \div average \in Nat /\ (over \div average) * average <= over
  BY <1>2, <1>3
<1>5. wanted \in Nat \ {0} /\ PruneBatch \in Nat \ {0}
  BY <1>4, UsageLogAssumption
<1> HIDE DEF wanted
<1>6. LET n == Min({wanted, PruneBatch, count}) IN n \in Nat \ {0} /\ n <= wanted
  BY <1>5, FirstOf
<1>7. Estimate(size, count) = Min({wanted, PruneBatch, count})
  BY DEF Estimate, wanted, average, over
<1>8. ASSUME NEW n \in Nat \ {0}, n <= wanted PROVE (n - 1) * s <= over
  <2> DEFINE d == over \div average
  <2>1. d \in Nat /\ n - 1 \in Nat /\ n - 1 <= d /\ d * average <= over
    BY <1>4, <1>8 DEF wanted
  <2> HIDE DEF d
  <2>2. (n - 1) * s <= d * s
    <3>1. \A a \in Nat, b \in Nat : a <= b => a * s <= b * s
      <4> SUFFICES ASSUME NEW a \in Nat, NEW b \in Nat, a <= b PROVE a * s <= b * s
        OBVIOUS
      <4>1. b - a \in Nat /\ b * s = a * s + (b - a) * s
        OBVIOUS
      <4>2. (b - a) * s \in Nat
        BY <4>1
      <4> QED
        BY <4>1, <4>2
    <3> QED
      BY <2>1, <3>1
  <2>3. d * s <= d * average
    <3>1. average - s \in Nat /\ d * average = d * s + d * (average - s)
      BY <1>2, <2>1
    <3>2. d * (average - s) \in Nat
      BY <2>1, <3>1
    <3> QED
      BY <1>2, <2>1, <3>1, <3>2
  <2> QED
    <3>1. (n - 1) * s \in Nat /\ d * s \in Nat /\ d * average \in Nat
      BY <1>2, <2>1
    <3> QED
      BY <1>3, <2>1, <2>2, <2>3, <3>1
<1> QED
  BY <1>6, <1>7, <1>8 DEF over

-----------------------------------------------------------------------------
(* An entry bears the time it was made at and its size; a pass knows the   *)
(* cap it read.                                                            *)
Made(e) == e.at \in Nat /\ e.size \in Nat \ {0}

Logged ==
    /\ now \in Nat /\ cap \in Nat
    /\ IsFiniteSet(log) /\ \A e \in log : Made(e)
    /\ call = [c \in ToolCalls |-> call[c]]
    /\ \A c \in ToolCalls : call[c].at = "appending" => Made(call[c].entry)
    /\ "at" \in DOMAIN prune
    /\ prune.at # "idle" => "exact" \in DOMAIN prune /\ prune.cap \in Nat

Alike(s) == \A e \in log : e.size = s

(* With entries all alike, an exact measurement was above the cap, and     *)
(* what is to go exceeds the overage by less than an entry; entries        *)
(* appended since only add to what stays.                                  *)
Modest ==
    \A s \in Nat \ {0} : Alike(s) =>
        /\ prune.at = "counting" /\ prune.exact => prune.size \in Nat /\ prune.size > prune.cap
        /\ prune.at = "deleting" /\ prune.exact =>
             prune.n \in Nat \ {0} /\ prune.cap + (prune.n - 1) * s <= Base + s * Cardinality(log)

LEMMA LiveOfSame ==
    ASSUME IsFiniteSet(log), NEW s \in Nat, Alike(s)
    PROVE  Live = s * Cardinality(log)
BY LiveIsASum, SumOfSame DEF Alike

(* Statements keep the entries dated and sized.                            *)
LEMMA LoggedInvariance == LogSpec => []Logged
<1> USE UsageLogAssumption
<1>1. LogInit => Logged
  BY FS_EmptySet DEF LogInit, Free, Logged
<1>2. ASSUME Logged, [LogNext]_logVars PROVE Logged'
  <2> USE <1>2 DEF Logged
  <2>1. ASSUME NEW c \in ToolCalls, ReadSettings(c) PROVE Logged'
    <3>1. PICK x \in IF level = "full" THEN EntrySizes ELSE {1} :
            call' = [call EXCEPT ![c] = IF level = "off" THEN [at |-> "done"]
                ELSE [at |-> "appending", entry |-> [call |-> c, at |-> now, size |-> x]]]
      BY <2>1 DEF ReadSettings
    <3>2. UNCHANGED <<log, now, cap, prune>>
      BY <2>1 DEF ReadSettings, settings
    <3>3. x \in Nat \ {0}
      OBVIOUS
    <3>4. Made([call |-> c, at |-> now, size |-> x])
      BY <3>3 DEF Made
    <3> QED
      BY <3>1, <3>2, <3>4
  <2>2. ASSUME NEW c \in ToolCalls, AppendEntry(c) PROVE Logged'
    <3>1. /\ Made(call[c].entry) /\ log' = log \cup {call[c].entry}
          /\ call' = [call EXCEPT ![c] = [at |-> "done"]] /\ UNCHANGED <<now, cap, prune>>
      BY <2>2 DEF AppendEntry, settings
    <3>2. IsFiniteSet(log')
      BY <3>1, FS_AddElement
    <3> QED
      BY <3>1, <3>2
  <2>3. ASSUME NEW c \in ToolCalls, AppendFails(c) PROVE Logged'
    <3>1. call' = [call EXCEPT ![c] = [at |-> "done"]] /\ UNCHANGED <<log, now, cap, prune>>
      BY <2>3 DEF AppendFails, settings
    <3> QED
      BY <3>1
  <2>4. CASE /\ UNCHANGED <<call, now>> /\ log' \subseteq log
             /\ cap' \in Nat /\ "at" \in DOMAIN prune'
             /\ (prune'.at # "idle" => "exact" \in DOMAIN prune' /\ prune'.cap \in Nat)
    <3>1. IsFiniteSet(log')
      BY <2>4, FS_Subset
    <3> QED
      BY <2>4, <3>1
  <2>5. CASE ClockTicks
    BY <2>5 DEF ClockTicks, settings
  <2>6. CASE (\E l \in Levels, m \in Caps : UpdateSettings(l, m)) \/ ClearReclaims \/ UNCHANGED logVars
    <3>1. UNCHANGED <<call, now, prune, log>> /\ cap' \in Nat
      BY <2>6 DEF UpdateSettings, ClearReclaims, logVars, settings
    <3> QED
      BY <3>1, <2>4
  <2>7. CASE Clear
    <3>1. UNCHANGED <<call, now, cap>> /\ log' = {}
      BY <2>7 DEF Clear, settings
    <3>2. "at" \in DOMAIN prune' /\ (prune'.at # "idle" => "exact" \in DOMAIN prune' /\ prune'.cap \in Nat)
      <4>1. CASE prune.at = "idle"
        BY <2>7, <4>1 DEF Clear
      <4>2. CASE prune.at # "idle"
        BY <2>7, <4>2 DEF Clear
      <4> QED
        BY <4>1, <4>2
    <3> QED
      BY <3>1, <3>2, <2>4
  <2>8. CASE ReadCap \/ Measure \/ Count \/ Delete \/ Reclaim \/ PruneReturns \/ PruneFails
    <3>1. UNCHANGED <<call, now, cap>> /\ log' \subseteq log
      BY <2>8 DEF ReadCap, Measure, Count, Delete, Oldest, kSubset, Reclaim, PruneReturns, PruneFails,
                  Kept, settings
    <3> DEFINE Known == /\ "at" \in DOMAIN prune'
                        /\ prune'.at # "idle" => "exact" \in DOMAIN prune' /\ prune'.cap \in Nat
    <3>2. Known
      <4>1. CASE ReadCap
        BY <4>1 DEF ReadCap, PruneTo
      <4>2. CASE Measure
        BY <4>2 DEF Measure, PruneTo
      <4>3. CASE Count
        BY <4>3 DEF Count, PruneTo
      <4>4. CASE Delete
        BY <4>4 DEF Delete, PruneTo
      <4>5. CASE Reclaim
        BY <4>5 DEF Reclaim, PruneTo
      <4>6. CASE PruneReturns \/ PruneFails
        BY <4>6 DEF PruneReturns, PruneFails, PruneTo, Free
      <4> QED
        BY <2>8, <4>1, <4>2, <4>3, <4>4, <4>5, <4>6
    <3> QED
      BY <3>1, <3>2, <2>4
  <2> QED
    BY <2>1, <2>2, <2>3, <2>5, <2>6, <2>7, <2>8 DEF LogNext, Record, Prune
<1> QED
  BY <1>1, <1>2, PTL DEF LogSpec

(* The estimate stays modest until the entries go, whatever is appended.   *)
LEMMA ModestInvariance == LogSpec => []Modest
<1> USE UsageLogAssumption
<1>1. LogInit => Modest
  BY DEF LogInit, Free, Modest
<1>2. ASSUME Logged, Modest, [LogNext]_logVars PROVE Modest'
  <2> SUFFICES ASSUME NEW s \in Nat \ {0}, Alike(s)'
               PROVE  /\ prune'.at = "counting" /\ prune'.exact =>
                           prune'.size \in Nat /\ prune'.size > prune'.cap
                      /\ prune'.at = "deleting" /\ prune'.exact =>
                           prune'.n \in Nat \ {0} /\ prune'.cap + (prune'.n - 1) * s <= Base + s * Cardinality(log')
    BY DEF Modest, Alike
  <2>1. CASE log \subseteq log' /\ IsFiniteSet(log') /\ prune' = prune
    <3>1. Alike(s)
      BY <2>1 DEF Alike
    <3>2. Cardinality(log) <= Cardinality(log') /\ Cardinality(log) \in Nat /\ Cardinality(log') \in Nat
      BY <2>1, FS_Subset, FS_CardinalityType
    <3>3. s * Cardinality(log) <= s * Cardinality(log')
      <4>1. ASSUME NEW m \in Nat, NEW n \in Nat, m <= n PROVE s * m <= s * n /\ s * m \in Nat /\ s * n \in Nat
        <5>1. n - m \in Nat /\ s * n = s * m + s * (n - m)
          BY <4>1
        <5>2. s * (n - m) \in Nat
          BY <5>1
        <5> QED
          BY <5>1, <5>2
      <4> QED
        BY <3>2, <4>1
    <3>4. prune.at = "deleting" /\ prune.exact =>
            prune.n \in Nat \ {0} /\ prune.cap + (prune.n - 1) * s <= Base + s * Cardinality(log)
      BY <1>2, <3>1 DEF Modest
    <3>5. ASSUME prune.at = "deleting", prune.exact
          PROVE  prune.cap + (prune.n - 1) * s <= Base + s * Cardinality(log')
      <4> DEFINE least == prune.cap + (prune.n - 1) * s
                 had == s * Cardinality(log)
                 has == s * Cardinality(log')
      <4>1. \A k \in Nat : s * k \in Nat /\ k * s \in Nat
        OBVIOUS
      <4>2. least \in Int /\ had \in Nat /\ has \in Nat /\ had <= has /\ least <= Base + had
        <5>1. prune.n - 1 \in Nat /\ prune.cap \in Nat
          BY <1>2, <3>4, <3>5 DEF Logged
        <5> QED
          BY <3>2, <3>3, <3>4, <3>5, <4>1, <5>1
      <4> HIDE DEF least, had, has
      <4>3. least <= Base + has
        BY <4>2
      <4> QED
        BY <4>3 DEF least, has
    <3> QED
      BY <1>2, <2>1, <3>1, <3>4, <3>5 DEF Modest
  <2>2. CASE prune'.at \notin {"counting", "deleting"} \/ prune'.exact = FALSE
    BY <2>2
  <2>3. ASSUME NEW c \in ToolCalls, Record(c) PROVE log \subseteq log' /\ IsFiniteSet(log') /\ prune' = prune
    <3>1. CASE AppendEntry(c)
      BY <1>2, <3>1, FS_AddElement DEF AppendEntry, Logged
    <3>2. CASE ReadSettings(c) \/ AppendFails(c)
      BY <1>2, <3>2 DEF ReadSettings, AppendFails, Logged
    <3> QED
      BY <2>3, <3>1, <3>2 DEF Record
  <2>4. CASE (\E l \in Levels, m \in Caps : UpdateSettings(l, m)) \/ ClearReclaims \/ ClockTicks \/ UNCHANGED logVars
    <3>1. log' = log /\ prune' = prune
      BY <2>4 DEF UpdateSettings, ClearReclaims, ClockTicks, logVars
    <3> QED
      BY <1>2, <2>1, <3>1 DEF Logged
  <2>5. CASE Clear
    <3>1. CASE prune.at = "idle"
      BY <2>2, <2>5, <3>1 DEF Clear
    <3>2. CASE prune.at # "idle"
      BY <1>2, <2>2, <2>5, <3>2 DEF Clear, Logged
    <3> QED
      BY <3>1, <3>2
  <2>6. CASE ReadCap \/ Delete \/ Reclaim \/ PruneReturns \/ PruneFails
    <3>1. CASE ReadCap
      BY <2>2, <3>1 DEF ReadCap, PruneTo
    <3>2. CASE Delete
      BY <2>2, <3>2 DEF Delete, PruneTo
    <3>3. CASE Reclaim
      BY <1>2, <2>2, <3>3 DEF Reclaim, PruneTo, Logged
    <3>4. CASE PruneReturns \/ PruneFails
      BY <2>2, <3>4 DEF PruneReturns, PruneFails, PruneTo, Free
    <3> QED
      BY <2>6, <3>1, <3>2, <3>3, <3>4
  <2>7. CASE Measure
    <3>1. CASE file <= prune.cap
      BY <1>2, <2>2, <2>7, <3>1 DEF Measure, PruneTo, Logged
    <3>2. CASE ~(file <= prune.cap)
      <4>1. /\ prune' = [at |-> "counting", cap |-> prune.cap, exact |-> file = Base + Live, size |-> file]
            /\ prune.at = "sizing" /\ log' = log
        BY <2>7, <3>2 DEF Measure, PruneTo
      <4>2. Live = s * Cardinality(log) /\ Live \in Nat
        <5>1. IsFiniteSet(log) /\ Alike(s) /\ Cardinality(log) \in Nat
          BY <1>2, <4>1, FS_CardinalityType DEF Logged, Alike
        <5>2. \A k \in Nat : s * k \in Nat
          OBVIOUS
        <5> QED
          BY <5>1, <5>2, LiveOfSame
      <4>3. file = Base + Live => file \in Nat /\ file > prune.cap
        BY <1>2, <3>2, <4>1, <4>2 DEF Logged
      <4> QED
        BY <4>1, <4>3
    <3> QED
      BY <3>1, <3>2
  <2>8. CASE Count
    <3> DEFINE exact == prune.exact /\ prune.size = Base + Live
    <3>1. CASE log = {}
      BY <1>2, <2>2, <2>8, <3>1 DEF Count, PruneTo, Logged
    <3>2. CASE log # {} /\ exact
      <4> DEFINE count == Cardinality(log)
      <4>1. /\ prune' = [at |-> "deleting", cap |-> prune.cap, exact |-> prune.exact /\ prune.size = Base + Live,
                         n |-> Estimate(prune.size, count)]
            /\ prune.at = "counting" /\ log' = log
        BY <2>8, <3>2 DEF Count, PruneTo, Kept
      <4>2. IsFiniteSet(log) /\ Alike(s) /\ count \in Nat \ {0}
        <5>1. IsFiniteSet(log) /\ Alike(s)
          BY <1>2, <4>1 DEF Logged, Alike
        <5> QED
          BY <3>2, <5>1, FS_CardinalityType, FS_EmptySet
      <4>3. Live = s * count /\ s * count \in Nat
        <5>1. \A k \in Nat : s * k \in Nat
          OBVIOUS
        <5> QED
          BY <4>2, <5>1, LiveOfSame
      <4>4. prune.size \in Nat /\ prune.size > prune.cap /\ prune.cap \in Nat
        BY <1>2, <3>2, <4>1, <4>2 DEF Logged, Modest
      <4> HIDE DEF count
      <4>5. prune.size >= s * count
        BY <3>2, <4>3
      <4>6. /\ Estimate(prune.size, count) \in Nat \ {0}
            /\ (Estimate(prune.size, count) - 1) * s <= prune.size - prune.cap
        BY <4>2, <4>4, <4>5, EstimateIsModest
      <4> DEFINE n == Estimate(prune.size, count)
                 less == (n - 1) * s
                 had == s * count
      <4>7. n \in Nat \ {0} /\ less \in Nat /\ less <= prune.size - prune.cap /\ prune.size = Base + had /\ had \in Nat
        <5>1. \A k \in Nat : k * s \in Nat
          OBVIOUS
        <5>2. n - 1 \in Nat
          BY <4>6
        <5> QED
          BY <3>2, <4>3, <4>6, <5>1, <5>2
      <4> HIDE DEF n, less, had
      <4>8. prune.cap + less <= Base + had
        BY <4>4, <4>7
      <4>9. prune.cap + (n - 1) * s <= Base + s * count
        BY <4>8 DEF less, had
      <4> QED
        BY <4>1, <4>7, <4>9 DEF n, count
    <3>3. CASE log # {} /\ ~exact
      <4>1. prune' = [at |-> "deleting", cap |-> prune.cap, exact |-> exact,
                      n |-> Estimate(prune.size, Cardinality(log))]
        BY <2>8, <3>3 DEF Count, PruneTo
      <4> HIDE DEF exact
      <4>2. prune'.exact = FALSE
        <5>1. exact \in BOOLEAN
          BY DEF exact
        <5>2. prune'.exact = exact
          BY <4>1
        <5> QED
          BY <3>3, <5>1, <5>2
      <4> QED
        BY <2>2, <4>2
    <3> HIDE DEF exact
    <3> QED
      BY <3>1, <3>2, <3>3
  <2> QED
    BY <1>2, <2>1, <2>3, <2>4, <2>5, <2>6, <2>7, <2>8 DEF LogNext, Prune
<1> QED
  BY <1>1, <1>2, LoggedInvariance, PTL DEF LogSpec

(* Store.Prune's estimate: a pass over entries of one size, measured       *)
(* exactly, takes no more than needed but for the room of one entry.       *)
THEOREM PassesKeepWhatFits == LogSpec => KeepsWhatFits
<1> USE UsageLogAssumption
<1>1. ASSUME Logged, Modest, [LogNext]_logVars,
             prune.at = "deleting", prune.exact, log' # log, ~clearing',
             NEW e \in log, \A d \in log : d.size = e.size
      PROVE  Base + Live' + 2 * e.size > prune.cap
  <2> DEFINE s == e.size
             had == s * Cardinality(log)
             less == (prune.n - 1) * s
  <2>1. s \in Nat \ {0} /\ Alike(s) /\ IsFiniteSet(log) /\ Cardinality(log) \in Nat \ {0}
    <3>1. IsFiniteSet(log) /\ Made(e)
      BY <1>1 DEF Logged
    <3> QED
      BY <1>1, <3>1, FS_CardinalityType, FS_EmptySet DEF Made, Alike
  <2> HIDE DEF s
  <2>2. prune.n \in Nat \ {0} /\ prune.cap \in Nat /\ prune.cap + less <= Base + had
    BY <1>1, <2>1 DEF Logged, Modest
  <2>3. \A k \in Nat : s * k \in Nat /\ k * s \in Nat
    BY <2>1
  <2>4. had \in Nat /\ less \in Nat
    <3>1. prune.n - 1 \in Nat
      BY <2>2
    <3> QED
      BY <2>1, <2>3, <3>1
  <2>5. \/ Delete
        \/ \E c \in ToolCalls : AppendEntry(c)
    <3>1. ~Clear
      BY <1>1 DEF Clear
    <3> QED
      BY <1>1, <3>1 DEF LogNext, Record, Prune, ReadSettings, AppendFails, UpdateSettings,
                        ClearReclaims, ReadCap, Measure, Count, Reclaim, PruneReturns,
                        PruneFails, ClockTicks, logVars
  <2>6. ASSUME NEW c \in ToolCalls, AppendEntry(c)
        PROVE  Base + Live' + 2 * s > prune.cap
    <3> DEFINE new == call[c].entry
    <3>1. log' = log \cup {new} /\ Made(new) /\ new \notin log
      BY <1>1, <2>6 DEF AppendEntry, Logged
    <3> HIDE DEF new
    <3>2. IsFiniteSet(log') /\ log' \ {new} = log
      BY <2>1, <3>1, FS_AddElement
    <3>3. SumOf(log') = s * Cardinality(log' \ {new}) + (IF new \in log' THEN new.size ELSE 0)
      <4>1. \A d \in log' : d # new => d.size = s
        BY <2>1, <3>1 DEF Alike
      <4>2. new.size \in Nat
        BY <3>1 DEF Made
      <4> QED
        BY <2>1, <3>2, <4>1, <4>2, SumOfEqual
    <3>4. Live' = had + new.size /\ new.size \in Nat
      <4>1. Live' = SumOf(log')
        BY LiveIsASum
      <4> QED
        BY <3>1, <3>2, <3>3, <4>1 DEF Made
    <3> HIDE DEF had, less
    <3> QED
      BY <2>1, <2>2, <2>4, <3>4
  <2>7. ASSUME Delete PROVE Base + Live' + 2 * s > prune.cap
    <3> DEFINE gone == Min({prune.n, Cardinality(log)})
    <3>1. gone \in Nat /\ gone <= prune.n /\ gone <= Cardinality(log)
      BY <2>1, <2>2, FirstOf
    <3>2. PICK D \in SUBSET log : Cardinality(D) = gone /\ log' = log \ D
      BY <2>7 DEF Delete, Oldest, kSubset
    <3> HIDE DEF gone
    <3>3. IsFiniteSet(log') /\ Cardinality(log') = Cardinality(log) - gone
      <4>1. IsFiniteSet(D) /\ log \cap D = D
        BY <2>1, <3>2, FS_Subset
      <4>2. Cardinality(log \ D) = Cardinality(log) - Cardinality(log \cap D)
        BY <2>1, <4>1, FS_Difference
      <4> QED
        BY <2>1, <3>2, <4>1, <4>2, FS_Difference
    <3>4. Live' = s * (Cardinality(log) - gone)
      <4>1. Live' = SumOf(log')
        BY LiveIsASum
      <4>2. \A d \in log' : d.size = s
        BY <2>1, <3>2 DEF Alike
      <4> QED
        BY <2>1, <3>3, <4>1, <4>2, SumOfSame
    <3> DEFINE went == s * gone
    <3>5. s * (Cardinality(log) - gone) = had - went
      <4>1. \A a \in Nat, b \in Nat : s * (a - b) = s * a - s * b
        BY <2>1
      <4> QED
        BY <2>1, <3>1, <4>1
    <3>6. went <= less + s /\ went \in Nat
      <4>1. ASSUME NEW a \in Nat, NEW b \in Nat, a <= b PROVE s * a <= (b - 1) * s + s
        <5>1. b - a \in Nat /\ (b - 1) * s + s = s * a + s * (b - a)
          BY <2>1, <4>1
        <5>2. s * (b - a) \in Nat /\ s * a \in Nat
          BY <2>3, <5>1
        <5> QED
          BY <5>1, <5>2
      <4> QED
        BY <2>2, <2>3, <3>1, <4>1
    <3> HIDE DEF had, less, went
    <3>7. Live' = had - went
      BY <3>4, <3>5
    <3> QED
      BY <2>1, <2>2, <2>4, <3>6, <3>7
  <2> QED
    BY <2>5, <2>6, <2>7 DEF s
<1>2. Logged /\ Modest /\ [LogNext]_logVars =>
        [prune.at = "deleting" /\ prune.exact /\ log' # log /\ ~clearing' =>
           \A e \in log : (\A d \in log : d.size = e.size) => Base + Live' + 2 * e.size > prune.cap]_logVars
  BY <1>1
<1> QED
  BY <1>2, LoggedInvariance, ModestInvariance, PTL DEF LogSpec, KeepsWhatFits

-----------------------------------------------------------------------------
(* The pages of a response.                                               *)

(* The client holds the text from its first offset to its next one.        *)
Reading ==
    /\ pages \in Nat
    /\ more => tool # NoTool
    /\ tool # NoTool => tool \in Tools /\ upstream \in Upstreams
    /\ pages = 0 => next = None /\ read = <<>>
    /\ pages > 0 =>
          /\ tool # NoTool
          /\ Total \in Nat /\ first \in 0 .. Total /\ next \in first .. Total
          /\ read = [i \in 1 .. next - first |-> first + i]
          /\ more <=> next < Total
          /\ pages <= IF more THEN next - first ELSE next - first + 1

(* A page begins at the offset if there is one, and is not empty unless    *)
(* the text is at its end.                                                 *)
LEMMA Page ==
    ASSUME PagingAssumption, NEW total \in Nat, NEW offset \in Int \cup {None}, NEW limit \in Int \cup {None}
    PROVE  LET p == PaginateText(total, offset, limit)
           IN  /\ p.kind = "page" /\ p.from \in 0 .. total /\ p.end \in p.from .. total
               /\ offset \in 0 .. total => p.from = offset
               /\ p.more <=> p.end < total
               /\ p.from < total => p.from < p.end
<1> DEFINE from == IF offset = None THEN 0 ELSE IF offset < 0 THEN 0 ELSE IF offset > total THEN total ELSE offset
           chars == IF limit = None THEN DefaultPage ELSE IF limit <= 0 THEN DefaultPage
                    ELSE IF limit > MaxPage THEN MaxPage ELSE limit
           end == IF from + chars > total THEN total ELSE from + chars
<1>0. None \notin Int /\ DefaultPage \in Nat \ {0} /\ MaxPage \in Nat \ {0}
  BY DEF PagingAssumption
<1>1. from \in 0 .. total /\ (offset \in 0 .. total => from = offset)
  <2>1. CASE offset = None
    BY <1>0, <2>1
  <2>2. CASE offset \in Int
    BY <1>0, <2>2
  <2> QED
    BY <2>1, <2>2
<1>2. chars \in Nat \ {0}
  <2>1. CASE limit = None
    BY <1>0, <2>1
  <2>2. CASE limit \in Int
    BY <1>0, <2>2
  <2> QED
    BY <2>1, <2>2
<1>3. PaginateText(total, offset, limit) = [kind |-> "page", from |-> from, end |-> end, more |-> end < total]
  BY DEF PaginateText
<1> HIDE DEF from, chars
<1>4. end \in from .. total /\ (from < total => from < end)
  BY <1>1, <1>2
<1> HIDE DEF end
<1> DEFINE p == PaginateText(total, offset, limit)
<1>5. /\ p.kind = "page" /\ p.from = from /\ p.end = end
      /\ p.more = (end < total)
  BY <1>3
<1> QED
  BY <1>1, <1>4, <1>5

(* What is paged is the text Total measures.                               *)
LEMMA Paged ==
    ASSUME PagingAssumption, tool \in Tools, upstream \in Upstreams, NEW status, NEW offset, NEW limit,
           MapResponse(tool, upstream, status, offset, limit).kind = "page"
    PROVE  /\ Total \in Nat
           /\ MapResponse(tool, upstream, status, offset, limit) = PaginateText(Total, offset, limit)
<1> DEFINE asJSON == tool.format = "json" \/ (tool.format # "text" /\ upstream.json)
           selected == Project(upstream.body, tool.select)
           value == IF tool.decodeBase64 THEN Decoded(selected) ELSE selected
           result == MapResponse(tool, upstream, status, offset, limit)
<1>1. upstream.length \in Nat
  BY DEF PagingAssumption
<1>2. upstream.body # Invalid /\ selected.kind = "text" =>
         selected \in [kind : {"text"}, length : Nat, decoded : Nat \cup {Invalid}]
  BY DEF PagingAssumption
<1>3. result = IF ~IsSuccess(tool, status) THEN Fails("upstream status")
        ELSE IF ~asJSON
             THEN IF tool.paginate /\ ~upstream.truncated THEN PaginateText(upstream.length, offset, limit)
                  ELSE [kind |-> "text"]
        ELSE IF upstream.truncated THEN Fails("response too large")
        ELSE IF upstream.body = Invalid THEN [kind |-> "text"]
        ELSE IF value.kind = "error" THEN value
        ELSE IF ~tool.paginate THEN [kind |-> "data"]
        ELSE IF value.kind # "text" THEN Fails("internal")
        ELSE PaginateText(value.length, offset, limit)
  BY DEF MapResponse
<1>4. Total = IF ~asJSON THEN upstream.length
                ELSE IF tool.decodeBase64 THEN selected.decoded ELSE selected.length
  BY DEF Total
<1> HIDE DEF asJSON, selected, result
<1>5. \A why : Fails(why).kind = "error"
  BY DEF Fails
<1>6. upstream.body # Invalid /\ value.kind = "text" => value.length \in Nat
         /\ value.length = IF tool.decodeBase64 THEN selected.decoded ELSE selected.length
  <2>1. CASE ~tool.decodeBase64
    BY <1>2, <2>1
  <2>2. CASE tool.decodeBase64 /\ upstream.body # Invalid /\ value.kind = "text"
    <3>1. selected.kind = "text" /\ selected.decoded # Invalid /\ value = [selected EXCEPT !.length = selected.decoded]
      BY <1>5, <2>2 DEF Decoded
    <3> QED
      BY <1>2, <2>2, <3>1
  <2> QED
    BY <2>1, <2>2
<1> HIDE DEF value
<1>7. result.kind = "page"
  BY DEF result
<1>8. CASE ~asJSON
  <2>1. result = PaginateText(upstream.length, offset, limit)
    BY <1>3, <1>5, <1>7, <1>8
  <2> QED
    BY <1>1, <1>4, <1>8, <2>1 DEF result
<1>9. CASE asJSON
  <2>1. upstream.body # Invalid /\ value.kind = "text" /\ result = PaginateText(value.length, offset, limit)
    BY <1>3, <1>5, <1>7, <1>9
  <2> QED
    BY <1>4, <1>6, <1>9, <2>1 DEF result
<1> QED
  BY <1>8, <1>9

(* Consecutive characters.                                                 *)
LEMMA Characters ==
    ASSUME NEW k \in Nat, NEW n \in Nat
    PROVE  [i \in 1 .. n |-> k + i] \in Seq(Nat)
<1>1. \A i \in 1 .. n : k + i \in Nat
  OBVIOUS
<1> QED
  BY <1>1

(* A call that fails, or one that brings a page.                           *)
LEMMA ReadOn ==
    ASSUME PagingAssumption, Reading, NEW status, NEW offset \in Offsets \cup {next}, NEW limit \in PageLimits,
           next = None => offset \in Offsets, Call(status, offset, limit)
    PROVE  Reading'
<1> DEFINE result == MapResponse(tool, upstream, status, offset, limit)
<1>1. more /\ (next # None => offset = next) /\ UNCHANGED <<tool, upstream>>
  BY DEF Call
<1>2. tool # NoTool /\ tool \in Tools /\ upstream \in Upstreams
  BY <1>1 DEF Reading
<1>3. Total' = Total
  BY <1>1 DEF Total
<1>4. CASE result.kind # "page"
  <2>1. UNCHANGED <<first, next, more, read, pages>>
    BY <1>4 DEF Call
  <2> QED
    BY <1>1, <1>3, <2>1 DEF Reading
<1>5. CASE result.kind = "page"
  <2>1. Total \in Nat /\ result = PaginateText(Total, offset, limit)
    BY <1>2, <1>5, Paged
  <2>2. /\ first' = IF next = None THEN result.from ELSE first
        /\ next' = result.end /\ more' = result.more /\ pages' = pages + 1
        /\ read' = read \o [i \in 1 .. result.end - result.from |-> result.from + i]
    BY <1>5 DEF Call
  <2>3. (next = None <=> pages = 0) /\ (pages # 0 => next \in Int)
    <3>1. None \notin Int
      BY DEF PagingAssumption
    <3>2. pages # 0 => next \in Int
      BY <2>1 DEF Reading
    <3> QED
      BY <3>1, <3>2 DEF Reading
  <2>4. offset \in Int \cup {None} /\ limit \in Int \cup {None}
    <3>1. \A x \in Offsets \cup PageLimits : x \in Int \cup {None}
      BY DEF PagingAssumption
    <3> QED
      BY <2>3, <3>1
  <2>5. /\ result.from \in 0 .. Total /\ result.end \in result.from .. Total
        /\ offset \in 0 .. Total => result.from = offset
        /\ result.more <=> result.end < Total
        /\ result.from < Total => result.from < result.end
    <3> HIDE DEF result
    <3>1. LET p == PaginateText(Total, offset, limit)
          IN  /\ p.from \in 0 .. Total /\ p.end \in p.from .. Total
              /\ offset \in 0 .. Total => p.from = offset
              /\ p.more <=> p.end < Total
              /\ p.from < Total => p.from < p.end
      BY <2>1, <2>4, Page
    <3> QED
      BY <2>1, <3>1
  <2> HIDE DEF result
  <2>6. CASE pages = 0
    <3>1. read' = [i \in 1 .. result.end - result.from |-> result.from + i]
      <4>1. [i \in 1 .. result.end - result.from |-> result.from + i] \in Seq(Nat)
        BY <2>5
      <4> QED
        BY <2>2, <2>6, <4>1, ConcatEmptySeq DEF Reading
    <3>2. first' = result.from /\ pages' = 1
      BY <2>2, <2>3, <2>6
    <3>3. result.more => result.end - result.from >= 1
      BY <2>1, <2>5
    <3> QED
      <4>1. tool' # NoTool /\ tool' \in Tools /\ upstream' \in Upstreams /\ Total' \in Nat
        BY <1>1, <1>2, <1>3, <2>1
      <4>2. /\ first' \in 0 .. Total /\ next' \in first' .. Total /\ pages' = 1
            /\ (more' <=> next' < Total)
        BY <2>1, <2>2, <2>5, <3>2
      <4>3. read' = [i \in 1 .. next' - first' |-> first' + i]
        BY <2>2, <3>1, <3>2
      <4>4. pages' <= IF more' THEN next' - first' ELSE next' - first' + 1
        BY <2>1, <2>2, <2>5, <3>2, <3>3
      <4>5. /\ Total' \in Nat /\ first' \in 0 .. Total' /\ next' \in first' .. Total'
            /\ (more' <=> next' < Total')
        BY <1>3, <4>1, <4>2
      <4>6. pages' \in Nat /\ pages' # 0
        BY <4>2
      <4> QED
        BY <4>1, <4>3, <4>4, <4>5, <4>6 DEF Reading
  <2>7. CASE pages > 0
    <3>1. /\ first \in 0 .. Total /\ next \in first .. Total /\ next < Total
          /\ read = [i \in 1 .. next - first |-> first + i] /\ pages <= next - first /\ pages \in Nat
      BY <1>1, <2>7 DEF Reading
    <3>2. result.from = next /\ first' = first /\ next < result.end
      BY <1>1, <2>1, <2>2, <2>3, <2>5, <2>7, <3>1
    <3>3. read' = [i \in 1 .. result.end - first |-> first + i]
      <4> DEFINE page == [i \in 1 .. result.end - next |-> next + i]
                 all == [i \in 1 .. result.end - first |-> first + i]
      <4>1. read \in Seq(Nat) /\ page \in Seq(Nat) /\ all \in Seq(Nat)
        <5>1. first \in Nat /\ next \in Nat
          BY <2>1, <2>5, <3>1
        <5>2. next - first \in Nat /\ result.end - next \in Nat /\ result.end - first \in Nat
          BY <2>1, <2>5, <3>1, <3>2
        <5> QED
          BY <3>1, <5>1, <5>2, Characters
      <4>2. Len(read) = next - first /\ Len(page) = result.end - next /\ Len(all) = result.end - first
        BY <2>1, <2>5, <3>1, <3>2
      <4>3. /\ read \o page \in Seq(Nat) /\ Len(read \o page) = Len(read) + Len(page)
            /\ \A i \in 1 .. Len(read) + Len(page) :
                  (read \o page)[i] = IF i <= Len(read) THEN read[i] ELSE page[i - Len(read)]
        <5> HIDE DEF page, all
        <5> QED
          BY <4>1, ConcatProperties
      <4>4. ASSUME NEW i \in 1 .. Len(read \o page) PROVE (read \o page)[i] = all[i]
        <5>1. i \in 1 .. Len(read) + Len(page)
          BY <4>3
        <5>2. CASE i <= next - first
          BY <2>1, <2>5, <3>1, <3>2, <4>2, <4>3, <5>1, <5>2
        <5>3. CASE i > next - first
          <6>1. i - (next - first) \in 1 .. result.end - next
            BY <2>1, <2>5, <3>1, <3>2, <4>2, <5>1, <5>3
          <6>2. (read \o page)[i] = page[i - (next - first)]
            <7>1. ~(i <= Len(read)) /\ i - Len(read) = i - (next - first)
              BY <2>1, <3>1, <4>2, <5>1, <5>3
            <7> HIDE DEF page
            <7> QED
              BY <4>3, <5>1, <7>1
          <6>3. page[i - (next - first)] = next + (i - (next - first))
            BY <6>1
          <6>4. i \in 1 .. result.end - first /\ next + (i - (next - first)) = first + i
            BY <2>1, <2>5, <3>1, <3>2, <4>2, <5>1
          <6>5. all[i] = first + i
            BY <6>4
          <6> HIDE DEF page, all
          <6> QED
            BY <6>2, <6>3, <6>4, <6>5
        <5>4. i <= next - first \/ i > next - first
          BY <2>1, <3>1, <4>2, <5>1
        <5> QED
          BY <5>2, <5>3, <5>4
      <4>5. Len(read \o page) = Len(all)
        BY <2>1, <2>5, <3>1, <3>2, <4>2, <4>3
      <4>6. read \o page = all
        <5> HIDE DEF page, all
        <5> QED
          BY <4>1, <4>3, <4>4, <4>5, SeqEqual
      <4> QED
        BY <2>2, <3>2, <4>6
    <3>4. pages + 1 <= result.end - first
      BY <2>1, <2>5, <3>1, <3>2
    <3>5. result.end \in first .. Total
      BY <2>1, <2>5, <3>1, <3>2
    <3>6. pages + 1 \in Nat /\ pages + 1 > 0 /\ result.end - first \in Int
      BY <2>1, <2>5, <3>1
    <3> QED
      <4>1. tool' # NoTool /\ tool' \in Tools /\ upstream' \in Upstreams /\ Total' \in Nat
        BY <1>1, <1>2, <1>3, <2>1
      <4>2. /\ first' \in 0 .. Total /\ next' \in first' .. Total
            /\ pages' \in Nat /\ pages' > 0 /\ (more' <=> next' < Total)
        BY <2>1, <2>2, <2>5, <3>1, <3>2, <3>5, <3>6
      <4>3. read' = [i \in 1 .. next' - first' |-> first' + i]
        BY <2>2, <3>2, <3>3
      <4>4. pages' <= IF more' THEN next' - first' ELSE next' - first' + 1
        BY <2>2, <3>2, <3>4, <3>6
      <4>5. /\ Total' \in Nat /\ first' \in 0 .. Total' /\ next' \in first' .. Total'
            /\ (more' <=> next' < Total')
        BY <1>3, <4>1, <4>2
      <4>6. pages' \in Nat /\ pages' # 0
        BY <4>2
      <4> QED
        BY <4>1, <4>3, <4>4, <4>5, <4>6 DEF Reading
  <2> QED
    BY <2>6, <2>7 DEF Reading
<1> QED
  BY <1>4, <1>5

(* paginateText: following next_offset brings a text as a whole, whatever  *)
(* limits are asked for and however many calls fail in between.            *)
THEOREM PagesAreComplete == PagingSpec => []PagesCover
<1> USE PagingAssumption
<1>1. PagingInit => Reading
  BY DEF PagingInit, Reading
<1>2. ASSUME Reading, [PagingNext]_pagingVars PROVE Reading'
  <2>1. CASE Begin
    <3>1. /\ tool = NoTool /\ tool' \in Tools /\ CompileResponse(tool') /\ upstream' \in Upstreams
          /\ UNCHANGED <<first, next, read, pages>>
      BY <2>1 DEF Begin
    <3>2. tool' # NoTool
      <4>1. tool'.format \in {"", "auto", "json", "text"} /\ NoTool.format = None
        BY <3>1 DEF CompileResponse, NoTool
      <4>2. None \notin {"", "auto", "json", "text"}
        BY FormatAssumption
      <4> QED
        BY <4>1, <4>2
    <3> QED
      BY <1>2, <3>1, <3>2 DEF Reading
  <2>2. ASSUME NEW status \in {200, 206, 500}, NEW limit \in PageLimits,
               NEW offset \in IF next = None THEN Offsets ELSE {next}, Call(status, offset, limit)
        PROVE  Reading'
    BY <1>2, <2>2, ReadOn
  <2>3. CASE UNCHANGED pagingVars
    BY <1>2, <2>3 DEF pagingVars, Reading, Total
  <2> QED
    BY <1>2, <2>1, <2>2, <2>3 DEF PagingNext
<1>3. Reading => PagesCover
  <2>1. ASSUME Reading, pages > 0 PROVE Len(read) = next - first
    BY <2>1 DEF Reading
  <2> QED
    BY <2>1 DEF Reading, PagesCover
<1> QED
  BY <1>1, <1>2, <1>3, PTL DEF PagingSpec

-----------------------------------------------------------------------------
(* The request.  A template that renders has a value for each of its       *)
(* placeholders.                                                           *)
LEMMA RenderedIsWhole ==
    ASSUME NEW t, NEW scope, t \in Seq(Range(t)), Render(t, scope).st = "ok"
    PROVE  \A p \in Placeholders(t) : Operand(scope, p) # Missing
<1> DEFINE word == [i \in DOMAIN t |-> IF t[i].ns = "literal" THEN t[i].path[1] ELSE Operand(scope, t[i])]
           bad == {i \in DOMAIN t : word[i] \in {Missing, "object"}}
<1>1. Render(t, scope) = IF bad = {} THEN [st |-> "ok", text |-> Range(word) \ {NoText}]
                         ELSE [st |-> IF word[Min(bad)] = Missing THEN "drop" ELSE "error", text |-> {}]
  BY DEF Render
<1>2. bad = {}
  <2> HIDE DEF bad, word
  <2> QED  BY <1>1
<1> SUFFICES ASSUME NEW p \in Placeholders(t) PROVE Operand(scope, p) # Missing
  OBVIOUS
<1>3. PICK i \in DOMAIN t : t[i] = p /\ p.ns # "literal"
  BY DEF Placeholders, Range
<1>4. word[i] = Operand(scope, p)
  BY <1>3
<1> QED  BY <1>2, <1>4

(* A template with text to send rendered.                                  *)
LEMMA TextIsRendered ==
    ASSUME NEW t, NEW scope, Render(t, scope).text # {}
    PROVE  Render(t, scope).st = "ok"
<1> DEFINE word == [i \in DOMAIN t |-> IF t[i].ns = "literal" THEN t[i].path[1] ELSE Operand(scope, t[i])]
           bad == {i \in DOMAIN t : word[i] \in {Missing, "object"}}
<1>1. Render(t, scope) = IF bad = {} THEN [st |-> "ok", text |-> Range(word) \ {NoText}]
                         ELSE [st |-> IF word[Min(bad)] = Missing THEN "drop" ELSE "error", text |-> {}]
  BY DEF Render
<1> HIDE DEF bad, word
<1> QED  BY <1>1

(* The same of a template that keeps its value's type.                     *)
LEMMA ValueIsWhole ==
    ASSUME NEW t, NEW scope, t \in Seq(Range(t)), RenderValue(t, scope).st = "ok"
    PROVE  \A p \in Placeholders(t) : Operand(scope, p) # Missing
<1>1. CASE Len(t) = 1 /\ t[1].ns # "literal"
  <2>1. Operand(scope, t[1]) # Missing
    BY <1>1 DEF RenderValue
  <2>2. DOMAIN t = {1}
    BY <1>1, LenProperties
  <2>3. \A p \in Placeholders(t) : p = t[1]
    BY <2>2 DEF Placeholders, Range
  <2> QED  BY <2>1, <2>3
<1>2. CASE ~(Len(t) = 1 /\ t[1].ns # "literal")
  <2>1. Render(t, scope).st = "ok"
    BY <1>2 DEF RenderValue
  <2> QED  BY <2>1, RenderedIsWhole
<1> QED  BY <1>1, <1>2

(* PrefixFacts.                                                               *)
LEMMA PrefixFacts ==
    ASSUME NEW p, NEW q, NEW c, p \in Seq(Range(p)), q \in Seq(Range(q)), c \in Seq(Range(c))
    PROVE  /\ IsPrefix(p, p)
           /\ (IsPrefix(p, q) /\ IsPrefix(q, p) => p = q)
           /\ (IsPrefix(p, q) /\ IsPrefix(q, c) => IsPrefix(p, c))
           /\ (IsPrefix(p, c) /\ IsPrefix(q, c) /\ Len(p) <= Len(q) => IsPrefix(p, q))
           /\ (IsPrefix(p, q) /\ p # q => Len(p) < Len(q))
<1>1. IsPrefix(p, p)
  BY DEF IsPrefix
<1>2. IsPrefix(p, q) /\ IsPrefix(q, p) => p = q
  BY DEF IsPrefix
<1>3. IsPrefix(p, q) /\ IsPrefix(q, c) => IsPrefix(p, c)
  BY DEF IsPrefix
<1>4. IsPrefix(p, c) /\ IsPrefix(q, c) /\ Len(p) <= Len(q) => IsPrefix(p, q)
  BY DEF IsPrefix
<1>5. IsPrefix(p, q) /\ p # q => Len(p) < Len(q)
  BY DEF IsPrefix
<1> QED  BY <1>1, <1>2, <1>3, <1>4, <1>5

(* What is kept of a JSON body: the nodes all of whose ancestors render.   *)
KeptNodes(json, scope) ==
    {q \in DOMAIN json : \A p \in DOMAIN json : IsPrefix(p, q) => Renders(json, p, scope)}

(* A kept array keeps its elements.                                        *)
LEMMA ArrayKeepsElements ==
    ASSUME NEW json, NEW scope, \A q \in DOMAIN json : q \in Seq(Range(q)),
           NEW q \in KeptNodes(json, scope), q \in KindAt(json, "array"),
           NEW c \in DOMAIN json, Len(c) = Len(q) + 1, IsPrefix(q, c)
    PROVE  c \in KeptNodes(json, scope)
<1> q \in DOMAIN json
  BY DEF KeptNodes
<1>1. Renders(json, c, scope)
  <2> SUFFICES ASSUME NEW t \in KindAt(json, "template"), IsPrefix(c, t),
                      \A r \in DOMAIN json : IsPrefix(c, r) /\ IsStrictPrefix(r, t) => r \in KindAt(json, "array")
               PROVE  RenderValue(json[t].of, scope).st = "ok"
    BY DEF Renders
  <2> t \in DOMAIN json
    BY DEF KindAt
  <2>1. IsPrefix(q, t)
    BY PrefixFacts
  <2>2. ASSUME NEW r \in DOMAIN json, IsPrefix(q, r), IsStrictPrefix(r, t)
        PROVE  r \in KindAt(json, "array")
    <3>1. CASE r = q
      BY <3>1
    <3>2. CASE r # q
      <4>1. Len(q) < Len(r)
        BY <2>2, <3>2, PrefixFacts
      <4>2. Len(c) <= Len(r)
        BY <4>1, LenProperties
      <4>3. IsPrefix(c, r)
        BY <2>2, <4>2, PrefixFacts DEF IsStrictPrefix
      <4> QED  BY <2>2, <4>3
    <3> QED  BY <3>1, <3>2
  <2>3. Renders(json, q, scope)
    BY PrefixFacts DEF KeptNodes
  <2> QED  BY <2>1, <2>2, <2>3 DEF Renders
<1>2. ASSUME NEW p \in DOMAIN json, IsPrefix(p, c)
      PROVE  Renders(json, p, scope)
  <2>1. CASE p = c
    BY <1>1, <2>1
  <2>2. CASE p # c
    <3>1. Len(p) < Len(c)
      BY <1>2, <2>2, PrefixFacts
    <3>2. Len(p) <= Len(q)
      BY <3>1, LenProperties
    <3>3. IsPrefix(p, q)
      BY <1>2, <3>2, PrefixFacts
    <3> QED  BY <3>3 DEF KeptNodes
  <2> QED  BY <2>1, <2>2
<1> QED  BY <1>2 DEF KeptNodes

(* A kept template renders.                                                *)
LEMMA KeptRenders ==
    ASSUME NEW json, NEW scope, \A q \in DOMAIN json : q \in Seq(Range(q)),
           NEW q \in KeptNodes(json, scope), q \in KindAt(json, "template")
    PROVE  RenderValue(json[q].of, scope).st = "ok"
<1> q \in DOMAIN json
  BY DEF KeptNodes
<1>1. Renders(json, q, scope) /\ IsPrefix(q, q)
  BY PrefixFacts DEF KeptNodes
<1>2. \A r \in DOMAIN json : ~(IsPrefix(q, r) /\ IsStrictPrefix(r, q))
  BY PrefixFacts DEF IsStrictPrefix
<1> QED  BY <1>1, <1>2 DEF Renders

(* The only bodies Compile accepts.                                        *)
LEMMA OneForm ==
    ASSUME NEW m \in Manifests, Compile(m), m.body.forms # {}
    PROVE  /\ m.body.declared
           /\ \E f \in {"json", "from", "text"} : m.body.forms = {f}
           /\ \A t \in BodyTemplates(m.body) : CompileTemplate(t, m, m.props)
  BY ToolRequestAssumption DEF ToolRequestAssumption, Compile, CompileTool, CompileBody

(* The templates of a body of one form.                                    *)
LEMMA BodyTemplatesOfForm ==
    ASSUME NEW body
    PROVE  /\ (body.forms = {"json"} => BodyTemplates(body) = TemplatesIn(body.json))
           /\ (body.forms = {"from"} => BodyTemplates(body) = {body.from})
           /\ (body.forms = {"text"} => BodyTemplates(body) = {body.text})
<1>1. ASSUME body.forms = {"json"} PROVE BodyTemplates(body) = TemplatesIn(body.json)
  <2> DEFINE J == TemplatesIn(body.json)
  <2> HIDE DEF J
  <2>1. BodyTemplates(body) = UNION {IF f = "json" THEN J ELSE {body[f]} : f \in {"json"}}
    BY <1>1 DEF BodyTemplates, J
  <2> QED  BY <2>1 DEF J
<1>2. ASSUME body.forms = {"from"} PROVE BodyTemplates(body) = {body.from}
  BY <1>2 DEF BodyTemplates
<1>3. ASSUME body.forms = {"text"} PROVE BodyTemplates(body) = {body.text}
  BY <1>3 DEF BodyTemplates
<1> QED  BY <1>1, <1>2, <1>3

(* What the body keeps of the manifest's is whole.                         *)
LEMMA BodyIsWhole ==
    ASSUME NEW m \in Manifests, Compile(m), NEW scope, RenderBody(m, scope).st = "ok"
    PROVE  IF m.body.forms = {"json"}
           THEN /\ RenderBody(m, scope).value = RenderNode(m.body.json, scope).value
                /\ RenderNode(m.body.json, scope).ok
           ELSE \A t \in BodyTemplates(m.body) :
                    \A p \in Placeholders(t) : Operand(scope, p) # Missing
<1>1. CASE m.body.forms = {}
  BY <1>1 DEF RenderBody
<1>2. CASE m.body.forms = {"json"}
  <2> DEFINE r == RenderNode(m.body.json, scope)
  <2> HIDE DEF r
  <2>1. RenderBody(m, scope) = IF r.ok THEN [st |-> "ok", value |-> r.value] ELSE [st |-> "drop"]
    BY <1>2 DEF RenderBody, r
  <2> QED  BY <1>2, <2>1 DEF r
<1>3. CASE m.body.forms = {"from"}
  <2>1. m.body.from \in OwnTemplates(m)
    BY <1>3, BodyTemplatesOfForm DEF OwnTemplates
  <2>2. m.body.from \in Seq(Range(m.body.from))
    BY <2>1, ToolRequestAssumption DEF ToolRequestAssumption
  <2>3. RenderValue(m.body.from, scope).st = "ok"
    BY <1>3 DEF RenderBody
  <2> QED  BY <1>3, <2>2, <2>3, ValueIsWhole, BodyTemplatesOfForm
<1>4. CASE m.body.forms = {"text"}
  <2>1. m.body.text \in OwnTemplates(m)
    BY <1>4, BodyTemplatesOfForm DEF OwnTemplates
  <2>2. m.body.text \in Seq(Range(m.body.text))
    BY <2>1, ToolRequestAssumption DEF ToolRequestAssumption
  <2>3. Render(m.body.text, scope).st = "ok"
    BY <1>4 DEF RenderBody
  <2> QED  BY <1>4, <2>2, <2>3, RenderedIsWhole, BodyTemplatesOfForm
<1> QED  BY <1>1, <1>2, <1>3, <1>4, OneForm

(* The invariant: what was accepted on the way to a call, and its request. *)
RequestInv ==
    /\ stage \in {"imported", "configured", "called"} => manifest \in Manifests /\ Compile(manifest)
    /\ stage = "called" => request = BuildRequest(manifest, instance, arguments)

(* Every request was built of what was accepted.                           *)
LEMMA RequestInvInductive ==
    RequestSpec => []RequestInv
<1>1. RequestInit => RequestInv
  BY DEF RequestInit, RequestInv
<1>2. RequestInv /\ [RequestNext]_requestVars => RequestInv'
  <2> SUFFICES ASSUME RequestInv, [RequestNext]_requestVars PROVE RequestInv'
    OBVIOUS
  <2>1. CASE Import
    BY <2>1 DEF Import, RequestInv
  <2>2. CASE Configure
    BY <2>2 DEF Configure, RequestInv
  <2>3. CASE CallTool
    BY <2>3 DEF CallTool, RequestInv
  <2>4. CASE UNCHANGED requestVars
    BY <2>4 DEF requestVars, RequestInv
  <2> QED  BY <2>1, <2>2, <2>3, <2>4 DEF RequestNext
<1> QED  BY <1>1, <1>2, PTL DEF RequestSpec

(* The parts of a request that was built.                                  *)
LEMMA RequestParts ==
    ASSUME NEW m, NEW i, NEW args, NEW scope,
           scope = [input |-> args, vars |-> ResolveVariables(m, i.variables), secrets |-> i.secrets]
    PROVE  LET url == RenderURL(m, scope)
               body == RenderBody(m, scope)
               default == ApplyHeaders(m.defaultHeaders, scope)
               own == ApplyHeaders(m.headers, scope)
               auth == ApplyAuth(m, scope)
               type == IF body.st = "ok" THEN Only("Content-Type", {"type"}) ELSE <<>>
               r == BuildRequest(m, i, args)
           IN  /\ (r.ok => url.ok /\ default.ok /\ own.ok /\ auth.ok /\ body.st # "error")
               /\ (url.ok /\ default.ok /\ own.ok /\ auth.ok /\ body.st # "error" =>
                    /\ r.ok
                    /\ r.path = url.path /\ r.query = Over(auth.query, url.query)
                    /\ r.headers = Over(auth.headers, Over(own.set, Over(default.set, type)))
                    /\ r.body = body)
<1> DEFINE url == RenderURL(m, scope)
           body == RenderBody(m, scope)
           default == ApplyHeaders(m.defaultHeaders, scope)
           own == ApplyHeaders(m.headers, scope)
           auth == ApplyAuth(m, scope)
           type == IF body.st = "ok" THEN Only("Content-Type", {"type"}) ELSE <<>>
           query == Over(auth.query, url.query)
           headers == Over(auth.headers, Over(own.set, Over(default.set, type)))
           r == BuildRequest(m, i, args)
<1>1. r = IF ~(url.ok /\ default.ok /\ own.ok /\ auth.ok) \/ body.st = "error" THEN Refused
          ELSE [ok |-> TRUE, path |-> url.path, query |-> query, headers |-> headers, body |-> body]
  BY DEF BuildRequest
<1> HIDE DEF url, body, default, own, auth, type, query, headers, r
<1>2. /\ (r.ok => url.ok /\ default.ok /\ own.ok /\ auth.ok /\ body.st # "error")
      /\ (url.ok /\ default.ok /\ own.ok /\ auth.ok /\ body.st # "error" =>
            /\ r.ok
            /\ r.path = url.path /\ r.query = query
            /\ r.headers = headers
            /\ r.body = body)
  BY <1>1 DEF Refused
<1> QED  BY <1>2 DEF url, body, default, own, auth, type, query, headers, r

(* What a credential adds: its own name, with text.                        *)
LEMMA CredentialParts ==
    ASSUME NEW m, NEW scope, ApplyAuth(m, scope).ok
    PROVE  /\ \A k \in DOMAIN ApplyAuth(m, scope).query :
                  k = m.auth.name /\ ApplyAuth(m, scope).query[k] # {}
           /\ DOMAIN ApplyAuth(m, scope).headers \subseteq {m.auth.name, "Authorization"}
<1> DEFINE used == IF m.noAuth THEN {} ELSE AuthTemplates(m.auth)
           value == [t \in used |-> Render(t, scope)]
           header == IF m.auth.type = "apiKey" THEN m.auth.name ELSE "Authorization"
           bare == [ok |-> TRUE, query |-> <<>>, headers |-> <<>>]
           key == value[m.auth.value].text
           A == ApplyAuth(m, scope)
<1>1. A = IF used = {} THEN bare
        ELSE IF \E t \in used : value[t].st = "error" THEN Refused
        ELSE IF \E t \in used : value[t].text = {} THEN bare
        ELSE IF m.auth.type = "basic"
             THEN [bare EXCEPT !.headers = Only(header, {"user", "password"})]
        ELSE IF ~ValidateHeaderValue(key) THEN Refused
             ELSE IF m.auth.type = "apiKey" /\ m.auth.in = "query"
                  THEN [bare EXCEPT !.query = Only(m.auth.name, key)]
             ELSE [bare EXCEPT !.headers = Only(header, key)]
  BY DEF ApplyAuth
<1>2. ASSUME used # {}, m.auth.type # "basic", ~(\E t \in used : value[t].text = {})
      PROVE  key # {}
  <2>1. m.auth.value \in used
    BY <1>2 DEF AuthTemplates
  <2> QED  BY <1>2, <2>1
<1>3. header \in {m.auth.name, "Authorization"}
  OBVIOUS
<1>4. \A k, v : DOMAIN Only(k, v) = {k} /\ Only(k, v)[k] = v
  BY DEF Only
<1>5. DOMAIN <<>> = {}
  OBVIOUS
<1>6. bare.query = <<>> /\ bare.headers = <<>>
  OBVIOUS
<1>7. \A v : /\ [bare EXCEPT !.headers = v].headers = v
             /\ [bare EXCEPT !.headers = v].query = <<>>
             /\ [bare EXCEPT !.query = v].headers = <<>>
             /\ [bare EXCEPT !.query = v].query = v
  OBVIOUS
<1>8. A.ok
  OBVIOUS
<1>9. ~Refused.ok
  BY DEF Refused
<1> HIDE DEF used, value, header, key, A, bare
<1>10. \/ A = bare
       \/ \E v : A = [bare EXCEPT !.headers = Only(header, v)]
       \/ key # {} /\ A = [bare EXCEPT !.query = Only(m.auth.name, key)]
  BY <1>1, <1>2, <1>8, <1>9
<1>11. /\ \A k \in DOMAIN A.query : k = m.auth.name /\ A.query[k] # {}
       /\ DOMAIN A.headers \subseteq {m.auth.name, "Authorization"}
  <2>1. CASE A = bare
    BY <2>1, <1>5, <1>6
  <2>2. ASSUME NEW v, A = [bare EXCEPT !.headers = Only(header, v)]
        PROVE  /\ \A k \in DOMAIN A.query : k = m.auth.name /\ A.query[k] # {}
               /\ DOMAIN A.headers \subseteq {m.auth.name, "Authorization"}
    <3>1. A.headers = Only(header, v) /\ A.query = <<>>
      BY <2>2, <1>7
    <3>2. DOMAIN A.headers = {header} /\ DOMAIN A.query = {}
      BY <3>1, <1>4, <1>5
    <3> QED  BY <3>2, <1>3
  <2>3. CASE key # {} /\ A = [bare EXCEPT !.query = Only(m.auth.name, key)]
    <3>1. A.query = Only(m.auth.name, key) /\ A.headers = <<>>
      BY <2>3, <1>7
    <3>2. DOMAIN A.query = {m.auth.name} /\ A.query[m.auth.name] = key /\ DOMAIN A.headers = {}
      BY <3>1, <1>4, <1>5
    <3> QED  BY <2>3, <3>2
  <2> QED  BY <1>10, <2>1, <2>2, <2>3
<1> QED  BY <1>11 DEF A

(* What is sent of a set of pairs is whole.                                *)
LEMMA SentIsWhole ==
    ASSUME NEW pairs, NEW scope, \A t \in Range(pairs) : t \in Seq(Range(t)),
           NEW k \in DOMAIN Sent(pairs, scope)
    PROVE  /\ k \in DOMAIN pairs /\ Sent(pairs, scope)[k] # {}
           /\ \A p \in Placeholders(pairs[k]) : Operand(scope, p) # Missing
<1>1. k \in DOMAIN pairs /\ Sent(pairs, scope)[k] # {} /\ Render(pairs[k], scope).text # {}
  BY DEF Sent
<1>2. pairs[k] \in Range(pairs)
  BY <1>1 DEF Range
<1> QED  BY <1>1, <1>2, TextIsRendered, RenderedIsWhole

(* What is left of a JSON body is whole.                                   *)
LEMMA JsonIsWhole ==
    ASSUME NEW m \in Manifests, m.body.forms = {"json"}
    PROVE  WholeBody(m.body.json, RenderNode(m.body.json, Scope).value)
<1> DEFINE json == m.body.json
           value == RenderNode(json, Scope).value
<1>1. DOMAIN value = KeptNodes(json, Scope)
  BY DEF RenderNode, KeptNodes
<1>2. \A q \in DOMAIN json : q \in Seq(Range(q))
  BY ToolRequestAssumption DEF ToolRequestAssumption
<1> HIDE DEF value
<1>3. ASSUME NEW q \in KeptNodes(json, Scope)
      PROVE  /\ q \in KindAt(json, "template") => Whole(json[q].of)
             /\ \A c \in DOMAIN json : IsPrefix(c, q) => c \in KeptNodes(json, Scope)
             /\ \A c \in DOMAIN json :
                    q \in KindAt(json, "array") /\ Len(c) = Len(q) + 1 /\ IsPrefix(q, c)
                    => c \in KeptNodes(json, Scope)
  <2> q \in DOMAIN json
    BY DEF KeptNodes
  <2>1. ASSUME q \in KindAt(json, "template") PROVE Whole(json[q].of)
    <3>1. RenderValue(json[q].of, Scope).st = "ok"
      BY <1>2, <2>1, KeptRenders
    <3>2. json[q].of \in OwnTemplates(m)
      BY <2>1, BodyTemplatesOfForm DEF OwnTemplates, TemplatesIn
    <3>3. json[q].of \in Seq(Range(json[q].of))
      BY <3>2, ToolRequestAssumption DEF ToolRequestAssumption
    <3> QED  BY <3>1, <3>3, ValueIsWhole DEF Whole
  <2>2. ASSUME NEW c \in DOMAIN json, IsPrefix(c, q)
        PROVE  c \in KeptNodes(json, Scope)
    <3>1. \A p \in DOMAIN json : IsPrefix(p, c) => IsPrefix(p, q)
      BY <1>2, <2>2, PrefixFacts
    <3> QED  BY <3>1 DEF KeptNodes
  <2>3. ASSUME NEW c \in DOMAIN json, q \in KindAt(json, "array"), Len(c) = Len(q) + 1, IsPrefix(q, c)
        PROVE  c \in KeptNodes(json, Scope)
    BY <1>2, <2>3, ArrayKeepsElements
  <2> QED  BY <2>1, <2>2, <2>3
<1> QED  BY <1>1, <1>3 DEF WholeBody, value

(* Its path, pairs and body were rendered whole.                           *)
LEMMA SentWholeOrAbsent ==
    ASSUME RequestInv PROVE WholeOrAbsent
<1> SUFFICES ASSUME stage = "called", request.ok PROVE WholeOrAbsent!2
  BY DEF WholeOrAbsent
<1> DEFINE m == manifest
           url == RenderURL(m, Scope)
           body == RenderBody(m, Scope)
           default == ApplyHeaders(m.defaultHeaders, Scope)
           own == ApplyHeaders(m.headers, Scope)
           auth == ApplyAuth(m, Scope)
           type == IF body.st = "ok" THEN Only("Content-Type", {"type"}) ELSE <<>>
<1>1. m \in Manifests /\ Compile(m) /\ request = BuildRequest(m, instance, arguments)
  BY DEF RequestInv
<1>2. \A t \in OwnTemplates(m) : t \in Seq(Range(t))
  BY <1>1, ToolRequestAssumption DEF ToolRequestAssumption
<1>3. /\ url.ok /\ own.ok /\ auth.ok /\ default.ok
      /\ request.query = Over(auth.query, url.query)
      /\ request.headers = Over(auth.headers, Over(own.set, Over(default.set, type)))
      /\ request.body = body
  BY <1>1, RequestParts DEF Scope
<1>4. Whole(m.path)
  <2>1. Render(m.path, Scope).st = "ok"
    BY <1>3 DEF RenderURL, Refused
  <2> QED  BY <2>1, <1>2, RenderedIsWhole DEF OwnTemplates, Whole
<1>5. url.query = Sent(m.query, Scope)
  BY <1>3 DEF RenderURL, Refused
<1>6. own.set = Sent(m.headers, Scope) /\ default.set = Sent(m.defaultHeaders, Scope)
  BY <1>3 DEF ApplyHeaders, Refused
<1>7. DOMAIN type \subseteq {"Content-Type"}
  BY DEF Only
<1>8. /\ \A k \in DOMAIN auth.query : k = m.auth.name /\ auth.query[k] # {}
      /\ DOMAIN auth.headers \subseteq {m.auth.name, "Authorization"}
  BY <1>3, CredentialParts
<1>9. \A pairs \in {m.query, m.headers} : \A t \in Range(pairs) : t \in Seq(Range(t))
  BY <1>2 DEF OwnTemplates
<1>10. DOMAIN default.set \subseteq DOMAIN m.defaultHeaders
  BY <1>6 DEF Sent
<1> HIDE DEF url, body, default, own, auth, type
<1>11. ASSUME NEW k \in DOMAIN request.query, k \in DOMAIN m.query
       PROVE  request.query[k] # {} /\ (Whole(m.query[k]) \/ k = m.auth.name)
  <2>1. CASE k \in DOMAIN auth.query
    BY <1>3, <1>8, <2>1 DEF Over
  <2>2. CASE k \notin DOMAIN auth.query
    <3>1. k \in DOMAIN Sent(m.query, Scope) /\ request.query[k] = Sent(m.query, Scope)[k]
      BY <1>3, <1>5, <1>11, <2>2 DEF Over
    <3> QED  BY <3>1, <1>9, SentIsWhole DEF Whole
  <2> QED  BY <2>1, <2>2
<1>12. ASSUME NEW k \in DOMAIN m.headers \cap DOMAIN request.headers
       PROVE  \/ Whole(m.headers[k])
              \/ k \in DOMAIN m.defaultHeaders \cup {m.auth.name, "Authorization", "Content-Type"}
  <2>1. \A f, g : DOMAIN Over(f, g) = DOMAIN f \cup DOMAIN g
    BY DEF Over
  <2>2. DOMAIN request.headers = DOMAIN auth.headers \cup DOMAIN own.set \cup DOMAIN default.set \cup DOMAIN type
    <3> DEFINE rest == Over(default.set, type)
               owned == Over(own.set, rest)
    <3>1. DOMAIN rest = DOMAIN default.set \cup DOMAIN type
      BY <2>1
    <3>2. DOMAIN owned = DOMAIN own.set \cup DOMAIN rest
      BY <2>1
    <3>3. DOMAIN request.headers = DOMAIN auth.headers \cup DOMAIN owned
      BY <1>3, <2>1
    <3> HIDE DEF rest, owned
    <3> QED  BY <3>1, <3>2, <3>3
  <2>3. CASE k \in DOMAIN own.set
    BY <2>3, <1>6, <1>9, SentIsWhole DEF Whole
  <2>4. CASE k \notin DOMAIN own.set
    BY <2>2, <2>4, <1>7, <1>8, <1>10
  <2> QED  BY <2>3, <2>4
<1>13. ASSUME request.body.st = "ok"
       PROVE  IF m.body.forms = {"json"} THEN WholeBody(m.body.json, request.body.value)
              ELSE \A t \in BodyTemplates(m.body) : Whole(t)
  BY <1>1, <1>3, <1>13, BodyIsWhole, JsonIsWhole DEF body, Whole
<1> QED  BY <1>4, <1>11, <1>12, <1>13

(* What is sent was rendered whole, whatever was left out around it.       *)
THEOREM NothingIsHalfRendered ==
    RequestSpec => []WholeOrAbsent
  BY RequestInvInductive, SentWholeOrAbsent, PTL

(* A template that is simple and whose placeholders have plain text.       *)
Full(t, scope) ==
    /\ t \in Seq(Range(t)) /\ Simple(t)
    /\ \A p \in Placeholders(t) : Ordinary(Operand(scope, p))

LEMMA FullRenders ==
    ASSUME NEW t, NEW scope, Full(t, scope)
    PROVE  /\ Render(t, scope).st = "ok" /\ Render(t, scope).text # {}
           /\ \A w \in Render(t, scope).text : Ordinary(w)
           /\ RenderValue(t, scope).st = "ok"
<1> DEFINE word == [i \in DOMAIN t |-> IF t[i].ns = "literal" THEN t[i].path[1] ELSE Operand(scope, t[i])]
           bad == {i \in DOMAIN t : word[i] \in {Missing, "object"}}
<1>1. Render(t, scope) = IF bad = {} THEN [st |-> "ok", text |-> Range(word) \ {NoText}]
                         ELSE [st |-> IF word[Min(bad)] = Missing THEN "drop" ELSE "error", text |-> {}]
  BY DEF Render
<1>2. ASSUME NEW i \in DOMAIN t PROVE Ordinary(word[i])
  <2>1. t[i] \in Range(t)
    BY DEF Range
  <2>2. CASE t[i].ns = "literal"
    BY <2>1, <2>2 DEF Full, Simple
  <2>3. CASE t[i].ns # "literal"
    BY <2>1, <2>3 DEF Full, Placeholders
  <2> QED  BY <2>2, <2>3
<1>3. 1 \in DOMAIN t
  BY DEF Full, Simple
<1>4. DOMAIN word = DOMAIN t
  OBVIOUS
<1>5. bad = {}
  BY <1>2 DEF Ordinary
<1>6. word[1] \in Range(word) \ {NoText}
  BY <1>2, <1>3 DEF Ordinary, Range
<1>7. \A w \in Range(word) : Ordinary(w)
  BY <1>2 DEF Range
<1>8. ASSUME Len(t) = 1, t[1].ns # "literal" PROVE Operand(scope, t[1]) # Missing
  BY <1>2, <1>3, <1>8 DEF Ordinary
<1> HIDE DEF word, bad
<1>9. Render(t, scope) = [st |-> "ok", text |-> Range(word) \ {NoText}]
  BY <1>1, <1>5
<1>10. RenderValue(t, scope).st = "ok"
  <2>1. CASE Len(t) = 1 /\ t[1].ns # "literal"
    BY <1>8, <2>1 DEF RenderValue
  <2>2. CASE ~(Len(t) = 1 /\ t[1].ns # "literal")
    BY <1>9, <2>2 DEF RenderValue
  <2> QED  BY <2>1, <2>2
<1> QED  BY <1>6, <1>7, <1>9, <1>10

(* What Compile accepted, simple and supplied, has plain text everywhere.  *)
LEMMA SuppliedIsFull ==
    ASSUME AllSupplied, NEW t, t \in Seq(Range(t)), Simple(t), Parses(t), NEW props,
           CheckRefs(t, manifest, props),
           (props = manifest.props /\ props # {}) \/ (\A p \in Placeholders(t) : p.ns # "input")
    PROVE  Full(t, Scope)
<1> SUFFICES ASSUME NEW p \in Placeholders(t) PROVE Ordinary(Operand(Scope, p))
  BY DEF Full
<1>1. /\ p.ns \in {"input", "vars", "secrets"} /\ Len(p.path) = 1
      /\ p.ns = "vars" => p.path[1] \in Names(manifest.variables)
      /\ p.ns = "secrets" => p.path[1] \in Names(manifest.secrets)
      /\ p.ns = "input" => p.path[1] \in manifest.props
  BY DEF Parses, Simple, CheckRefs, Placeholders
<1>2. p.path[1] \in DOMAIN Scope[p.ns] /\ Ordinary(Scope[p.ns][p.path[1]])
  <2>1. CASE p.ns = "vars"
    BY <1>1, <2>1 DEF AllSupplied
  <2>2. CASE p.ns = "secrets"
    BY <1>1, <2>2 DEF AllSupplied
  <2>3. CASE p.ns = "input"
    <3>1. Scope.input = arguments
      BY DEF Scope
    <3> QED  BY <1>1, <2>3, <3>1 DEF AllSupplied
  <2> QED  BY <1>1, <2>1, <2>2, <2>3
<1>3. Lookup(Scope, p) = Scope[p.ns][p.path[1]]
  BY <1>1, <1>2 DEF Lookup
<1> QED  BY <1>2, <1>3 DEF Operand, Ordinary

(* Pairs all of which have text are all sent.                              *)
LEMMA FullPairsAreSent ==
    ASSUME NEW pairs, NEW scope, \A t \in Range(pairs) : Full(t, scope)
    PROVE  /\ DOMAIN Sent(pairs, scope) = DOMAIN pairs
           /\ ~FailsOne(pairs, scope) /\ ApplyHeaders(pairs, scope).ok
           /\ ApplyHeaders(pairs, scope).set = Sent(pairs, scope)
<1>1. \A k \in DOMAIN pairs : Render(pairs[k], scope).text # {} /\ \A w \in Render(pairs[k], scope).text : Ordinary(w)
  BY FullRenders DEF Range
<1>2. DOMAIN Sent(pairs, scope) = DOMAIN pairs
  BY <1>1 DEF Sent
<1>3. ~FailsOne(pairs, scope)
  BY FullRenders DEF FailsOne
<1>4. \A t \in Range(Sent(pairs, scope)) : ValidateHeaderValue(t)
  <2>1. \A k \in DOMAIN pairs : Sent(pairs, scope)[k] = Render(pairs[k], scope).text
    BY <1>1 DEF Sent
  <2> QED  BY <1>1, <1>2, <2>1 DEF Range, ValidateHeaderValue, Ordinary
<1> QED  BY <1>2, <1>3, <1>4 DEF ApplyHeaders

(* A body all of whose templates render is kept as a whole.                *)
LEMMA FullBodyIsKept ==
    ASSUME NEW m \in Manifests, Compile(m), NEW scope,
           \A t \in BodyTemplates(m.body) : Full(t, scope)
    PROVE  /\ RenderBody(m, scope).st \in {"ok", "drop"}
           /\ m.body.declared => RenderBody(m, scope).st = "ok"
           /\ m.body.forms = {"json"} => DOMAIN RenderBody(m, scope).value = DOMAIN m.body.json
<1>1. CASE m.body.forms = {}
  <2>1. ~m.body.declared
    BY <1>1 DEF Compile, CompileTool, CompileBody
  <2> QED  BY <1>1, <2>1 DEF RenderBody
<1>2. CASE m.body.forms = {"json"}
  <2> DEFINE json == m.body.json
             r == RenderNode(json, scope)
  <2>1. \A q \in KindAt(json, "template") : RenderValue(json[q].of, scope).st = "ok"
    BY <1>2, BodyTemplatesOfForm, FullRenders DEF TemplatesIn
  <2>2. \A p : Renders(json, p, scope)
    BY <2>1 DEF Renders
  <2>3. r.ok /\ DOMAIN r.value = DOMAIN json
    BY <2>2 DEF RenderNode
  <2> HIDE DEF r
  <2>4. RenderBody(m, scope) = IF r.ok THEN [st |-> "ok", value |-> r.value] ELSE [st |-> "drop"]
    BY <1>2 DEF RenderBody, r
  <2> QED  BY <2>3, <2>4
<1>3. CASE m.body.forms = {"from"}
  BY <1>3, BodyTemplatesOfForm, FullRenders DEF RenderBody
<1>4. CASE m.body.forms = {"text"}
  BY <1>4, BodyTemplatesOfForm, FullRenders DEF RenderBody
<1> QED  BY <1>1, <1>2, <1>3, <1>4, OneForm

(* A credential all of whose templates render is added.                    *)
LEMMA FullCredentialIsAdded ==
    ASSUME NEW m, Compile(m), NEW scope, \A t \in AuthTemplates(m.auth) : Full(t, scope)
    PROVE  /\ ApplyAuth(m, scope).ok
           /\ m.auth.type # "none" /\ ~m.noAuth =>
                 \/ "Authorization" \in DOMAIN ApplyAuth(m, scope).headers
                 \/ m.auth.name \in DOMAIN ApplyAuth(m, scope).headers \cup DOMAIN ApplyAuth(m, scope).query
<1> DEFINE used == IF m.noAuth THEN {} ELSE AuthTemplates(m.auth)
           value == [t \in used |-> Render(t, scope)]
           header == IF m.auth.type = "apiKey" THEN m.auth.name ELSE "Authorization"
           bare == [ok |-> TRUE, query |-> <<>>, headers |-> <<>>]
           key == value[m.auth.value].text
           A == ApplyAuth(m, scope)
<1>1. A = IF used = {} THEN bare
        ELSE IF \E t \in used : value[t].st = "error" THEN Refused
        ELSE IF \E t \in used : value[t].text = {} THEN bare
        ELSE IF m.auth.type = "basic"
             THEN [bare EXCEPT !.headers = Only(header, {"user", "password"})]
        ELSE IF ~ValidateHeaderValue(key) THEN Refused
             ELSE IF m.auth.type = "apiKey" /\ m.auth.in = "query"
                  THEN [bare EXCEPT !.query = Only(m.auth.name, key)]
             ELSE [bare EXCEPT !.headers = Only(header, key)]
  BY DEF ApplyAuth
<1>2. \A t \in used : value[t].st = "ok" /\ value[t].text # {} /\ \A w \in value[t].text : Ordinary(w)
  BY FullRenders
<1>3. ASSUME used # {}, m.auth.type # "basic" PROVE ValidateHeaderValue(key)
  <2>1. m.auth.value \in used
    BY <1>3 DEF AuthTemplates
  <2> QED  BY <1>2, <2>1 DEF ValidateHeaderValue, Ordinary
<1>4. m.auth.type # "none" /\ ~m.noAuth => used # {}
  BY DEF Compile, CompileAuth, AuthTemplates
<1>5. header \in {m.auth.name, "Authorization"}
  OBVIOUS
<1>6. \A k, v : DOMAIN Only(k, v) = {k}
  BY DEF Only
<1>7. \A v : /\ [bare EXCEPT !.headers = v].headers = v
             /\ [bare EXCEPT !.headers = v].ok
             /\ [bare EXCEPT !.query = v].query = v
             /\ [bare EXCEPT !.query = v].ok
  OBVIOUS
<1>8. bare.ok
  OBVIOUS
<1>9. \A t \in used : value[t].st # "error"
  BY <1>2
<1> HIDE DEF used, value, header, key, A, bare
<1>10. \/ used = {} /\ A = bare
       \/ \E v : A = [bare EXCEPT !.headers = Only(header, v)]
       \/ A = [bare EXCEPT !.query = Only(m.auth.name, key)]
  BY <1>1, <1>2, <1>3, <1>9
<1>11. /\ A.ok
       /\ used # {} => \/ "Authorization" \in DOMAIN A.headers
                       \/ m.auth.name \in DOMAIN A.headers \cup DOMAIN A.query
  <2>1. CASE used = {} /\ A = bare
    BY <2>1, <1>8
  <2>2. ASSUME NEW v, A = [bare EXCEPT !.headers = Only(header, v)]
        PROVE  A.ok /\ ("Authorization" \in DOMAIN A.headers \/ m.auth.name \in DOMAIN A.headers)
    <3>1. A.ok /\ A.headers = Only(header, v)
      BY <2>2, <1>7
    <3>2. DOMAIN A.headers = {header}
      BY <3>1, <1>6
    <3> QED  BY <3>1, <3>2, <1>5
  <2>3. CASE A = [bare EXCEPT !.query = Only(m.auth.name, key)]
    <3>1. A.ok /\ A.query = Only(m.auth.name, key)
      BY <2>3, <1>7
    <3>2. DOMAIN A.query = {m.auth.name}
      BY <3>1, <1>6
    <3> QED  BY <3>1, <3>2
  <2> QED  BY <1>10, <2>1, <2>2, <2>3
<1> QED  BY <1>4, <1>11 DEF A

(* Every template is full, so that every field is sent.                    *)
LEMMA SuppliedLeavesNothingOut ==
    ASSUME RequestInv PROVE NothingLeftOut
<1> SUFFICES ASSUME stage = "called", AllSupplied, manifest.props # {},
                    \A t \in Checked : Simple(t),
                    \A t \in AuthTemplates(manifest.auth) : \A p \in Placeholders(t) : p.ns # "input",
                    ApplyHeaders(manifest.defaultHeaders, Scope).ok
             PROVE  NothingLeftOut!2
  BY DEF NothingLeftOut
<1> DEFINE m == manifest
           url == RenderURL(m, Scope)
           body == RenderBody(m, Scope)
           default == ApplyHeaders(m.defaultHeaders, Scope)
           own == ApplyHeaders(m.headers, Scope)
           auth == ApplyAuth(m, Scope)
           type == IF body.st = "ok" THEN Only("Content-Type", {"type"}) ELSE <<>>
<1>1. m \in Manifests /\ Compile(m) /\ request = BuildRequest(m, instance, arguments)
  BY DEF RequestInv
<1>2. \A t \in OwnTemplates(m) : t \in Seq(Range(t)) /\ Simple(t)
  BY <1>1, ToolRequestAssumption DEF ToolRequestAssumption, Checked
<1>3. \A t \in Range(m.query) \cup Range(m.headers) \cup {m.path} : Parses(t) /\ CheckRefs(t, m, m.props)
  <2>1. \A k \in DOMAIN m.query : Parses(m.query[k])
    BY <1>1 DEF Compile, CompileTool, CompilePairs
  <2>2. \A k \in DOMAIN m.headers : Parses(m.headers[k])
    BY <1>1 DEF Compile, CompileTool, CompilePairs
  <2>3. Parses(m.path) /\ CheckRefs(m.path, m, m.props)
    BY <1>1 DEF Compile, CompileTool, CompileTemplate
  <2>4. \A t \in Range(m.query) \cup Range(m.headers) : CheckRefs(t, m, m.props)
    BY <1>1 DEF Compile, CompileTool
  <2> QED  BY <2>1, <2>2, <2>3, <2>4 DEF Range
<1>4. \A t \in Range(m.query) \cup Range(m.headers) \cup {m.path} : Full(t, Scope)
  BY <1>2, <1>3, SuppliedIsFull DEF OwnTemplates
<1>5. \A t \in BodyTemplates(m.body) : Full(t, Scope)
  <2> SUFFICES ASSUME NEW t \in BodyTemplates(m.body) PROVE Full(t, Scope)
    OBVIOUS
  <2>1. m.body.forms # {}
    BY DEF BodyTemplates
  <2>2. Parses(t) /\ CheckRefs(t, m, m.props)
    BY <1>1, <2>1, OneForm DEF CompileTemplate
  <2> QED  BY <1>2, <2>2, SuppliedIsFull DEF OwnTemplates
<1>6. \A t \in AuthTemplates(m.auth) : Full(t, Scope)
  <2> SUFFICES ASSUME NEW t \in AuthTemplates(m.auth) PROVE Full(t, Scope)
    OBVIOUS
  <2>1. Parses(t) /\ CheckRefs(t, m, {})
    BY <1>1 DEF Compile, CompileAuth, CompileTemplate
  <2> QED  BY <1>2, <2>1, SuppliedIsFull DEF OwnTemplates
<1>7. url.ok /\ url.query = Sent(m.query, Scope) /\ DOMAIN url.query = DOMAIN m.query
  <2>1. Render(m.path, Scope).st = "ok" /\ ".." \notin Render(m.path, Scope).text
    BY <1>4, FullRenders DEF Ordinary
  <2>2. ~FailsOne(m.query, Scope) /\ DOMAIN Sent(m.query, Scope) = DOMAIN m.query
    BY <1>4, FullPairsAreSent
  <2> QED  BY <2>1, <2>2 DEF RenderURL
<1>8. own.ok /\ DOMAIN own.set = DOMAIN m.headers
  BY <1>4, FullPairsAreSent
<1>9. /\ body.st \in {"ok", "drop"}
      /\ m.body.declared => body.st = "ok"
      /\ m.body.forms = {"json"} => DOMAIN body.value = DOMAIN m.body.json
  BY <1>1, <1>5, FullBodyIsKept
<1>10. /\ auth.ok
       /\ m.auth.type # "none" /\ ~m.noAuth =>
             \/ "Authorization" \in DOMAIN auth.headers
             \/ m.auth.name \in DOMAIN auth.headers \cup DOMAIN auth.query
  BY <1>1, <1>6, FullCredentialIsAdded
<1>11. default.ok
  OBVIOUS
<1>12. body.st # "error"
  BY <1>9
<1> HIDE DEF url, body, default, own, auth, type
<1>13. /\ request.ok
       /\ request.query = Over(auth.query, url.query)
       /\ request.headers = Over(auth.headers, Over(own.set, Over(default.set, type)))
       /\ request.body = body
  BY <1>1, <1>7, <1>8, <1>10, <1>11, <1>12, RequestParts DEF Scope, url, body, default, own, auth, type
<1>14. /\ DOMAIN request.query = DOMAIN auth.query \cup DOMAIN url.query
       /\ DOMAIN auth.headers \cup DOMAIN own.set \subseteq DOMAIN request.headers
  <2>1. \A f, g : DOMAIN Over(f, g) = DOMAIN f \cup DOMAIN g
    BY DEF Over
  <2> DEFINE rest == Over(default.set, type)
             owned == Over(own.set, rest)
  <2>2. DOMAIN owned = DOMAIN own.set \cup DOMAIN rest
    BY <2>1
  <2>3. DOMAIN request.headers = DOMAIN auth.headers \cup DOMAIN owned
    BY <1>13, <2>1
  <2>4. DOMAIN request.query = DOMAIN auth.query \cup DOMAIN url.query
    BY <1>13, <2>1
  <2> HIDE DEF rest, owned
  <2> QED  BY <2>2, <2>3, <2>4
<1> QED  BY <1>7, <1>8, <1>9, <1>10, <1>13, <1>14

(* When all that is declared is supplied, no field is left out.            *)
THEOREM SuppliedFieldsAreSent ==
    RequestSpec => []NothingLeftOut
  BY RequestInvInductive, SuppliedLeavesNothingOut, PTL
=============================================================================
