--------------------------- MODULE BreakerProofs ---------------------------
(* Proofs about the circuit breaker, for every set of calls and keys, every *)
(* setting of its parameters and every size of its map.                    *)
EXTENDS Breaker, TLAPS

(* What the entry of one key says about the reports seen for it. *)
Counts(k) ==
    /\ ~Live(k) => streak[k] = 0
    /\ entry[k].state = "closed" =>
            entry[k].failures = streak[k] /\ streak[k] < FailureThreshold
    /\ entry[k].state = "half-open" => entry[k].openAge = OpenDuration

IInv == TypeOK /\ \A k \in Keys : Counts(k)

-----------------------------------------------------------------------------
(* A sweep keeps an entry as it is or, when it is closed, drops it. *)
LEMMA SweepDrops ==
    ASSUME NEW m \in [Keys -> Entry \cup {NoEntry}]
    PROVE  /\ Sweep(m) \in [Keys -> Entry \cup {NoEntry}]
           /\ \A q \in Keys : Sweep(m)[q] \in {m[q], NoEntry}
           /\ \A q \in Keys : m[q].state # "closed" => Sweep(m)[q] = m[q]
<1>1. CASE Sweep(m) = m
  BY <1>1
<1>2. CASE Sweep(m) = [q \in Keys |->
              IF m[q] # NoEntry /\ m[q].state = "closed" /\ m[q].idle > IdleCutoff
              THEN NoEntry ELSE m[q]]
  <2>1. Sweep(m) \in [Keys -> Entry \cup {NoEntry}]
    BY <1>2
  <2>2. \A q \in Keys : Sweep(m)[q] \in {m[q], NoEntry}
    BY <1>2
  <2>3. \A q \in Keys : m[q].state # "closed" => Sweep(m)[q] = m[q]
    BY <1>2
  <2> QED
    BY <2>1, <2>2, <2>3
<1> QED
  BY <1>1, <1>2, Zenon DEF Sweep

(* A method's result is stored, or lost with the entry it made; another    *)
(* key's entry is left alone or swept.                                     *)
LEMMA StoreFields ==
    ASSUME NEW k \in Keys, NEW e \in Entry,
           entry \in [Keys -> Entry \cup {NoEntry}]
    PROVE  /\ Store(k, e) \in [Keys -> Entry \cup {NoEntry}]
           /\ Store(k, e)[k] \in {[e EXCEPT !.idle = 0], NoEntry}
           /\ Live(k) => Store(k, e)[k] = [e EXCEPT !.idle = 0]
           /\ \A q \in Keys \ {k} : Store(k, e)[q] \in {entry[q], NoEntry}
           /\ \A q \in Keys \ {k} : entry[q].state # "closed" => Store(k, e)[q] = entry[q]
<1> DEFINE stamped == [e EXCEPT !.idle = 0]
           made == [entry EXCEPT ![k] = FreshEntry]
           swept == Sweep(made)
<1>1. stamped \in Entry
  BY BreakerAssumption DEF Entry
<1>2. FreshEntry \in Entry
  BY BreakerAssumption DEF FreshEntry, Entry
<1>3. /\ made \in [Keys -> Entry \cup {NoEntry}]
      /\ \A q \in Keys \ {k} : made[q] = entry[q]
  BY <1>2
<1>4. /\ swept \in [Keys -> Entry \cup {NoEntry}]
      /\ \A q \in Keys : swept[q] \in {made[q], NoEntry}
      /\ \A q \in Keys : made[q].state # "closed" => swept[q] = made[q]
  <2> HIDE DEF made
  <2> QED
    BY <1>3, SweepDrops
<1>5. Store(k, e) = IF Live(k) THEN [entry EXCEPT ![k] = stamped]
                    ELSE IF swept[k] = NoEntry THEN swept
                    ELSE [swept EXCEPT ![k] = stamped]
  BY Zenon DEF Store
<1> HIDE DEF swept, made
<1>6. /\ \A q \in Keys \ {k} : swept[q] \in {entry[q], NoEntry}
      /\ \A q \in Keys \ {k} : entry[q].state # "closed" => swept[q] = entry[q]
  BY <1>3, <1>4
<1> DEFINE stored == Store(k, e)
<1> SUFFICES /\ stored \in [Keys -> Entry \cup {NoEntry}]
             /\ stored[k] \in {stamped, NoEntry}
             /\ Live(k) => stored[k] = stamped
             /\ \A q \in Keys \ {k} : stored[q] \in {entry[q], NoEntry}
             /\ \A q \in Keys \ {k} : entry[q].state # "closed" => stored[q] = entry[q]
  OBVIOUS
<1> HIDE DEF stamped, stored
<1>7. CASE Live(k)
  <2>1. stored = [entry EXCEPT ![k] = stamped]
    BY <1>5, <1>7 DEF stored
  <2> QED
    BY <1>1, <1>7, <2>1
<1>8. CASE ~Live(k) /\ swept[k] = NoEntry
  <2>1. stored = swept
    BY <1>5, <1>8 DEF stored
  <2> QED
    BY <1>4, <1>6, <1>8, <2>1
<1>9. CASE ~Live(k) /\ swept[k] # NoEntry
  <2>1. stored = [swept EXCEPT ![k] = stamped]
    BY <1>5, <1>9 DEF stored
  <2>2. \A q \in Keys \ {k} : stored[q] = swept[q]
    BY <1>4, <2>1
  <2> QED
    BY <1>1, <1>4, <1>6, <1>9, <2>1, <2>2
<1> QED
  BY <1>7, <1>8, <1>9

(* The entry a method works on is well-formed, and its fields agree with   *)
(* the reports whether it was in the map or is made on the spot.           *)
LEMMA EntryOfCounts ==
    ASSUME IInv, NEW k \in Keys
    PROVE  /\ EntryOf(k) \in Entry
           /\ EntryOf(k).state = "closed" =>
                EntryOf(k).failures = streak[k] /\ streak[k] < FailureThreshold
           /\ EntryOf(k).state = "half-open" => EntryOf(k).openAge = OpenDuration
<1>1. FreshEntry \in Entry /\ FreshEntry.state = "closed" /\ FreshEntry.failures = 0
  BY BreakerAssumption DEF FreshEntry, Entry
<1>2. CASE Live(k)
  BY <1>2 DEF IInv, TypeOK, Counts, EntryOf, Live
<1>3. CASE ~Live(k)
  BY <1>1, <1>3, BreakerAssumption DEF IInv, Counts, EntryOf
<1> QED
  BY <1>2, <1>3

(* A success leaves half-open probing or a closed circuit with no failures. *)
LEMMA AfterSuccessFields ==
    ASSUME NEW e \in Entry
    PROVE  /\ AfterSuccess(e) \in Entry
           /\ AfterSuccess(e).state = "closed" => AfterSuccess(e).failures = 0
           /\ AfterSuccess(e).state # "closed" =>
                /\ e.state = "half-open" /\ AfterSuccess(e).state = "half-open"
                /\ AfterSuccess(e).openAge = e.openAge
<1> USE BreakerAssumption DEF Entry
<1>1. CASE e.state = "half-open" /\ e.successes + 1 < HalfOpenSuccesses
  <2>1. AfterSuccess(e) = [e EXCEPT !.successes = e.successes + 1]
    BY <1>1 DEF AfterSuccess
  <2> QED
    BY <1>1, <2>1
<1>2. CASE ~(e.state = "half-open" /\ e.successes + 1 < HalfOpenSuccesses)
  <2> DEFINE s == IF e.state = "half-open" THEN 0 ELSE e.successes
  <2>1. AfterSuccess(e) = [e EXCEPT !.state = "closed", !.failures = 0, !.successes = s]
    BY <1>2 DEF AfterSuccess
  <2>2. s \in 0 .. HalfOpenSuccesses
    OBVIOUS
  <2> HIDE DEF s
  <2>3. 0 \in 0 .. FailureThreshold
    OBVIOUS
  <2>4. AfterSuccess(e) \in Entry
    BY <2>1, <2>2, <2>3
  <2>5. AfterSuccess(e).state = "closed" /\ AfterSuccess(e).failures = 0
    BY <2>1
  <2> QED
    BY <2>4, <2>5
<1> QED
  BY <1>1, <1>2

(* A failure counts, and opens the circuit when it was half-open or the    *)
(* threshold is reached.                                                   *)
LEMMA AfterFailureFields ==
    ASSUME NEW e \in Entry
    PROVE  /\ AfterFailure(e) \in Entry
           /\ AfterFailure(e).state \in {"open", e.state}
           /\ AfterFailure(e).state = "closed" =>
                /\ AfterFailure(e).failures = e.failures + 1
                /\ AfterFailure(e).failures < FailureThreshold
           /\ AfterFailure(e).state # "half-open"
           /\ AfterFailure(e).state = "open" /\ e.state = "closed" =>
                e.failures + 1 >= FailureThreshold
<1> USE BreakerAssumption DEF Entry
<1> DEFINE n == Capped(e.failures + 1, FailureThreshold)
           failed == [e EXCEPT !.failures = n, !.successes = 0]
<1>1. /\ n \in 0 .. FailureThreshold
      /\ n < FailureThreshold => n = e.failures + 1
      /\ n >= FailureThreshold => e.failures + 1 >= FailureThreshold
  BY DEF Capped
<1>2. AfterFailure(e) = IF e.state = "half-open" \/ failed.failures >= FailureThreshold
                        THEN [failed EXCEPT !.state = "open", !.openAge = 0]
                        ELSE failed
  BY DEF AfterFailure
<1> HIDE DEF n
<1>3. /\ failed \in Entry /\ failed.failures = n
      /\ failed.state = e.state
  <2>1. 0 \in 0 .. HalfOpenSuccesses
    OBVIOUS
  <2>2. failed \in Entry
    BY <1>1, <2>1
  <2>3. failed.failures = n
    OBVIOUS
  <2>4. failed.state = e.state
    OBVIOUS
  <2> QED
    BY <2>2, <2>3, <2>4
<1>4. CASE e.state = "half-open" \/ failed.failures >= FailureThreshold
  <2>1. AfterFailure(e) = [failed EXCEPT !.state = "open", !.openAge = 0]
    BY <1>2, <1>4
  <2> HIDE DEF failed
  <2>2. AfterFailure(e) \in Entry
    <3>1. 0 \in 0 .. OpenDuration
      OBVIOUS
    <3> QED
      BY <1>3, <2>1, <3>1
  <2>3. AfterFailure(e).state = "open"
    BY <1>3, <2>1
  <2> QED
    BY <1>1, <1>3, <1>4, <2>2, <2>3
<1>5. CASE ~(e.state = "half-open" \/ failed.failures >= FailureThreshold)
  <2>1. AfterFailure(e) = failed
    BY <1>2, <1>5
  <2> HIDE DEF failed
  <2> QED
    BY <1>1, <1>3, <1>5, <2>1
<1> QED
  BY <1>4, <1>5

(* The initial state satisfies the invariant. *)
LEMMA InitIInv == Init => IInv
<1> SUFFICES ASSUME Init PROVE IInv
  OBVIOUS
<1>1. NoEntry.state = "none" /\ NoEntry \notin Entry
  BY DEF NoEntry, Entry
<1>2. TypeOK
  BY BreakerAssumption DEF Init, TypeOK
<1>3. \A k \in Keys : Counts(k)
  BY <1>1 DEF Init, Counts
<1> QED
  BY <1>2, <1>3 DEF IInv

(* A method that puts back an entry in agreement with the report count     *)
(* preserves the invariant: Allow and Record both do.                      *)
LEMMA StoreIInv ==
    ASSUME IInv, NEW k \in Keys, NEW e \in Entry, NEW n \in 0 .. FailureThreshold,
           entry' = Store(k, e),
           CountReports(k, n),
           out' \in [Calls -> Keys \cup {NotOut}],
           e.state = "closed" => e.failures = n /\ n < FailureThreshold,
           e.state = "half-open" => e.openAge = OpenDuration
    PROVE  IInv'
<1> DEFINE stamped == [e EXCEPT !.idle = 0]
<1>1. /\ entry' \in [Keys -> Entry \cup {NoEntry}]
      /\ entry'[k] \in {stamped, NoEntry}
      /\ \A q \in Keys \ {k} : entry'[q] \in {entry[q], NoEntry}
  BY StoreFields DEF IInv, TypeOK
<1>2. /\ stamped \in Entry /\ stamped.state = e.state
      /\ stamped.failures = e.failures /\ stamped.openAge = e.openAge
  BY BreakerAssumption DEF Entry
<1> HIDE DEF stamped
<1>3. /\ streak' = [q \in Keys |-> streak'[q]]
      /\ \A q \in Keys : streak'[q] = IF entry'[q] = NoEntry THEN 0
                                      ELSE IF q = k THEN n ELSE streak[q]
  BY DEF CountReports
<1>4. NoEntry.state = "none" /\ NoEntry \notin Entry
  BY DEF NoEntry, Entry
<1>5. TypeOK'
  <2>1. \A q \in Keys : streak'[q] \in 0 .. FailureThreshold
    BY <1>3, BreakerAssumption DEF IInv, TypeOK
  <2>2. streak' \in [Keys -> 0 .. FailureThreshold]
    BY <1>3, <2>1
  <2> QED
    BY <1>1, <2>2 DEF TypeOK
<1>6. \A q \in Keys : entry'[q] = NoEntry => Counts(q)'
  BY <1>3, <1>4 DEF Counts, Live
<1>7. entry'[k] # NoEntry => Counts(k)'
  BY <1>1, <1>2, <1>3, <1>4 DEF Counts, Live
<1>8. \A q \in Keys \ {k} : entry'[q] # NoEntry => Counts(q)'
  BY <1>1, <1>3 DEF IInv, Counts, Live
<1> QED
  BY <1>5, <1>6, <1>7, <1>8 DEF IInv

(* Admission changes no count; it turns half-open only a cooled circuit. *)
LEMMA AllowIInv ==
    ASSUME IInv, NEW c \in Calls, NEW k \in Keys, Allow(c, k)
    PROVE  IInv'
<1> DEFINE e == EntryOf(k)
           shed == e.state = "open" /\ e.openAge < OpenDuration
           opened == [e EXCEPT !.state = "half-open", !.successes = 0]
           after == IF e.state = "open" /\ ~shed THEN opened ELSE e
<1>1. entry' = Store(k, after)
  BY DEF Allow
<1>2. /\ e \in Entry
      /\ e.state = "closed" => e.failures = streak[k] /\ streak[k] < FailureThreshold
      /\ e.state = "half-open" => e.openAge = OpenDuration
  BY EntryOfCounts
<1>3. /\ opened \in Entry /\ opened.state = "half-open" /\ opened.openAge = e.openAge
  <2> HIDE DEF e
  <2>1. 0 \in 0 .. HalfOpenSuccesses
    BY BreakerAssumption
  <2> QED
    BY <1>2, <2>1 DEF Entry
<1>4. e.state = "open" /\ ~shed => e.openAge = OpenDuration
  BY <1>2, BreakerAssumption DEF Entry
<1>5. /\ after \in Entry
      /\ after.state = "closed" => after.failures = streak[k] /\ streak[k] < FailureThreshold
      /\ after.state = "half-open" => after.openAge = OpenDuration
  <2> HIDE DEF opened, e
  <2> QED
    BY <1>2, <1>3, <1>4
<1>6. /\ streak[k] \in 0 .. FailureThreshold
      /\ CountReports(k, streak[k])
  BY DEF Allow, IInv, TypeOK
<1>7. out' \in [Calls -> Keys \cup {NotOut}]
  BY DEF Allow, IInv, TypeOK
<1> HIDE DEF after
<1> QED
  BY <1>1, <1>5, <1>6, <1>7, StoreIInv

(* A report moves the entry's count and the history's in step. *)
LEMMA RecordIInv ==
    ASSUME IInv, NEW c \in Calls, NEW ok \in BOOLEAN, Record(c, ok)
    PROVE  IInv'
<1> DEFINE k == out[c]
           e == EntryOf(k)
           n == IF ok THEN 0 ELSE Capped(streak[k] + 1, FailureThreshold)
           after == IF ok THEN AfterSuccess(e) ELSE AfterFailure(e)
<1>1. k \in Keys
  BY DEF Record, IInv, TypeOK
<1>2. /\ entry' = Store(k, after)
      /\ CountReports(k, n)
      /\ out' \in [Calls -> Keys \cup {NotOut}]
  BY DEF Record, IInv, TypeOK
<1>3. streak[k] \in 0 .. FailureThreshold /\ n \in 0 .. FailureThreshold
  BY <1>1, BreakerAssumption DEF IInv, TypeOK, Capped
<1>4. /\ e \in Entry
      /\ e.state = "closed" => e.failures = streak[k] /\ streak[k] < FailureThreshold
      /\ e.state = "half-open" => e.openAge = OpenDuration
  BY <1>1, EntryOfCounts
<1>5. /\ after \in Entry
      /\ after.state = "closed" => after.failures = n /\ n < FailureThreshold
      /\ after.state = "half-open" => after.openAge = OpenDuration
  <2>1. CASE ok
    <3> HIDE DEF e
    <3> QED
      BY <1>4, <2>1, AfterSuccessFields, BreakerAssumption
  <2>2. CASE ~ok
    <3>1. AfterFailure(e) \in Entry /\ AfterFailure(e).state # "half-open"
      BY <1>4, AfterFailureFields
    <3>2. AfterFailure(e).state = "closed" =>
            e.state = "closed" /\ AfterFailure(e).failures = e.failures + 1
                               /\ AfterFailure(e).failures < FailureThreshold
      BY <1>4, AfterFailureFields
    <3>3. AfterFailure(e).state = "closed" => n = streak[k] + 1
      BY <1>3, <1>4, <2>2, <3>2, BreakerAssumption DEF Capped
    <3> HIDE DEF e, n
    <3> QED
      BY <1>4, <2>2, <3>1, <3>2, <3>3
  <2> QED
    BY <2>1, <2>2
<1> HIDE DEF after, n
<1> QED
  BY <1>1, <1>2, <1>3, <1>5, StoreIInv

(* Resetting a key, abandoning a call and letting time pass keep every     *)
(* entry in agreement with its count.                                      *)
LEMMA OtherStepsIInv ==
    ASSUME IInv, \/ \E c \in Calls : Abandon(c)
                 \/ \E k \in Keys : Reset(k)
                 \/ Tick
    PROVE  IInv'
<1> USE DEF IInv
<1>1. ASSUME NEW c \in Calls, Abandon(c) PROVE IInv'
  BY <1>1 DEF Abandon, TypeOK, Counts, Live
<1>2. ASSUME NEW k \in Keys, Reset(k) PROVE IInv'
  <2>1. TypeOK'
    BY <1>2, BreakerAssumption DEF Reset, TypeOK
  <2>2. NoEntry.state = "none"
    BY DEF NoEntry
  <2>3. \A q \in Keys : Counts(q)'
    BY <1>2, <2>2 DEF Reset, TypeOK, Counts, Live
  <2> QED
    BY <2>1, <2>3
<1>3. CASE Tick
  <2> DEFINE older(e) == [e EXCEPT !.openAge = Capped(@ + 1, OpenDuration),
                                   !.idle = Capped(@ + 1, IdleCutoff + 1)]
  <2>1. ASSUME NEW e \in Entry
        PROVE  /\ older(e) \in Entry /\ older(e).state = e.state
               /\ older(e).failures = e.failures
               /\ e.openAge = OpenDuration => older(e).openAge = OpenDuration
    <3> DEFINE a == Capped(e.openAge + 1, OpenDuration)
               i == Capped(e.idle + 1, IdleCutoff + 1)
    <3>1. /\ a \in 0 .. OpenDuration /\ i \in 0 .. IdleCutoff + 1
          /\ e.openAge = OpenDuration => a = OpenDuration
      BY BreakerAssumption DEF Entry, Capped
    <3>2. older(e) = [e EXCEPT !.openAge = a, !.idle = i]
      OBVIOUS
    <3> HIDE DEF a, i, older
    <3>3. older(e) \in Entry
      BY <3>1, <3>2 DEF Entry
    <3>4. older(e).state = e.state /\ older(e).failures = e.failures /\ older(e).openAge = a
      BY <3>2 DEF Entry
    <3> QED
      BY <3>1, <3>3, <3>4
  <2>2. \A q \in Keys : entry'[q] = IF Live(q) THEN older(entry[q]) ELSE NoEntry
    BY <1>3 DEF Tick
  <2> HIDE DEF older
  <2>3. \A q \in Keys : Live(q) => entry[q] \in Entry
    BY DEF TypeOK, Live
  <2>4. entry' \in [Keys -> Entry \cup {NoEntry}]
    <3>1. DOMAIN entry' = Keys /\ entry' = [q \in Keys |-> entry'[q]]
      BY <1>3 DEF Tick
    <3> QED
      BY <2>1, <2>2, <2>3, <3>1
  <2>5. NoEntry \notin Entry /\ NoEntry.state = "none"
    BY DEF Entry, NoEntry
  <2>6. \A q \in Keys : Counts(q)'
    <3> SUFFICES ASSUME NEW q \in Keys PROVE Counts(q)'
      OBVIOUS
    <3>1. streak'[q] = streak[q]
      BY <1>3 DEF Tick
    <3>2. CASE Live(q)
      <4>1. entry'[q] = older(entry[q]) /\ entry'[q] \in Entry
        BY <2>1, <2>2, <2>3, <3>2
      <4>2. Live(q)'
        BY <2>5, <4>1 DEF Live
      <4> QED
        BY <2>1, <2>3, <3>1, <3>2, <4>1, <4>2 DEF Counts
    <3>3. CASE ~Live(q)
      BY <2>2, <2>5, <3>1, <3>3 DEF Counts, Live
    <3> QED
      BY <3>2, <3>3
  <2> QED
    BY <1>3, <2>4, <2>6 DEF Tick, TypeOK
<1> QED
  BY <1>1, <1>2, <1>3

(* Every step of the breaker preserves the invariant. *)
LEMMA StepIInv == IInv /\ [Next]_vars => IInv'
<1> SUFFICES ASSUME IInv, [Next]_vars PROVE IInv'
  OBVIOUS
<1>1. CASE UNCHANGED vars
  BY <1>1 DEF vars, IInv, TypeOK, Counts, Live
<1> QED
  BY <1>1, AllowIInv, RecordIInv, OtherStepsIInv DEF Next

(* The invariant holds in every reachable state. *)
LEMMA Invariance == Spec => []IInv
<1>1. IInv /\ [Next]_vars => IInv'
  BY StepIInv
<1> QED
  BY <1>1, InitIInv, PTL DEF Spec

-----------------------------------------------------------------------------
(* The breaker's state keeps its types. *)
THEOREM TypeCorrect == Spec => []TypeOK
<1>1. IInv => TypeOK
  BY DEF IInv
<1> QED
  BY <1>1, Invariance, PTL

(* Breaker.Record: FailureThreshold failures in a row leave the circuit    *)
(* open or probing, however the calls they belong to were interleaved.     *)
THEOREM ThresholdTrips == Spec => []TripsOnThreshold
<1>1. IInv => TripsOnThreshold
  BY BreakerAssumption DEF IInv, TypeOK, Counts, Live, Entry, TripsOnThreshold
<1> QED
  BY <1>1, Invariance, PTL

(* Breaker.Allow: a circuit probes only after the whole cooldown. *)
THEOREM CooldownIsWaitedFor == Spec => []ProbesAfterCooldown
<1>1. IInv => ProbesAfterCooldown
  BY DEF IInv, Counts, ProbesAfterCooldown
<1> QED
  BY <1>1, Invariance, PTL

-----------------------------------------------------------------------------
(* The entry a method works on is closed when the map has a closed one or  *)
(* none.                                                                   *)
LEMMA EntryOfClosed ==
    ASSUME IInv, NEW k \in Keys, entry[k].state \in {"closed", "none"}
    PROVE  EntryOf(k).state = "closed"
<1>1. FreshEntry.state = "closed"
  BY DEF FreshEntry
<1>2. Live(k) => entry[k] \in Entry
  BY DEF IInv, TypeOK, Live
<1>3. Live(k) => entry[k].state # "none"
  BY <1>2 DEF Entry
<1> QED
  BY <1>1, <1>3 DEF EntryOf

(* What a method may do to the state of an entry that was closed: nothing, *)
(* unless a failure filled the row of reports.                             *)
LEMMA OpensOnStreakStep ==
    ASSUME IInv, [Next]_vars, NEW k \in Keys,
           entry[k].state \in {"closed", "none"}, entry'[k].state = "open"
    PROVE  streak'[k] = FailureThreshold
<1>1. NoEntry.state = "none" /\ entry \in [Keys -> Entry \cup {NoEntry}]
  BY DEF NoEntry, IInv, TypeOK
<1>2. /\ EntryOf(k) \in Entry /\ EntryOf(k).state = "closed"
      /\ EntryOf(k).failures = streak[k] /\ streak[k] < FailureThreshold
  BY EntryOfCounts, EntryOfClosed
<1>3. ASSUME NEW q \in Keys, NEW e \in Entry, entry' = Store(q, e)
      PROVE  q = k /\ e.state = "open" /\ entry'[k] # NoEntry
  <2> DEFINE stamped == [e EXCEPT !.idle = 0]
  <2>1. stamped.state = e.state
    BY DEF Entry
  <2> HIDE DEF stamped
  <2>2. /\ entry'[q] \in {stamped, NoEntry}
        /\ \A r \in Keys \ {q} : entry'[r] \in {entry[r], NoEntry}
    BY <1>1, <1>3, StoreFields DEF stamped
  <2> QED
    BY <1>1, <2>1, <2>2
<1>4. ASSUME NEW c \in Calls, NEW q \in Keys, Allow(c, q) PROVE FALSE
  <2> DEFINE e == EntryOf(q)
             shed == e.state = "open" /\ e.openAge < OpenDuration
             opened == [e EXCEPT !.state = "half-open", !.successes = 0]
             after == IF e.state = "open" /\ ~shed THEN opened ELSE e
  <2>1. entry' = Store(q, after)
    BY <1>4 DEF Allow
  <2>2. e \in Entry
    BY EntryOfCounts
  <2>3. opened \in Entry
    <3> HIDE DEF e
    <3>1. 0 \in 0 .. HalfOpenSuccesses
      BY BreakerAssumption
    <3> QED
      BY <2>2, <3>1 DEF Entry
  <2>4. after \in Entry
    BY <2>2, <2>3
  <2>5. q = k => after.state = "closed"
    BY <1>2
  <2> HIDE DEF after
  <2> QED
    BY <1>3, <2>1, <2>4, <2>5
<1>5. ASSUME NEW c \in Calls, NEW ok \in BOOLEAN, Record(c, ok)
      PROVE  streak'[k] = FailureThreshold
  <2> DEFINE q == out[c]
             n == IF ok THEN 0 ELSE Capped(streak[q] + 1, FailureThreshold)
             after == IF ok THEN AfterSuccess(EntryOf(q)) ELSE AfterFailure(EntryOf(q))
  <2>1. q \in Keys
    BY <1>5 DEF Record, IInv, TypeOK
  <2>2. entry' = Store(q, after) /\ CountReports(q, n)
    BY <1>5 DEF Record
  <2>3. EntryOf(q) \in Entry
    BY <2>1, EntryOfCounts
  <2>4. after \in Entry
    BY <2>3, AfterSuccessFields, AfterFailureFields
  <2>5. q = k /\ after.state = "open" /\ entry'[k] # NoEntry
    <3> HIDE DEF after
    <3> QED
      BY <1>3, <2>1, <2>2, <2>4
  <2>6. ~ok
    BY <1>2, <2>5, AfterSuccessFields
  <2>7. streak[k] + 1 >= FailureThreshold
    BY <1>2, <2>5, <2>6, AfterFailureFields
  <2>8. n = FailureThreshold
    BY <1>2, <2>5, <2>6, <2>7, BreakerAssumption DEF Capped, IInv, TypeOK
  <2>9. streak'[k] = n
    <3> HIDE DEF n
    <3> QED
      BY <2>2, <2>5 DEF CountReports
  <2> QED
    BY <2>8, <2>9
<1>6. ASSUME \/ \E c \in Calls : Abandon(c)
             \/ \E q \in Keys : Reset(q)
             \/ UNCHANGED vars
      PROVE  FALSE
  BY <1>1, <1>6 DEF Abandon, Reset, vars
<1>7. ASSUME Tick PROVE FALSE
  <2>1. CASE Live(k)
    <3>1. entry[k] \in Entry
      BY <2>1 DEF IInv, TypeOK, Live
    <3>2. entry'[k].state = entry[k].state
      BY <1>7, <2>1, <3>1 DEF Tick, Entry
    <3> QED
      BY <3>2
  <2>2. CASE ~Live(k)
    BY <1>1, <1>7, <2>2 DEF Tick
  <2> QED
    BY <2>1, <2>2
<1> QED
  BY <1>4, <1>5, <1>6, <1>7 DEF Next

(* Breaker.Record: a closed circuit opens only on FailureThreshold failures *)
(* in a row, for every interleaving of the calls they belong to.           *)
THEOREM OpensOnStreak == Spec => OpensOnlyOnStreak
<1> DEFINE Opens == \A k \in Keys :
        entry[k].state \in {"closed", "none"} /\ entry'[k].state = "open"
            => streak'[k] = FailureThreshold
<1>1. IInv /\ [Next]_vars => [Opens]_vars
  BY OpensOnStreakStep
<1>2. Spec => []IInv /\ [][Next]_vars
  BY Invariance, PTL DEF Spec
<1>3. Spec => [][Opens]_vars
  <2> HIDE DEF Opens
  <2> QED
    BY <1>1, <1>2, PTL
<1> QED
  BY <1>3 DEF OpensOnlyOnStreak

(* The step of an entry that leaves the map while its circuit is not       *)
(* closed is a Reset of its key.                                           *)
LEMMA OutageGoesByReset ==
    ASSUME IInv, [Next]_vars, NEW k \in Keys,
           entry[k].state \in {"open", "half-open"}, entry'[k] = NoEntry
    PROVE  Reset(k)
<1>1. Live(k) /\ NoEntry \notin Entry /\ entry \in [Keys -> Entry \cup {NoEntry}]
  BY DEF Live, NoEntry, Entry, IInv, TypeOK
<1>2. ASSUME NEW q \in Keys, NEW e \in Entry, entry' = Store(q, e) PROVE FALSE
  <2> DEFINE stamped == [e EXCEPT !.idle = 0]
  <2>1. stamped \in Entry
    BY BreakerAssumption DEF Entry
  <2>2. /\ Live(q) => entry'[q] = stamped
        /\ \A r \in Keys \ {q} : entry[r].state # "closed" => entry'[r] = entry[r]
    BY <1>1, <1>2, StoreFields
  <2> HIDE DEF stamped
  <2> QED
    BY <1>1, <2>1, <2>2 DEF Live
<1>3. ASSUME NEW c \in Calls, NEW q \in Keys, Allow(c, q) PROVE FALSE
  <2> DEFINE e == EntryOf(q)
             shed == e.state = "open" /\ e.openAge < OpenDuration
             opened == [e EXCEPT !.state = "half-open", !.successes = 0]
             after == IF e.state = "open" /\ ~shed THEN opened ELSE e
  <2>1. entry' = Store(q, after)
    BY <1>3 DEF Allow
  <2>2. e \in Entry
    BY EntryOfCounts
  <2>3. after \in Entry
    <3> HIDE DEF e
    <3>1. 0 \in 0 .. HalfOpenSuccesses
      BY BreakerAssumption
    <3>2. opened \in Entry
      BY <2>2, <3>1 DEF Entry
    <3> HIDE DEF opened
    <3> QED
      BY <2>2, <3>2
  <2> HIDE DEF after
  <2> QED
    BY <1>2, <2>1, <2>3
<1>4. ASSUME NEW c \in Calls, NEW ok \in BOOLEAN, Record(c, ok) PROVE FALSE
  <2> DEFINE q == out[c]
             after == IF ok THEN AfterSuccess(EntryOf(q)) ELSE AfterFailure(EntryOf(q))
  <2>1. q \in Keys
    BY <1>4 DEF Record, IInv, TypeOK
  <2>2. entry' = Store(q, after)
    BY <1>4 DEF Record
  <2>3. after \in Entry
    BY <2>1, EntryOfCounts, AfterSuccessFields, AfterFailureFields
  <2> HIDE DEF after
  <2> QED
    BY <1>2, <2>1, <2>2, <2>3
<1>5. ASSUME \/ \E c \in Calls : Abandon(c)
             \/ UNCHANGED vars
      PROVE  FALSE
  BY <1>1, <1>5 DEF Abandon, vars, Live
<1>6. ASSUME Tick PROVE FALSE
  <2>1. entry[k] \in Entry
    BY <1>1 DEF Live
  <2>2. entry'[k].state = entry[k].state
    BY <1>1, <1>6, <2>1 DEF Tick, Entry
  <2> QED
    BY <2>2 DEF NoEntry
<1>7. ASSUME NEW q \in Keys, Reset(q) PROVE q = k
  BY <1>1, <1>7 DEF Reset, Live
<1> QED
  BY <1>3, <1>4, <1>5, <1>6, <1>7 DEF Next

(* Breaker.sweepLocked: an open or half-open entry leaves the map only     *)
(* when its instance is reconfigured, however full the map is.             *)
THEOREM OutagesAreKept == Spec => SweepKeepsOutages
<1> DEFINE Keeps == \A k \in Keys :
        entry[k].state \in {"open", "half-open"} /\ entry'[k] = NoEntry => Reset(k)
<1>1. IInv /\ [Next]_vars => [Keeps]_vars
  BY OutageGoesByReset
<1>2. Spec => []IInv /\ [][Next]_vars
  BY Invariance, PTL DEF Spec
<1>3. Spec => [][Keeps]_vars
  <2> HIDE DEF Keeps
  <2> QED
    BY <1>1, <1>2, PTL
<1> QED
  BY <1>3 DEF SweepKeepsOutages
=============================================================================
