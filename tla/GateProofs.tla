---------------------------- MODULE GateProofs ----------------------------
(* Proofs about the concurrency gate, for every set of keys, finite set of *)
(* calls and set of limits.                                                *)
EXTENDS Gate, FiniteSetTheorems, TLAPS

(* An idle call references no channel, a waiting one always does, and one  *)
(* that is in a key's queue has made the key's history non-empty.          *)
SlotsWellFormed ==
    \A c \in Calls :
        /\ slot[c].st = "idle" => slot[c].chan = NoChan
        /\ slot[c].st = "waiting" => slot[c].chan # NoChan
        /\ slot[c].st # "idle" => /\ slot[c].key \in Keys
                                  /\ asked[slot[c].key] # {}
                                  /\ slot[c].chan = NoChan => 0 \in asked[slot[c].key]

(* A live channel counts its holders and never overflows. *)
LiveChannel(n) ==
    /\ chans[n].len = Cardinality(Holders(n))
    /\ chans[n].len <= chans[n].cap

Accounting == \A n \in Chans : Current(n) \/ Referenced(n) => LiveChannel(n)

(* The map's channel has a limit somebody asked for, and while only one    *)
(* limit was ever asked for, every call of the key is on the map's channel. *)
Ownership ==
    /\ \A k \in Keys : sems[k] # NoChan =>
            chans[sems[k]].cap \in asked[k] /\ chans[sems[k]].cap # 0
    /\ \A c \in Calls : slot[c].st # "idle" /\ slot[c].chan # NoChan =>
            \A max \in Limits :
                asked[slot[c].key] = {max} => sems[slot[c].key] = slot[c].chan

IInv == TypeOK /\ SlotsWellFormed /\ Accounting /\ Ownership

-----------------------------------------------------------------------------
(* The holders of a channel are a finite set. *)
LEMMA HoldersFinite ==
    ASSUME NEW n
    PROVE  IsFiniteSet(Holders(n)) /\ Cardinality(Holders(n)) \in Nat
BY GateAssumption, FS_Subset, FS_CardinalityType DEF Holders

(* The initial state satisfies the invariant. *)
LEMMA InitIInv == Init => IInv
<1> SUFFICES ASSUME Init PROVE IInv
  OBVIOUS
<1> USE GateAssumption DEF Init
<1>0. \A c \in Calls : slot[c] = IdleSlot
  OBVIOUS
<1>1. TypeOK
  <2>1. sems \in [Keys -> Chans \cup {NoChan}] /\ chans \in [Chans -> Channel]
    BY DEF Channel
  <2>2. IdleSlot \in Slot
    BY DEF Slot, IdleSlot
  <2>3. slot \in [Calls -> Slot]
    BY <2>2
  <2>4. asked \in [Keys -> SUBSET Limits]
    OBVIOUS
  <2> QED
    BY <2>1, <2>3, <2>4 DEF TypeOK
<1>2. SlotsWellFormed /\ Ownership
  BY <1>0 DEF SlotsWellFormed, Ownership, IdleSlot
<1>3. Accounting
  BY <1>0 DEF Accounting, Current, Referenced, IdleSlot
<1> QED
  BY <1>1, <1>2, <1>3 DEF IInv

(* Joining a queue takes no slot: the holders of every live channel stay   *)
(* what they were, and a fresh channel has none.                           *)
LEMMA RequestIInv ==
    ASSUME IInv, NEW c \in Calls, NEW k \in Keys, NEW max \in Limits, Request(c, k, max)
    PROVE  IInv'
<1> USE GateAssumption DEF IInv
<1> DEFINE Queued(st, n) == [st |-> st, key |-> k, chan |-> n]
<1>0. /\ \/ max = 0 /\ slot' = [slot EXCEPT ![c] = Queued("holding", NoChan)]
         \/ \E n \in Chans : slot' = [slot EXCEPT ![c] = Queued("waiting", n)]
      /\ asked' = [asked EXCEPT ![k] = @ \cup {max}]
  BY DEF Request, Sem, HasChannel, TypeOK
<1>1. TypeOK'
  <2>1. slot' \in [Calls -> Slot]
    <3>1. Queued("holding", NoChan) \in Slot
      BY DEF Slot
    <3>2. \A n \in Chans : Queued("waiting", n) \in Slot
      BY DEF Slot
    <3>3. slot \in [Calls -> Slot]
      BY DEF TypeOK
    <3> HIDE DEF Queued
    <3>4. \/ slot' = [slot EXCEPT ![c] = Queued("holding", NoChan)]
          \/ \E n \in Chans : slot' = [slot EXCEPT ![c] = Queued("waiting", n)]
      BY <1>0
    <3> QED
      BY <3>1, <3>2, <3>3, <3>4
  <2>2. sems' \in [Keys -> Chans \cup {NoChan}] /\ chans' \in [Chans -> Channel]
    BY DEF TypeOK, Request, Sem, Channel
  <2>3. asked' \in [Keys -> SUBSET Limits]
    BY <1>0 DEF TypeOK
  <2> QED
    BY <2>1, <2>2, <2>3 DEF TypeOK
<1>2. SlotsWellFormed'
  <2> SUFFICES ASSUME NEW d \in Calls PROVE SlotsWellFormed!(d)'
    BY DEF SlotsWellFormed
  <2>1. CASE d = c
    <3>1. max \in asked'[k]
      BY <1>0 DEF TypeOK
    <3>2. CASE max = 0 /\ slot' = [slot EXCEPT ![c] = Queued("holding", NoChan)]
      <4>1. slot'[d] = Queued("holding", NoChan)
        BY <2>1, <3>2 DEF TypeOK
      <4> QED
        BY <3>1, <3>2, <4>1
    <3>3. ASSUME NEW n \in Chans, slot' = [slot EXCEPT ![c] = Queued("waiting", n)]
          PROVE  SlotsWellFormed!(d)'
      <4>1. slot'[d] = Queued("waiting", n)
        BY <2>1, <3>3 DEF TypeOK
      <4> QED
        BY <3>1, <4>1
    <3> QED
      BY <1>0, <3>2, <3>3
  <2>2. CASE d # c
    <3>1. slot'[d] = slot[d]
      BY <1>0, <2>2 DEF TypeOK
    <3>2. \A q \in Keys : asked[q] \subseteq asked'[q]
      BY <1>0 DEF TypeOK
    <3> QED
      BY <3>1, <3>2 DEF SlotsWellFormed
  <2> QED
    BY <2>1, <2>2
<1>3. Accounting'
  <2> SUFFICES ASSUME NEW n \in Chans, (Current(n) \/ Referenced(n))'
               PROVE  LiveChannel(n)'
    BY DEF Accounting
  <2>1. CASE Current(n) \/ Referenced(n)
    <3>1. Holders(n)' = Holders(n)
      <4>1. ASSUME NEW d \in Calls
            PROVE  (slot'[d].st = "holding" /\ slot'[d].chan = n)
                      <=> (slot[d].st = "holding" /\ slot[d].chan = n)
        <5>1. CASE d = c
          BY <1>0, <5>1 DEF Request, TypeOK
        <5>2. CASE d # c
          BY <1>0, <5>2 DEF TypeOK
        <5> QED
          BY <5>1, <5>2
      <4> QED
        BY <4>1 DEF Holders
    <3>2. chans'[n] = chans[n]
      BY <2>1 DEF Request, Sem, TypeOK
    <3> QED
      BY <2>1, <3>1, <3>2 DEF Accounting, LiveChannel
  <2>2. CASE ~(Current(n) \/ Referenced(n))
    <3>1. Holders(n)' = {}
      BY <2>2 DEF Holders, Request, Sem, TypeOK, Slot, Referenced
    <3>2. chans'[n] = [cap |-> max, len |-> 0]
      BY <2>2 DEF Current, Referenced, Request, Sem, TypeOK, HasChannel
    <3> QED
      BY <3>1, <3>2, FS_EmptySet DEF LiveChannel
  <2> QED
    BY <2>1, <2>2
<1>4. Ownership'
  <2>1. ASSUME NEW q \in Keys, sems'[q] # NoChan
        PROVE  chans'[sems'[q]].cap \in asked'[q] /\ chans'[sems'[q]].cap # 0
    BY <2>1 DEF Ownership, Request, Sem, HasChannel, TypeOK, Current, Channel
  <2>2. ASSUME NEW d \in Calls, slot'[d].st # "idle", slot'[d].chan # NoChan,
               NEW m \in Limits, asked'[slot'[d].key] = {m}
        PROVE  sems'[slot'[d].key] = slot'[d].chan
    <3>1. CASE d = c
      BY <2>2, <3>1 DEF Request, Sem, HasChannel, TypeOK
    <3>2. CASE d # c
      <4>1. slot'[d] = slot[d]
        BY <3>2 DEF Request, Sem, TypeOK
      <4>2. asked[slot[d].key] = {m}
        BY <2>2, <4>1 DEF Request, TypeOK, SlotsWellFormed
      <4>3. sems[slot[d].key] = slot[d].chan
        BY <2>2, <4>1, <4>2 DEF Ownership
      <4>4. slot[d].key = k => max = m
        BY <2>2, <4>1 DEF Request, TypeOK
      <4>5. slot[d].key = k => sems'[k] = sems[k]
        BY <2>2, <4>1, <4>2, <4>3, <4>4 DEF Request, Sem, HasChannel, Ownership, TypeOK
      <4>6. slot[d].key \in Keys
        BY <2>2, <4>1 DEF SlotsWellFormed
      <4>7. slot[d].key # k => sems'[slot[d].key] = sems[slot[d].key]
        BY <4>6 DEF Request, Sem, TypeOK
      <4> QED
        BY <4>1, <4>3, <4>5, <4>7
    <3> QED
      BY <3>1, <3>2
  <2> QED
    BY <2>1, <2>2 DEF Ownership
<1> QED
  BY <1>1, <1>2, <1>3, <1>4
(* A successful send adds its call to the holders of its own channel. *)
LEMMA TakeSlotIInv ==
    ASSUME IInv, NEW c \in Calls, TakeSlot(c)
    PROVE  IInv'
<1> USE GateAssumption DEF IInv
<1> DEFINE own == slot[c].chan
<1>0. /\ slot[c].st = "waiting" /\ own \in Chans
      /\ slot' = [slot EXCEPT ![c].st = "holding"]
      /\ chans' = [chans EXCEPT ![own].len = @ + 1]
      /\ sems' = sems /\ asked' = asked
  BY DEF TakeSlot, SlotsWellFormed, TypeOK, Slot
<1>1. \A d \in Calls : /\ slot'[d].key = slot[d].key /\ slot'[d].chan = slot[d].chan
                       /\ d # c => slot'[d].st = slot[d].st
                       /\ d = c => slot'[d].st = "holding"
  BY <1>0 DEF TypeOK, Slot
<1>2. TypeOK'
  <2>1. slot' \in [Calls -> Slot]
    BY <1>0 DEF TypeOK, Slot
  <2>2. chans' \in [Chans -> Channel]
    BY <1>0 DEF TypeOK, Channel
  <2> QED
    BY <1>0, <2>1, <2>2 DEF TypeOK
<1>3. SlotsWellFormed'
  BY <1>0, <1>1 DEF SlotsWellFormed
<1>4. Accounting'
  <2> SUFFICES ASSUME NEW n \in Chans, (Current(n) \/ Referenced(n))'
               PROVE  LiveChannel(n)'
    BY DEF Accounting
  <2>1. LiveChannel(n)
    BY <1>0, <1>1 DEF Accounting, Current, Referenced
  <2>2. CASE n = own
    <3>1. Holders(n)' = Holders(n) \cup {c} /\ c \notin Holders(n)
      BY <1>0, <1>1, <2>2 DEF Holders
    <3>2. chans'[n].len = chans[n].len + 1 /\ chans'[n].cap = chans[n].cap
      BY <1>0, <2>2 DEF TypeOK, Channel
    <3>3. chans[n].len < chans[n].cap
      BY <2>2 DEF TakeSlot
    <3>4. chans[n].len \in Nat /\ chans[n].cap \in Nat
      BY DEF TypeOK, Channel
    <3>5. Cardinality(Holders(n) \cup {c}) = Cardinality(Holders(n)) + 1
      BY <3>1, HoldersFinite, FS_AddElement
    <3> QED
      BY <2>1, <3>1, <3>2, <3>3, <3>4, <3>5 DEF LiveChannel
  <2>3. CASE n # own
    <3>1. Holders(n)' = Holders(n)
      BY <1>0, <1>1, <2>3 DEF Holders
    <3>2. chans'[n] = chans[n]
      BY <1>0, <2>3 DEF TypeOK
    <3> QED
      BY <2>1, <3>1, <3>2 DEF LiveChannel
  <2> QED
    BY <2>2, <2>3
<1>5. Ownership'
  <2>1. \A n \in Chans : chans'[n].cap = chans[n].cap
    BY <1>0 DEF TypeOK, Channel
  <2> QED
    BY <1>0, <1>1, <2>1 DEF Ownership, TypeOK
<1> QED
  BY <1>2, <1>3, <1>4, <1>5

(* Going back to idle removes a call from the holders of its channel and   *)
(* from no other: GiveUp held nothing, Release gives back what it holds.   *)
LEMMA LeaveIInv ==
    ASSUME IInv, NEW c \in Calls, GiveUp(c) \/ Release(c)
    PROVE  IInv'
<1> USE GateAssumption DEF IInv
<1> DEFINE own == slot[c].chan
<1>0. /\ slot' = [slot EXCEPT ![c] = IdleSlot]
      /\ sems' = sems /\ asked' = asked
  BY DEF GiveUp, Release
<1>1. \A n \in Chans : chans'[n].cap = chans[n].cap
  BY DEF GiveUp, Release, TypeOK, Channel
<1>2. \A d \in Calls \ {c} : slot'[d] = slot[d]
  BY <1>0 DEF TypeOK
<1>3. slot'[c] = IdleSlot
  BY <1>0 DEF TypeOK
<1>4. SlotsWellFormed'
  BY <1>0, <1>2, <1>3 DEF SlotsWellFormed, IdleSlot
<1>5. Ownership'
  <2>1. ASSUME NEW k \in Keys, sems'[k] # NoChan
        PROVE  chans'[sems'[k]].cap \in asked'[k] /\ chans'[sems'[k]].cap # 0
    BY <2>1, <1>0, <1>1 DEF Ownership, TypeOK
  <2>2. ASSUME NEW d \in Calls, slot'[d].st # "idle", slot'[d].chan # NoChan,
               NEW m \in Limits, asked'[slot'[d].key] = {m}
        PROVE  sems'[slot'[d].key] = slot'[d].chan
    <3>1. d # c
      BY <1>3, <2>2 DEF IdleSlot
    <3> QED
      BY <1>0, <1>2, <2>2, <3>1 DEF Ownership
  <2> QED
    BY <2>1, <2>2 DEF Ownership
<1>6. Accounting'
  <2> SUFFICES ASSUME NEW n \in Chans, (Current(n) \/ Referenced(n))'
               PROVE  LiveChannel(n)'
    BY DEF Accounting
  <2>1. LiveChannel(n)
    BY <1>0, <1>2, <1>3 DEF Accounting, Current, Referenced, IdleSlot
  <2>2. chans[n].len \in Nat /\ chans[n].cap \in Nat
    BY DEF TypeOK, Channel
  <2>3. CASE slot[c].st = "holding" /\ n = own
    <3>1. Holders(n)' = Holders(n) \ {c} /\ c \in Holders(n)
      BY <1>2, <1>3, <2>3 DEF Holders, IdleSlot
    <3>2. chans'[n].len = chans[n].len - 1
      BY <2>2, <2>3 DEF GiveUp, Release, TypeOK, Channel
    <3>3. Cardinality(Holders(n) \ {c}) = Cardinality(Holders(n)) - 1
      BY <3>1, HoldersFinite, FS_RemoveElement
    <3> QED
      BY <1>1, <2>1, <2>2, <3>1, <3>2, <3>3 DEF LiveChannel
  <2>4. CASE ~(slot[c].st = "holding" /\ n = own)
    <3>1. Holders(n)' = Holders(n)
      BY <1>2, <1>3, <2>4 DEF Holders, IdleSlot
    <3>2. chans'[n] = chans[n]
      BY <2>4 DEF GiveUp, Release, TypeOK
    <3> QED
      BY <2>1, <3>1, <3>2 DEF LiveChannel
  <2> QED
    BY <2>3, <2>4
<1>7. TypeOK'
  <2>1. IdleSlot \in Slot
    BY DEF IdleSlot, Slot
  <2>2. slot' \in [Calls -> Slot]
    BY <1>0, <2>1 DEF TypeOK
  <2>3. chans' \in [Chans -> Channel]
    <3>1. CASE chans' = chans
      BY <3>1 DEF TypeOK
    <3>2. CASE chans' # chans
      <4>1. own \in Chans /\ slot[c].st = "holding"
        BY <3>2 DEF GiveUp, Release, TypeOK, Slot
      <4>2. chans[own].len = Cardinality(Holders(own)) /\ c \in Holders(own)
        BY <4>1 DEF Accounting, Referenced, LiveChannel, Holders
      <4>3. Cardinality(Holders(own)) # 0
        BY <4>2, HoldersFinite, FS_EmptySet
      <4>4. chans[own].len - 1 \in Nat
        BY <4>1, <4>2, <4>3, HoldersFinite
      <4>5. chans' = [chans EXCEPT ![own].len = @ - 1]
        BY <3>2 DEF GiveUp, Release
      <4> QED
        BY <4>1, <4>4, <4>5 DEF TypeOK, Channel
    <3> QED
      BY <3>1, <3>2
  <2> QED
    BY <1>0, <2>2, <2>3 DEF TypeOK
<1> QED
  BY <1>4, <1>5, <1>6, <1>7

(* Every step of the gate preserves the invariant. *)
LEMMA StepIInv == IInv /\ [Next]_vars => IInv'
<1> SUFFICES ASSUME IInv, [Next]_vars PROVE IInv'
  OBVIOUS
<1>1. ASSUME NEW c \in Calls, NEW k \in Keys, NEW max \in Limits, Request(c, k, max)
      PROVE  IInv'
  BY <1>1, RequestIInv
<1>2. ASSUME NEW c \in Calls, TakeSlot(c)
      PROVE  IInv'
  BY <1>2, TakeSlotIInv
<1>3. ASSUME NEW c \in Calls, GiveUp(c) \/ Release(c)
      PROVE  IInv'
  BY <1>3, LeaveIInv
<1>4. CASE UNCHANGED vars
  BY <1>4 DEF vars, IInv, TypeOK, SlotsWellFormed, Accounting, Ownership, LiveChannel,
              Current, Referenced, Holders
<1> QED
  BY <1>1, <1>2, <1>3, <1>4 DEF Next

(* The invariant holds in every reachable state. *)
LEMMA Invariance == Spec => []IInv
BY InitIInv, StepIInv, PTL DEF Spec

-----------------------------------------------------------------------------
(* The gate's state keeps its types: in particular no release drives the   *)
(* fill of a channel below zero.                                           *)
THEOREM TypeCorrect == Spec => []TypeOK
<1>1. IInv => TypeOK
  BY DEF IInv
<1> QED
  BY <1>1, Invariance, PTL

(* Gate.Acquire and its release keep the books: a live channel counts      *)
(* exactly the calls that hold one of its slots, across any number of      *)
(* replacements of the key's channel.                                      *)
THEOREM SlotsAreAccounted == Spec => []SlotsAccounted
<1>1. IInv => SlotsAccounted
  BY DEF IInv, Accounting, LiveChannel, SlotsAccounted
<1> QED
  BY <1>1, Invariance, PTL

(* The in-flight calls of a key that was only ever asked for one limit     *)
(* never exceed it.                                                        *)
THEOREM InFlightIsBounded == Spec => []BoundedInFlight
<1>1. IInv => BoundedInFlight
  <2> SUFFICES ASSUME IInv, NEW k \in Keys, NEW max \in Limits \ {0}, asked[k] = {max}
               PROVE  Cardinality(InFlight(k)) <= max
    BY DEF BoundedInFlight
  <2> USE GateAssumption DEF IInv
  <2>1. \A c \in InFlight(k) : slot[c].chan # NoChan /\ slot[c].chan = sems[k]
    <3> SUFFICES ASSUME NEW c \in InFlight(k)
                 PROVE  slot[c].chan # NoChan /\ slot[c].chan = sems[k]
      OBVIOUS
    <3>1. c \in Calls /\ slot[c].st = "holding" /\ slot[c].key = k
      BY DEF InFlight
    <3>2. slot[c].chan # NoChan
      BY <3>1 DEF SlotsWellFormed
    <3> QED
      BY <3>1, <3>2 DEF Ownership
  <2>2. CASE InFlight(k) = {}
    <3>1. Cardinality({}) = 0
      BY FS_EmptySet
    <3>2. max \in Nat
      OBVIOUS
    <3> QED
      BY <2>2, <3>1, <3>2
  <2>3. CASE InFlight(k) # {}
    <3>1. sems[k] \in Chans /\ chans[sems[k]].cap = max
      <4>1. sems[k] # NoChan
        BY <2>1, <2>3
      <4> QED
        BY <4>1 DEF Ownership, TypeOK
    <3>2. LiveChannel(sems[k])
      BY <3>1 DEF Accounting, Current
    <3>3. InFlight(k) \subseteq Holders(sems[k])
      BY <2>1 DEF InFlight, Holders
    <3>4. Cardinality(InFlight(k)) <= Cardinality(Holders(sems[k]))
      BY <3>3, HoldersFinite, FS_Subset
    <3>5. Cardinality(InFlight(k)) \in Nat
      BY <3>3, HoldersFinite, FS_Subset, FS_CardinalityType
    <3>6. chans[sems[k]].len <= max /\ chans[sems[k]].len = Cardinality(Holders(sems[k]))
      BY <3>1, <3>2 DEF LiveChannel
    <3>7. max \in Nat /\ Cardinality(Holders(sems[k])) \in Nat
      BY HoldersFinite
    <3> QED
      BY <3>4, <3>5, <3>6, <3>7
  <2> QED
    BY <2>2, <2>3
<1> QED
  BY <1>1, Invariance, PTL
=============================================================================
