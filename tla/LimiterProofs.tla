--------------------------- MODULE LimiterProofs ---------------------------
(* Proofs about the rate limiter, for every set of keys and budgets, every *)
(* length of a minute and every size of its map.                           *)
EXTENDS Limiter, TLAPS

(* A bucket holds at most a minute's budget, at a budget its callers bring *)
(* and the history knows.                                                  *)
Filled(k) ==
    Live(k) => /\ buckets[k].tokens <= buckets[k].capacity * Minute
               /\ buckets[k].capacity \in Rates[k]
               /\ buckets[k].capacity <= top[k]

(* Since its last refill, age ticks ago, a key was granted nothing; what   *)
(* it had been granted in a window up to then and what the bucket still    *)
(* holds come to no more than a window's budget.  A key without a bucket   *)
(* was granted nothing for a minute.                                       *)
Spent(k) ==
    \A w \in 0 .. Minute :
        /\ ~Live(k) \/ w < buckets[k].age => recent[k][w] = 0
        /\ Live(k) /\ w >= buckets[k].age =>
              recent[k][w] * Minute + buckets[k].tokens
                 <= top[k] * (Minute + (w - buckets[k].age))

IInv == TypeOK /\ \A k \in Keys : Filled(k) /\ Spent(k)

-----------------------------------------------------------------------------
(* Products of naturals, which the provers know little about. *)
LEMMA ProductGrows ==
    ASSUME NEW a \in Nat, NEW b \in Nat, NEW c \in Nat, a <= b
    PROVE  a * c \in Nat /\ b * c \in Nat /\ a * c <= b * c
<1>1. a * c \in Nat /\ b * c \in Nat
  OBVIOUS
<1>2. (b - a) * c >= 0
  OBVIOUS
<1>3. (b - a) * c = b * c - a * c
  OBVIOUS
<1> QED
  BY <1>1, <1>2, <1>3

(* A window's budget pays for what it has granted, and what flows in. *)
LEMMA WindowPays ==
    ASSUME NEW t \in Nat, NEW u \in Nat, NEW r \in Nat, NEW m \in Nat,
           NEW w \in Nat, NEW a \in Nat, t <= u, r <= u, a <= w
    PROVE  /\ t * (m + (w - a)) + a * r <= u * (m + w)
           /\ r * m <= u * (m + w)
<1>1. t * (m + (w - a)) <= u * (m + (w - a))
  BY ProductGrows
<1>2. a * r <= a * u
  <2>1. r * a <= u * a
    BY ProductGrows
  <2> QED
    BY <2>1
<1>3. u * (m + w) = u * (m + (w - a)) + a * u
  OBVIOUS
<1>4. r * m <= u * m
  BY ProductGrows
<1>5. u * (m + w) = u * m + u * w /\ u * w \in Nat
  OBVIOUS
<1>6. /\ t * (m + (w - a)) \in Nat /\ u * (m + (w - a)) \in Nat
      /\ a * r \in Nat /\ a * u \in Nat /\ u * (m + w) \in Nat /\ r * m \in Nat /\ u * m \in Nat
  OBVIOUS
<1> QED
  BY <1>1, <1>2, <1>3, <1>4, <1>5, <1>6

LEMMA LesserIsBound ==
    ASSUME NEW a \in Nat, NEW b \in Nat
    PROVE  Lesser(a, b) \in Nat /\ Lesser(a, b) <= a /\ Lesser(a, b) <= b
BY DEF Lesser

-----------------------------------------------------------------------------
(* The tokens a call of k with this budget finds in the bucket. *)
Found(k, rate) ==
    IF Live(k) THEN Lesser(Lesser(buckets[k].tokens, rate * Minute) + buckets[k].age * rate,
                           rate * Minute)
    ELSE rate * Minute

(* What a call does: it pays when it can, its bucket is as of now, and     *)
(* other buckets stay or, when the map was swept, are gone.                *)
LEMMA AllowFields ==
    ASSUME TypeOK, NEW k \in Keys, NEW rate \in Rates[k], Allow(k, rate)
    PROVE  /\ rate \in Nat \ {0} /\ Found(k, rate) \in Nat /\ Found(k, rate) <= rate * Minute
           /\ buckets'[k] = [tokens |-> IF Found(k, rate) >= Minute THEN Found(k, rate) - Minute
                                        ELSE Found(k, rate),
                             capacity |-> rate, age |-> 0]
           /\ verdict' = [key |-> k, ok |-> Found(k, rate) >= Minute]
           /\ top' = [top EXCEPT ![k] = IF rate > top[k] THEN rate ELSE top[k]]
           /\ recent' = IF Found(k, rate) >= Minute
                        THEN [recent EXCEPT ![k] = [w \in 0 .. Minute |-> recent[k][w] + 1]]
                        ELSE recent
           /\ buckets' \in [Keys -> Bucket \cup {NoBucket}]
           /\ \A q \in Keys \ {k} :
                \/ buckets'[q] = buckets[q]
                \/ Live(q) /\ buckets[q].age > IdleCutoff /\ buckets'[q] = NoBucket
<1> USE LimiterAssumption DEF TypeOK
<1> DEFINE new == [tokens |-> rate * Minute, capacity |-> rate, age |-> 0]
           made == [buckets EXCEPT ![k] = new]
           swept == IF Live(k) THEN buckets ELSE Sweep(made)
           b == Refilled(Rescaled(IF Live(k) THEN buckets[k] ELSE new, rate))
           paid == IF b.tokens >= Minute THEN [b EXCEPT !.tokens = @ - Minute] ELSE b
<1>1. rate \in Nat \ {0} /\ rate * Minute \in Nat
  OBVIOUS
<1>2. new \in Bucket
  BY <1>1 DEF Bucket
<1>3. b = [tokens |-> Found(k, rate), capacity |-> rate, age |-> 0]
  <2>1. CASE Live(k)
    <3>1. buckets[k] \in Bucket
      BY <2>1 DEF Live
    <3>2. Rescaled(buckets[k], rate) = [tokens |-> Lesser(buckets[k].tokens, rate * Minute),
                                        capacity |-> rate, age |-> buckets[k].age]
      BY <3>1 DEF Rescaled, Bucket
    <3> QED
      BY <2>1, <3>2 DEF Refilled, Found
  <2>2. CASE ~Live(k)
    <3>1. Rescaled(new, rate) = [tokens |-> rate * Minute, capacity |-> rate, age |-> 0]
      BY <1>1 DEF Rescaled, Lesser
    <3>2. Refilled(Rescaled(new, rate)) =
            [tokens |-> Lesser(rate * Minute + 0 * rate, rate * Minute), capacity |-> rate, age |-> 0]
      BY <3>1 DEF Refilled
    <3>3. Lesser(rate * Minute + 0 * rate, rate * Minute) = rate * Minute
      BY <1>1 DEF Lesser
    <3> QED
      BY <2>2, <3>2, <3>3 DEF Found
  <2> QED
    BY <2>1, <2>2
<1>4. /\ swept \in [Keys -> Bucket \cup {NoBucket}]
      /\ \A q \in Keys \ {k} : swept[q] = buckets[q] \/
            (Live(q) /\ buckets[q].age > IdleCutoff /\ swept[q] = NoBucket)
  <2>1. /\ made \in [Keys -> Bucket \cup {NoBucket}]
        /\ \A q \in Keys \ {k} : made[q] = buckets[q]
    BY <1>2
  <2>2. /\ Sweep(made) \in [Keys -> Bucket \cup {NoBucket}]
        /\ \A q \in Keys : Sweep(made)[q] = made[q] \/
              (made[q] # NoBucket /\ made[q].age > IdleCutoff /\ Sweep(made)[q] = NoBucket)
    <3> HIDE DEF made
    <3>1. \/ Sweep(made) = made
          \/ Sweep(made) = [q \in Keys |-> IF made[q] # NoBucket /\ made[q].age > IdleCutoff
                                           THEN NoBucket ELSE made[q]]
      BY DEF Sweep
    <3> QED
      BY <2>1, <3>1
  <2> HIDE DEF made
  <2> QED
    BY <2>1, <2>2 DEF Live
<1>5. /\ buckets' = [swept EXCEPT ![k] = paid]
      /\ verdict' = [key |-> k, ok |-> b.tokens >= Minute]
      /\ top' = [top EXCEPT ![k] = IF rate > top[k] THEN rate ELSE top[k]]
      /\ recent' = IF b.tokens >= Minute
                   THEN [recent EXCEPT ![k] = [w \in 0 .. Minute |-> recent[k][w] + 1]]
                   ELSE recent
  BY DEF Allow
<1> QED
  <2> HIDE DEF b, swept
  <2>1. Found(k, rate) \in Nat /\ Found(k, rate) <= rate * Minute
    <3>1. Live(k) => buckets[k].tokens \in Nat /\ buckets[k].age \in Nat
      BY DEF Live, Bucket
    <3>2. Live(k) => Lesser(buckets[k].tokens, rate * Minute) + buckets[k].age * rate \in Nat
      <4>1. Live(k) => buckets[k].age * rate \in Nat
        BY <1>1, <3>1
      <4>2. Live(k) => Lesser(buckets[k].tokens, rate * Minute) \in Nat
        BY <1>1, <3>1, LesserIsBound
      <4> QED
        BY <4>1, <4>2
    <3> QED
      BY <1>1, <3>2 DEF Found, Lesser
  <2>2. paid = [tokens |-> IF Found(k, rate) >= Minute THEN Found(k, rate) - Minute
                           ELSE Found(k, rate),
                capacity |-> rate, age |-> 0]
    BY <1>3
  <2>3. paid \in Bucket
    BY <1>1, <2>1, <2>2 DEF Bucket
  <2> HIDE DEF paid
  <2> QED
    BY <1>1, <1>3, <1>4, <1>5, <2>1, <2>2, <2>3

-----------------------------------------------------------------------------
(* The initial state satisfies the invariant. *)
LEMMA InitIInv == Init => IInv
BY LimiterAssumption DEF Init, IInv, TypeOK, Filled, Spent, Live

(* A call spends what the window has room for. *)
LEMMA AllowIInv ==
    ASSUME IInv, NEW k \in Keys, NEW rate \in Rates[k], Allow(k, rate)
    PROVE  IInv'
<1> USE LimiterAssumption
<1> DEFINE found == Found(k, rate)
<1>0. TypeOK /\ Filled(k) /\ Spent(k)
  BY DEF IInv
<1>1. /\ rate \in Nat \ {0} /\ found \in Nat /\ found <= rate * Minute
      /\ buckets'[k] = [tokens |-> IF found >= Minute THEN found - Minute ELSE found,
                        capacity |-> rate, age |-> 0]
      /\ verdict' = [key |-> k, ok |-> found >= Minute]
      /\ top' = [top EXCEPT ![k] = IF rate > top[k] THEN rate ELSE top[k]]
      /\ recent' = IF found >= Minute
                   THEN [recent EXCEPT ![k] = [w \in 0 .. Minute |-> recent[k][w] + 1]]
                   ELSE recent
      /\ buckets' \in [Keys -> Bucket \cup {NoBucket}]
  BY <1>0, AllowFields
<1>2. \A q \in Keys \ {k} :
        \/ buckets'[q] = buckets[q]
        \/ Live(q) /\ buckets[q].age > IdleCutoff /\ buckets'[q] = NoBucket
  BY <1>0, AllowFields
<1>3. /\ rate <= top'[k] /\ top[k] <= top'[k] /\ top[k] \in Nat /\ top'[k] \in Nat
      /\ rate * Minute \in Nat
  BY <1>0, <1>1 DEF TypeOK
<1>4. /\ \A w \in 0 .. Minute : recent[k][w] \in Nat
      /\ \A w \in 0 .. Minute :
            recent'[k][w] = IF found >= Minute THEN recent[k][w] + 1 ELSE recent[k][w]
  BY <1>0, <1>1 DEF TypeOK
<1> HIDE DEF found
<1>5. TypeOK'
  <2>1. recent' \in [Keys -> [0 .. Minute -> Nat]]
    BY <1>0, <1>1, <1>4 DEF TypeOK
  <2>2. top' \in [Keys -> Nat]
    BY <1>0, <1>1 DEF TypeOK
  <2>3. verdict' \in [key : Keys, ok : BOOLEAN]
    BY <1>1
  <2> QED
    BY <1>1, <2>1, <2>2, <2>3 DEF TypeOK
<1>6. Filled(k)'
  BY <1>1, <1>3 DEF Filled
<1>7. Spent(k)'
  <2> SUFFICES ASSUME NEW w \in 0 .. Minute
               PROVE  recent'[k][w] * Minute + buckets'[k].tokens <= top'[k] * (Minute + w)
    BY <1>1 DEF Spent, Live, NoBucket
  <2>1. recent[k][w] * Minute + found <= top'[k] * (Minute + w)
    <3>1. CASE recent[k][w] = 0
      <4>1. rate * Minute <= top'[k] * (Minute + w) /\ top'[k] * (Minute + w) \in Nat
        BY <1>1, <1>3, WindowPays
      <4> QED
        BY <1>1, <1>3, <3>1, <4>1
    <3>2. CASE Live(k) /\ w >= buckets[k].age
      <4> DEFINE a == buckets[k].age
                 t == buckets[k].tokens
                 flowed == a * rate
                 spent == recent[k][w] * Minute
                 before == top[k] * (Minute + (w - a))
                 budget == top'[k] * (Minute + w)
      <4>1. w \in Nat /\ a \in Nat /\ t \in Nat /\ a <= w
        BY <1>0, <3>2 DEF TypeOK, Bucket, Live
      <4>2. spent + t <= before
        BY <1>0, <3>2 DEF Spent
      <4> HIDE DEF a
      <4>3. flowed \in Nat /\ spent \in Nat /\ before \in Nat /\ budget \in Nat
        BY <1>1, <1>3, <1>4, <4>1
      <4>4. before + flowed <= budget
        BY <1>1, <1>3, <4>1, WindowPays
      <4> HIDE DEF t, flowed
      <4>5. found <= t + flowed
        <5>1. Lesser(t, rate * Minute) \in Nat /\ Lesser(t, rate * Minute) <= t
          BY <1>3, <4>1, LesserIsBound
        <5>2. found = Lesser(Lesser(t, rate * Minute) + flowed, rate * Minute)
          BY <3>2 DEF found, Found, a, t, flowed
        <5>3. Lesser(t, rate * Minute) + flowed \in Nat
          BY <4>3, <5>1
        <5>4. found <= Lesser(t, rate * Minute) + flowed
          BY <1>3, <5>2, <5>3, LesserIsBound
        <5> QED
          BY <1>1, <4>1, <4>3, <5>1, <5>4
      <4> HIDE DEF spent, before, budget
      <4>6. spent + found <= budget
        BY <1>1, <4>1, <4>2, <4>3, <4>4, <4>5
      <4> QED
        BY <4>6 DEF spent, budget
    <3>3. Live(k) => w < buckets[k].age \/ w >= buckets[k].age
      BY <1>0 DEF TypeOK, Bucket, Live
    <3> QED
      BY <1>0, <3>1, <3>2, <3>3 DEF Spent
  <2>2. /\ recent[k][w] * Minute \in Nat /\ top'[k] * (Minute + w) \in Nat
        /\ (recent[k][w] + 1) * Minute = recent[k][w] * Minute + Minute
    BY <1>3, <1>4
  <2>3. CASE found >= Minute
    <3>1. recent'[k][w] * Minute = recent[k][w] * Minute + Minute
      BY <1>4, <2>2, <2>3
    <3>2. buckets'[k].tokens = found - Minute
      BY <1>1, <2>3
    <3> QED
      BY <1>1, <2>1, <2>2, <3>1, <3>2
  <2>4. CASE ~(found >= Minute)
    BY <1>1, <1>4, <2>1, <2>4
  <2> QED
    BY <2>3, <2>4
<1>8. ASSUME NEW q \in Keys \ {k}
      PROVE  Filled(q)' /\ Spent(q)'
  <2>1. recent'[q] = recent[q] /\ top'[q] = top[q]
    BY <1>0, <1>1 DEF TypeOK
  <2>2. Filled(q) /\ Spent(q)
    BY DEF IInv
  <2>3. CASE buckets'[q] = buckets[q]
    BY <2>1, <2>2, <2>3 DEF Filled, Spent, Live
  <2>4. CASE Live(q) /\ buckets[q].age > IdleCutoff /\ buckets'[q] = NoBucket
    <3>1. \A w \in 0 .. Minute : recent[q][w] = 0
      BY <1>0, <2>2, <2>4 DEF Spent, TypeOK, Bucket, Live
    <3> QED
      BY <2>1, <2>4, <3>1 DEF Filled, Spent, Live
  <2> QED
    BY <1>2, <2>3, <2>4
<1> QED
  BY <1>5, <1>6, <1>7, <1>8 DEF IInv

(* A tick moves the window on with the age of the bucket. *)
LEMMA TickIInv ==
    ASSUME IInv, Tick
    PROVE  IInv'
<1>0. TypeOK /\ \A k \in Keys : Filled(k) /\ Spent(k)
  BY DEF IInv
<1>1. ASSUME NEW k \in Keys, Live(k)
      PROVE  /\ buckets[k] \in Bucket
             /\ Lesser(buckets[k].age + 1, IdleCutoff + 1) \in 0 .. IdleCutoff + 1
             /\ buckets'[k] \in Bucket
             /\ buckets'[k].tokens = buckets[k].tokens
             /\ buckets'[k].capacity = buckets[k].capacity
             /\ buckets'[k].age = Lesser(buckets[k].age + 1, IdleCutoff + 1)
  <2>1. buckets[k] \in Bucket
    BY <1>0, <1>1 DEF TypeOK, Live
  <2>2. Lesser(buckets[k].age + 1, IdleCutoff + 1) \in 0 .. IdleCutoff + 1
    BY <2>1, LimiterAssumption DEF Bucket, Lesser
  <2>3. buckets'[k] = [buckets[k] EXCEPT !.age = Lesser(buckets[k].age + 1, IdleCutoff + 1)]
    BY <1>1 DEF Tick
  <2> QED
    BY <2>1, <2>2, <2>3 DEF Bucket
<1>2. \A k \in Keys : ~Live(k) => buckets'[k] = NoBucket
  BY DEF Tick
<1>3. ASSUME NEW k \in Keys
      PROVE  /\ recent'[k] \in [0 .. Minute -> Nat]
             /\ recent'[k][0] = 0
             /\ \A w \in 1 .. Minute : w - 1 \in 0 .. Minute /\ recent'[k][w] = recent[k][w - 1]
             /\ top'[k] = top[k]
  <2>1. recent[k] \in [0 .. Minute -> Nat]
    BY <1>0 DEF TypeOK
  <2>2. recent'[k] = [w \in 0 .. Minute |-> IF w = 0 THEN 0 ELSE recent[k][w - 1]] /\ top' = top
    BY DEF Tick
  <2>3. \A w \in 0 .. Minute : w = 0 \/ w - 1 \in 0 .. Minute
    BY LimiterAssumption
  <2> QED
    BY <2>1, <2>2, <2>3, LimiterAssumption
<1>4. TypeOK'
  <2>1. buckets' \in [Keys -> Bucket \cup {NoBucket}]
    BY <1>1, <1>2 DEF Tick
  <2>2. recent' \in [Keys -> [0 .. Minute -> Nat]]
    BY <1>3 DEF Tick
  <2> QED
    BY <1>0, <2>1, <2>2 DEF Tick, TypeOK
<1>5. ASSUME NEW k \in Keys
      PROVE  Filled(k)'
  BY <1>0, <1>1, <1>2, <1>3 DEF Filled, Live
<1>6. ASSUME NEW k \in Keys, NEW w \in 0 .. Minute
      PROVE  Spent(k)!(w)'
  <2> USE LimiterAssumption
  <2>1. CASE ~Live(k)
    <3>1. recent'[k][w] = 0
      <4>1. w = 0 \/ w \in 1 .. Minute
        OBVIOUS
      <4>2. \A v \in 0 .. Minute : recent[k][v] = 0
        BY <1>0, <2>1 DEF Spent
      <4> QED
        BY <1>3, <4>1, <4>2
    <3> QED
      BY <1>2, <2>1, <3>1 DEF Live
  <2>2. CASE Live(k)
    <3> DEFINE a == buckets[k].age
               b == buckets'[k].age
    <3>1. a \in 0 .. IdleCutoff + 1 /\ Live(k)' /\ b = Lesser(a + 1, IdleCutoff + 1)
      BY <1>1, <2>2 DEF Bucket, NoBucket, Live
    <3>2. /\ b \in 0 .. IdleCutoff + 1 /\ b > 0
          /\ a <= Minute => b = a + 1
          /\ a > Minute => b > Minute
      BY <3>1 DEF Lesser
    <3>3. CASE w < b
      <4>1. recent'[k][w] = 0
        <5>1. CASE w = 0
          BY <1>3, <5>1
        <5>2. CASE w # 0
          <6>1. w \in 1 .. Minute /\ w - 1 < a
            BY <3>1, <3>2, <3>3, <5>2
          <6>2. recent[k][w - 1] = 0
            BY <1>0, <1>3, <6>1 DEF Spent
          <6> QED
            BY <1>3, <6>1, <6>2
        <5> QED
          BY <5>1, <5>2
      <4> QED
        BY <3>1, <3>2, <3>3, <4>1
    <3>4. CASE w >= b
      <4>1. w \in 1 .. Minute /\ w - 1 >= a /\ w - b = (w - 1) - a
        BY <3>1, <3>2, <3>4
      <4>2. recent[k][w - 1] * Minute + buckets[k].tokens <= top[k] * (Minute + ((w - 1) - a))
        BY <1>0, <1>3, <2>2, <4>1 DEF Spent
      <4>3. recent'[k][w] * Minute + buckets'[k].tokens <= top'[k] * (Minute + (w - b))
        BY <1>1, <1>3, <2>2, <4>1, <4>2
      <4> QED
        BY <3>1, <3>2, <3>4, <4>3
    <3> QED
      BY <3>1, <3>2, <3>3, <3>4
  <2> QED
    BY <2>1, <2>2
<1> QED
  BY <1>4, <1>5, <1>6 DEF IInv, Spent

(* The invariant holds in every reachable state. *)
LEMMA Invariance == Spec => []IInv
<1>1. ASSUME IInv, [Next]_vars
      PROVE  IInv'
  <2>1. CASE UNCHANGED vars
    BY <1>1, <2>1 DEF vars, IInv, TypeOK, Filled, Spent, Live
  <2> QED
    BY <1>1, <2>1, AllowIInv, TickIInv DEF Next
<1> QED
  BY InitIInv, <1>1, PTL DEF Spec

(* The limiter's state keeps its types: in particular a bucket is never    *)
(* overdrawn.                                                              *)
THEOREM TypeCorrect == Spec => []TypeOK
<1>1. IInv => TypeOK
  BY DEF IInv
<1> QED
  BY <1>1, Invariance, PTL

(* In any window of up to a minute a key is granted at most a full bucket  *)
(* and what flows in, at the largest budget it ever had: whatever budgets  *)
(* its callers bring in turn and whenever its bucket is swept, nothing is  *)
(* gained by it (MemoryLimiter.Allow).                                     *)
THEOREM WindowIsBounded == Spec => []WindowBound
<1>1. IInv => WindowBound
  <2> SUFFICES ASSUME IInv, NEW k \in Keys, NEW w \in 0 .. Minute
               PROVE  recent[k][w] * Minute <= top[k] * (Minute + w)
    BY DEF WindowBound
  <2>0. TypeOK /\ Spent(k) /\ recent[k][w] \in Nat /\ top[k] \in Nat /\ Minute \in Nat
    BY LimiterAssumption DEF IInv, TypeOK
  <2>1. CASE recent[k][w] = 0
    <3>1. top[k] * (Minute + w) \in Nat /\ 0 * Minute = 0
      BY <2>0
    <3> QED
      BY <2>1, <3>1
  <2>2. CASE Live(k) /\ w >= buckets[k].age
    <3> DEFINE a == buckets[k].age
               before == top[k] * (Minute + (w - a))
               spent == recent[k][w] * Minute
               budget == top[k] * (Minute + w)
    <3>1. w \in Nat /\ a \in Nat /\ a <= w /\ buckets[k].tokens \in Nat
      BY <2>0, <2>2 DEF TypeOK, Bucket, Live
    <3>2. spent + buckets[k].tokens <= before
      BY <2>0, <2>2 DEF Spent
    <3> HIDE DEF a
    <3>3. before \in Nat /\ budget \in Nat /\ spent \in Nat
      BY <2>0, <3>1
    <3>4. before <= budget
      <4>1. before + a * 0 <= budget
        BY <2>0, <3>1, WindowPays
      <4> QED
        BY <3>1, <3>3, <4>1
    <3> HIDE DEF before, spent, budget
    <3>5. spent <= budget
      BY <3>1, <3>2, <3>3, <3>4
    <3> QED
      BY <3>5 DEF spent, budget
  <2>3. Live(k) => w < buckets[k].age \/ w >= buckets[k].age
    BY <2>0 DEF TypeOK, Bucket, Live
  <2> QED
    BY <2>0, <2>1, <2>2, <2>3 DEF Spent
<1> QED
  BY <1>1, Invariance, PTL

-----------------------------------------------------------------------------
(* The one budget of a steady key. *)
Rate(k) == CHOOSE r \in Rates[k] : TRUE

LEMMA SteadyRate ==
    ASSUME NEW k \in Steady
    PROVE  /\ k \in Keys /\ Rates[k] = {Rate(k)} /\ Rate(k) \in Nat \ {0}
           /\ Rate(k) * Minute \in Nat
<1>1. k \in Keys /\ Rates[k] = {Rate(k)}
  BY DEF Steady, Rate
<1>2. Rate(k) \in Nat \ {0} /\ Minute \in Nat
  BY <1>1, LimiterAssumption
<1> QED
  BY <1>1, <1>2

(* What a steady key could spend is what its next call will find, and is   *)
(* a minute's budget once the bucket is old enough to be swept.            *)
LEMMA LevelIsFound ==
    ASSUME TypeOK, NEW k \in Steady, Filled(k)
    PROVE  /\ Level(k) = Found(k, Rate(k))
           /\ Level(k) \in Nat /\ Level(k) <= Rate(k) * Minute
           /\ ~Live(k) => Level(k) = Rate(k) * Minute
           /\ Live(k) =>
                /\ buckets[k].tokens \in Nat /\ buckets[k].age \in 0 .. IdleCutoff + 1
                /\ Level(k) = Lesser(buckets[k].tokens + buckets[k].age * Rate(k), Rate(k) * Minute)
                /\ buckets[k].age >= Minute => Level(k) = Rate(k) * Minute
<1> DEFINE full == Rate(k) * Minute
<1>0. k \in Keys /\ Rates[k] = {Rate(k)} /\ Rate(k) \in Nat \ {0} /\ full \in Nat
  BY SteadyRate
<1>1. CASE ~Live(k)
  BY <1>0, <1>1 DEF Level, Found, Rate
<1>2. CASE Live(k)
  <2> DEFINE t == buckets[k].tokens
             flowed == buckets[k].age * Rate(k)
  <2>1. t \in Nat /\ buckets[k].age \in 0 .. IdleCutoff + 1 /\ IdleCutoff \in Nat
    BY <1>0, <1>2, LimiterAssumption DEF TypeOK, Bucket, Live
  <2>2. buckets[k].capacity = Rate(k) /\ t <= full
    BY <1>0, <1>2 DEF Filled
  <2>3. flowed \in Nat
    BY <1>0, <2>1
  <2>4. Level(k) = Lesser(t + flowed, full)
    BY <1>2, <2>2 DEF Level, Refilled
  <2>5. buckets[k].age >= Minute => flowed >= full
    <3>1. buckets[k].age >= Minute => Minute * Rate(k) <= flowed
      BY <1>0, <2>1, ProductGrows, LimiterAssumption
    <3>2. Minute * Rate(k) = full
      BY <1>0, LimiterAssumption
    <3> QED
      BY <3>1, <3>2
  <2>6. Found(k, Rate(k)) = Lesser(Lesser(t, full) + flowed, full)
    BY <1>2 DEF Found
  <2> HIDE DEF t, flowed, full
  <2>7. Lesser(t, full) = t
    BY <1>0, <2>1, <2>2 DEF Lesser
  <2>8. Level(k) \in Nat /\ Level(k) <= full
    BY <1>0, <2>1, <2>3, <2>4 DEF Lesser
  <2>9. buckets[k].age >= Minute => Level(k) = full
    BY <1>0, <2>1, <2>3, <2>4, <2>5 DEF Lesser
  <2> QED
    BY <1>2, <2>1, <2>4, <2>6, <2>7, <2>8, <2>9 DEF t, flowed, full
<1> QED
  BY <1>1, <1>2

(* A call of another key changes no level: a bucket that is swept was full. *)
LEMMA OthersKeepLevel ==
    ASSUME IInv, IInv', NEW k \in Keys, NEW rate \in Rates[k], Allow(k, rate),
           NEW q \in Steady \ {k}
    PROVE  Level(q)' = Level(q)
<1>1. q \in Keys
  BY DEF Steady
<1>2. CASE buckets'[q] = buckets[q]
  BY <1>2 DEF Level, Live
<1>3. CASE Live(q) /\ buckets[q].age > IdleCutoff /\ buckets'[q] = NoBucket
  <2>1. buckets[q].age >= Minute
    BY <1>1, <1>3, LimiterAssumption DEF IInv, TypeOK, Bucket, Live
  <2>2. Level(q) = Rate(q) * Minute
    BY <1>1, <1>3, <2>1, LevelIsFound DEF IInv
  <2>3. Level(q)' = Rate(q) * Minute
    BY <1>3 DEF Level, Live, Rate
  <2> QED
    BY <2>2, <2>3
<1> QED
  BY <1>1, <1>2, <1>3, AllowFields DEF IInv

(* A call of a steady key is granted or refused as the promise demands. *)
LEMMA SteadyCall ==
    ASSUME IInv, IInv', NEW k \in Steady, NEW rate \in Rates[k], Allow(k, rate)
    PROVE  /\ Level(k)' = IF Level(k) >= Minute THEN Level(k) - Minute ELSE Level(k)
           /\ verdict' = [key |-> k, ok |-> Level(k) >= Minute]
           /\ Level(k) \in Nat
<1>1. k \in Keys /\ rate = Rate(k) /\ Rate(k) \in Nat \ {0} /\ Rate(k) * Minute \in Nat
  BY SteadyRate
<1>2. TypeOK /\ Filled(k)
  BY <1>1 DEF IInv
<1> DEFINE level == Level(k)
           left == IF level >= Minute THEN level - Minute ELSE level
<1>3. level \in Nat /\ level <= Rate(k) * Minute /\ level = Found(k, rate)
  BY <1>1, <1>2, LevelIsFound
<1>4. /\ buckets'[k] = [tokens |-> left, capacity |-> rate, age |-> 0]
      /\ verdict' = [key |-> k, ok |-> level >= Minute]
  <2>1. k \in Keys /\ rate \in Rates[k]
    BY <1>1
  <2> QED
    BY <1>2, <1>3, <2>1, AllowFields
<1>5. left \in Nat /\ left <= Rate(k) * Minute
  BY <1>1, <1>3, LimiterAssumption
<1>6. Level(k)' = Lesser(left + 0 * rate, rate * Minute)
  <2> HIDE DEF left
  <2>1. buckets'[k] # NoBucket
    BY <1>1, <1>4 DEF NoBucket
  <2>2. Refilled(buckets'[k]).tokens = Lesser(left + 0 * rate, rate * Minute)
    BY <1>4 DEF Refilled
  <2> QED
    BY <2>1, <2>2 DEF Level, Live
<1>7. Lesser(left + 0 * rate, rate * Minute) = left
  <2> HIDE DEF left
  <2>1. left + 0 * rate = left
    BY <1>1, <1>5
  <2> QED
    BY <1>1, <1>5, <2>1 DEF Lesser
<1> QED
  BY <1>3, <1>4, <1>6, <1>7

(* A tick fills the level of a steady key by its budget, up to a minute's. *)
LEMMA SteadyTick ==
    ASSUME IInv, IInv', Tick, NEW k \in Steady
    PROVE  Level(k)' = IF Level(k) + Rate(k) > Rate(k) * Minute THEN Rate(k) * Minute
                       ELSE Level(k) + Rate(k)
<1> DEFINE full == Rate(k) * Minute
           t == buckets[k].tokens
           a == buckets[k].age
           flowed == a * Rate(k)
<1>1. k \in Keys /\ Rates[k] = {Rate(k)} /\ Rate(k) \in Nat \ {0} /\ full \in Nat
  BY SteadyRate
<1>2. TypeOK /\ Filled(k)
  BY <1>1 DEF IInv
<1>3. CASE ~Live(k)
  <2>1. Level(k) = full /\ Level(k)' = full
    BY <1>1, <1>2, <1>3, LevelIsFound DEF Tick, Level, Live, Rate
  <2> HIDE DEF full
  <2> QED
    BY <1>1, <2>1 DEF full
<1>4. CASE Live(k)
  <2>1. /\ t \in Nat /\ a \in 0 .. IdleCutoff + 1 /\ IdleCutoff \in Nat /\ IdleCutoff >= Minute
        /\ Minute \in Nat
        /\ Level(k) = Lesser(t + flowed, full)
        /\ a >= Minute => Level(k) = full
    BY <1>2, <1>4, LevelIsFound, LimiterAssumption
  <2>2. buckets[k].capacity = Rate(k) /\ buckets[k] \in Bucket
    BY <1>1, <1>2, <1>4 DEF Filled, TypeOK, Live
  <2>3. flowed \in Nat /\ (a + 1) * Rate(k) = flowed + Rate(k)
    BY <1>1, <2>1
  <2> DEFINE b == Lesser(a + 1, IdleCutoff + 1)
  <2>4. buckets'[k] = [tokens |-> t, capacity |-> Rate(k), age |-> b]
    <3>1. buckets'[k] = [buckets[k] EXCEPT !.age = b]
      BY <1>1, <1>4 DEF Tick
    <3> QED
      BY <2>2, <3>1 DEF Bucket
  <2>5. Level(k)' = Lesser(t + b * Rate(k), full)
    <3> HIDE DEF b, t, a
    <3>1. buckets'[k] # NoBucket
      BY <1>1, <2>4 DEF NoBucket
    <3> QED
      BY <2>4, <3>1 DEF Level, Live, Refilled
  <2>6. CASE a <= IdleCutoff
    <3>1. b * Rate(k) = flowed + Rate(k)
      <4>1. b = a + 1
        BY <2>1, <2>6 DEF Lesser
      <4> QED
        BY <2>3, <4>1
    <3>2. Level(k)' = Lesser(t + (flowed + Rate(k)), full)
      BY <2>5, <3>1
    <3> HIDE DEF t, a, flowed, full, b
    <3> QED
      BY <1>1, <2>1, <2>3, <3>2 DEF Lesser, full
  <2>7. CASE a > IdleCutoff
    <3>1. b = a
      BY <2>1, <2>7 DEF Lesser
    <3>2. Level(k)' = Level(k) /\ Level(k) = full
      BY <2>1, <2>5, <2>7, <3>1
    <3> HIDE DEF full
    <3> QED
      BY <1>1, <3>2 DEF full
  <2> QED
    BY <2>1, <2>6, <2>7
<1> QED
  BY <1>3, <1>4

(* The initial buckets are full. *)
LEMMA InitRefines == Init => Promise!Init
<1> SUFFICES ASSUME Init PROVE Promise!Init
  OBVIOUS
<1>1. \A k \in Steady : Level(k) = Rate(k) * Minute
  BY DEF Init, Level, Live, Rate, Steady
<1> QED
  BY <1>1 DEF Init, Promise!Init, Promise!Full, Promise!NoVerdict, NoVerdict, Rate

(* Every step of the lazy map is a step of the ideal bucket, or none. *)
LEMMA StepRefines ==
    ASSUME IInv, IInv', [Next]_vars
    PROVE  [Promise!Next]_<<[k \in Steady |-> Level(k)],
                            IF verdict.key \in Steady THEN verdict ELSE NoVerdict>>
<1> DEFINE level == [k \in Steady |-> Level(k)]
           answer == IF verdict.key \in Steady THEN verdict ELSE NoVerdict
<1>1. ASSUME NEW k \in Steady, NEW rate \in Rates[k], Allow(k, rate)
      PROVE  Promise!Next
  <2>1. k \in Keys
    BY DEF Steady
  <2>2. /\ level'[k] = IF level[k] >= Minute THEN level[k] - Minute ELSE level[k]
        /\ answer' = [key |-> k, ok |-> level[k] >= Minute]
        /\ level[k] \in Nat
    BY <1>1, SteadyCall
  <2>3. \A q \in Steady \ {k} : level'[q] = level[q]
    BY <1>1, <2>1, OthersKeepLevel
  <2>4. CASE level[k] >= Minute
    <3>1. level' = [level EXCEPT ![k] = level[k] - Minute]
      BY <2>2, <2>3, <2>4
    <3>2. Promise!Grant(k)
      BY <2>2, <2>4, <3>1 DEF Promise!Grant
    <3> QED
      BY <3>2 DEF Promise!Next
  <2>5. CASE ~(level[k] >= Minute)
    <3>1. level' = level
      BY <2>2, <2>3, <2>5
    <3>2. level[k] < Minute
      BY <2>2, <2>5, LimiterAssumption
    <3>3. answer' = [key |-> k, ok |-> FALSE]
      <4>1. (level[k] >= Minute) = FALSE
        BY <2>5
      <4> QED
        BY <2>2, <4>1
    <3>4. Promise!Refuse(k)
      BY <3>1, <3>2, <3>3 DEF Promise!Refuse
    <3> QED
      BY <3>4 DEF Promise!Next
  <2> QED
    BY <2>4, <2>5
<1>2. ASSUME NEW k \in Keys \ Steady, NEW rate \in Rates[k], Allow(k, rate)
      PROVE  Promise!Next
  <2>1. answer' = NoVerdict
    BY <1>2 DEF Allow
  <2>2. level' = level
    BY <1>2, OthersKeepLevel
  <2>3. Promise!Elsewhere
    BY <2>1, <2>2 DEF Promise!Elsewhere, Promise!NoVerdict, NoVerdict
  <2> QED
    BY <2>3 DEF Promise!Next
<1>3. CASE Tick
  <2>1. answer' = NoVerdict
    BY <1>3 DEF Tick
  <2>2. \A k \in Steady :
            level'[k] = IF level[k] + Rate(k) > Rate(k) * Minute THEN Rate(k) * Minute
                        ELSE level[k] + Rate(k)
    BY <1>3, SteadyTick
  <2>3. Promise!Refill
    BY <2>1, <2>2 DEF Promise!Refill, Promise!Full, Promise!NoVerdict, NoVerdict, Rate
  <2> QED
    BY <2>3 DEF Promise!Next
<1>4. CASE UNCHANGED vars
  BY <1>4 DEF vars, Level, Live
<1> QED
  BY <1>1, <1>2, <1>3, <1>4 DEF Next

(* MemoryLimiter implements a token bucket per key: while the callers of a *)
(* key bring one budget, the lazily refilled bucket in a map that is swept *)
(* when it is large grants and refuses exactly as the ideal one does.      *)
THEOREM RefinesTokenBucket == Spec => ImplementsTokenBucket
BY InitRefines, StepRefines, Invariance, PTL DEF Spec, ImplementsTokenBucket, Promise!Spec
=============================================================================
