------------------------------ MODULE McpProofs ------------------------------
(* Proofs about the MCP endpoint: what its session store holds and what    *)
(* its responses answer.                                                   *)
EXTENDS Mcp, FiniteSetTheorems, SequenceTheorems, TLAPS

Entries == Message \cup {Nothing}
Reply == [to : Nat, kind : {"result", "error"}]
Handling == [at : {"handling", "minting"}, instance : Instances, todo : Seq(Entries),
             session : SessionIds \cup {Nothing}, batch : Seq(Entries),
             header : SessionIds \cup {Nothing}, replies : Seq(Reply)]
InHand(q) == q.at \in {"handling", "minting"}

(* The store is finite, and what a request names has been issued. *)
Typed ==
    /\ TypeOK
    /\ IsFiniteSet(Live)
    /\ now \in 0 .. MaxTime
    /\ DOMAIN http = Requests
    /\ \A r \in Requests : InHand(http[r]) =>
          http[r] \in Handling /\ http[r].header \in issued \cup {Nothing}

(* A request that may still make a session has made none. *)
MintsOnce ==
    \A r \in Requests : InHand(http[r]) =>
        /\ http[r].session = Nothing => http[r].header = Nothing
        /\ http[r].at = "minting" => http[r].session = Nothing

(* How far a request is in its batch, and what it has answered by then. *)
Done(q) == Len(q.batch) - Len(q.todo)
Asks(m) == m = Nothing \/ (m.asks /\ m.method # "notification")
Silent(m) == m # Nothing /\ ~m.asks
Progress(q) ==
    /\ Len(q.todo) <= Len(q.batch)
    /\ \A j \in 1 .. Len(q.todo) : q.todo[j] = q.batch[Done(q) + j]
    /\ \A k \in 1 .. Len(q.replies) : q.replies[k].to \in 1 .. Done(q)
    /\ \A j, k \in 1 .. Len(q.replies) : j < k => q.replies[j].to < q.replies[k].to
    /\ \A n \in 1 .. Done(q) : Asks(q.batch[n]) => \E k \in 1 .. Len(q.replies) : q.replies[k].to = n
    /\ \A k \in 1 .. Len(q.replies) : Silent(q.batch[q.replies[k].to]) => q.replies[k].kind = "error"
AllProgress == \A r \in Requests : InHand(http[r]) => Progress(http[r])

-----------------------------------------------------------------------------
(* What Handle makes of an entry of a batch: a question is answered, a     *)
(* message that asks nothing is told of failures only.                     *)
LEMMA HandleAnswers ==
    ASSUME NEW m \in Entries, NEW reply \in IF m = Nothing THEN {"error"} ELSE Handle(m)
    PROVE  /\ reply \in {"none", "result", "error"}
           /\ Asks(m) => reply # "none"
           /\ Silent(m) => reply # "result"
<1>1. CASE m = Nothing
  BY <1>1 DEF Silent
<1>2. CASE m # Nothing
  <2>1. m \in Message /\ reply \in Handle(m)
    BY <1>2 DEF Entries
  <2> QED
    BY <1>2, <2>1 DEF Message, Methods, Handle, Served, Asks, Silent
<1> QED
  BY <1>1, <1>2

(* A request with its next message dealt with: a is q after its next entry *)
(* was answered with reply.                                                *)
IsAnswered(a, q, reply, x) ==
    /\ a \in Handling /\ a.at = x
    /\ a.instance = q.instance /\ a.session = q.session
    /\ a.header = q.header /\ a.batch = q.batch
    /\ a.todo = Tail(q.todo)
    /\ a.replies = IF reply = "none" THEN q.replies
                   ELSE Append(q.replies, [to |-> Done(q) + 1, kind |-> reply])

LEMMA AnsweredFields ==
    ASSUME NEW q \in Handling, q.todo # <<>>, Len(q.todo) <= Len(q.batch),
           NEW reply \in {"none", "result", "error"},
           NEW x \in {"handling", "minting"},
           NEW a, a = [Answered(q, reply) EXCEPT !.at = x]
    PROVE  IsAnswered(a, q, reply, x)
<1> DEFINE p == IF reply = "none" THEN q.replies
                ELSE Append(q.replies, [to |-> Len(q.batch) - Len(q.todo) + 1, kind |-> reply])
<1>1. Tail(q.todo) \in Seq(Entries) /\ q.replies \in Seq(Reply)
  BY DEF Handling
<1>2. p \in Seq(Reply)
  <2>1. Len(q.batch) - Len(q.todo) + 1 \in Nat => 
            (reply # "none" => [to |-> Len(q.batch) - Len(q.todo) + 1, kind |-> reply] \in Reply)
    BY DEF Reply
  <2> QED
    BY <1>1, <2>1
<1>3. Answered(q, reply) = [q EXCEPT !.todo = Tail(q.todo), !.replies = p]
  BY DEF Answered, Handling
<1>4. PICK t \in Seq(Entries) : t = Tail(q.todo)
  BY <1>1
<1>5. PICK u \in Seq(Reply) : u = p
  BY <1>2
<1>6. PICK b : b = Answered(q, reply)
  OBVIOUS
<1> HIDE DEF p
<1>7. b = [q EXCEPT !.todo = t, !.replies = u] /\ a = [b EXCEPT !.at = x]
  BY <1>3, <1>4, <1>5, <1>6
<1>8. /\ a \in Handling /\ a.at = x /\ a.instance = q.instance /\ a.session = q.session
      /\ a.header = q.header /\ a.batch = q.batch /\ a.todo = t /\ a.replies = u
  BY <1>7 DEF Handling
<1> QED
  BY <1>4, <1>5, <1>8 DEF p, Done, IsAnswered

-----------------------------------------------------------------------------
(* The store after Get, DELETE and Create: its sessions are sessions, it   *)
(* grows by one at most, and only when Create finds room.                  *)
LEMMA LookedUp ==
    ASSUME Typed, NEW s \in SessionIds
    PROVE  /\ AfterGet(s) \in [SessionIds -> Session \cup {Nothing}]
           /\ \A t \in SessionIds :
                /\ AfterGet(s)[t] # Nothing =>
                      t \in Live /\ AfterGet(s)[t].instance = sessions[t].instance
                /\ t \in Live /\ ~Expired(t) => AfterGet(s)[t] # Nothing
<1>1. /\ sessions \in [SessionIds -> Session \cup {Nothing}]
      /\ now \in 0 .. MaxTime /\ Nothing \notin Session
  BY McpAssumption DEF Typed, TypeOK
<1>2. s \in Live => /\ sessions[s] \in Session
                    /\ [instance |-> sessions[s].instance, seen |-> now] \in Session
  BY <1>1 DEF Live, Session
<1> QED
  BY <1>1, <1>2 DEF AfterGet, Live, Expired

LEMMA Created ==
    ASSUME Typed, NEW i \in Instances, NEW s \in SessionIds, sessions' = CreateIn(i, s)
    PROVE  /\ sessions' \in [SessionIds -> Session \cup {Nothing}]
           /\ IsFiniteSet(Live') /\ Cardinality(Live') <= MaxSessions
           /\ \A t \in SessionIds :
                /\ sessions'[t] # Nothing =>
                      \/ t \in Live /\ sessions'[t].instance = sessions[t].instance
                      \/ t = s /\ sessions'[t].instance = i
                /\ t \in Live /\ ~Expired(t) => sessions'[t] # Nothing
<1> DEFINE kept == {t \in Live : ~Expired(t)}
<1>1. /\ sessions \in [SessionIds -> Session \cup {Nothing}]
      /\ now \in 0 .. MaxTime /\ IsFiniteSet(Live) /\ Cardinality(Live) <= MaxSessions
      /\ MaxSessions \in Nat
  BY McpAssumption DEF Typed, TypeOK
<1>2. [instance |-> i, seen |-> now] \in Session
  BY <1>1 DEF Session
<1>3. /\ IsFiniteSet(kept) /\ Cardinality(kept) <= Cardinality(Live)
      /\ Cardinality(kept) \in Nat /\ Cardinality(Live) \in Nat
  <2>1. kept \subseteq Live
    OBVIOUS
  <2> QED
    BY <1>1, <2>1, FS_Subset, FS_CardinalityType
<1>4. Live' \subseteq IF Cardinality(kept) < MaxSessions THEN kept \cup {s} ELSE kept
  BY DEF CreateIn, Live
<1>5. IsFiniteSet(Live') /\ Cardinality(Live') <= MaxSessions
  <2> HIDE DEF kept
  <2>1. CASE Cardinality(kept) < MaxSessions
    <3>1. /\ IsFiniteSet(kept \cup {s})
          /\ Cardinality(kept \cup {s}) = IF s \in kept THEN Cardinality(kept) ELSE Cardinality(kept) + 1
      BY <1>3, FS_AddElement
    <3>2. /\ IsFiniteSet(Live') /\ Cardinality(Live') <= Cardinality(kept \cup {s})
          /\ Cardinality(Live') \in Nat
      BY <1>4, <2>1, <3>1, FS_Subset, FS_CardinalityType
    <3> QED
      BY <1>1, <1>3, <2>1, <3>1, <3>2
  <2>2. CASE ~(Cardinality(kept) < MaxSessions)
    <3>1. /\ IsFiniteSet(Live') /\ Cardinality(Live') <= Cardinality(kept)
          /\ Cardinality(Live') \in Nat
      BY <1>3, <1>4, <2>2, FS_Subset, FS_CardinalityType
    <3> QED
      BY <1>1, <1>3, <3>1
  <2> QED
    BY <2>1, <2>2
<1>6. sessions' \in [SessionIds -> Session \cup {Nothing}]
  BY <1>1, <1>2 DEF CreateIn, Live
<1>7. \A t \in SessionIds :
         /\ sessions'[t] # Nothing =>
               \/ t \in Live /\ sessions'[t].instance = sessions[t].instance
               \/ t = s /\ sessions'[t].instance = i
         /\ t \in Live /\ ~Expired(t) => sessions'[t] # Nothing
  BY <1>1 DEF CreateIn, Live
<1> QED
  BY <1>5, <1>6, <1>7

(* A store with fewer sessions keeps the bound. *)
LEMMA FewerSessions ==
    ASSUME Typed, Live' \subseteq Live
    PROVE  IsFiniteSet(Live') /\ Cardinality(Live') <= MaxSessions
<1>1. /\ IsFiniteSet(Live') /\ Cardinality(Live') <= Cardinality(Live)
      /\ Cardinality(Live') \in Nat /\ Cardinality(Live) \in Nat
  BY FS_Subset, FS_CardinalityType DEF Typed
<1> QED
  BY <1>1, McpAssumption DEF Typed, TypeOK

(* What a step does to the sessions, whichever it is. *)
LEMMA StoreStep ==
    ASSUME Typed, [Next]_vars
    PROVE  /\ sessions' \in [SessionIds -> Session \cup {Nothing}]
           /\ IsFiniteSet(Live') /\ Cardinality(Live') <= MaxSessions
<1>1. ASSUME NEW r \in Requests, NEW i \in Instances, NEW b \in Batches,
             NEW s \in SessionIds \cup {Nothing}, Post(r, i, b, s)
      PROVE  /\ sessions' \in [SessionIds -> Session \cup {Nothing}] /\ Live' \subseteq Live
  BY <1>1, LookedUp DEF Post, Typed, TypeOK, Live
<1>2. ASSUME NEW r \in Requests, NEW s \in SessionIds \cup {Nothing}, HandleGet(r, s)
      PROVE  /\ sessions' \in [SessionIds -> Session \cup {Nothing}] /\ Live' \subseteq Live
  BY <1>2, LookedUp DEF HandleGet, Typed, TypeOK, Live
<1>3. ASSUME NEW s \in SessionIds, HandleDelete(s)
      PROVE  /\ sessions' \in [SessionIds -> Session \cup {Nothing}] /\ Live' \subseteq Live
  BY <1>3 DEF HandleDelete, Typed, TypeOK, Live
<1>4. CASE Restart
  <2>1. /\ sessions' \in [SessionIds -> Session \cup {Nothing}] /\ Live' \subseteq Live
    BY <1>4 DEF Restart, Live
  <2> QED
    BY <2>1, FewerSessions
<1>5. ASSUME NEW r \in Requests, NEW s \in SessionIds, Mint(r, s)
      PROVE  /\ sessions' \in [SessionIds -> Session \cup {Nothing}]
             /\ IsFiniteSet(Live') /\ Cardinality(Live') <= MaxSessions
  <2>1. http[r].instance \in Instances
    BY <1>5 DEF Mint, At, Typed, InHand, Handling
  <2> QED
    BY <1>5, <2>1, Created DEF Mint
<1>6. CASE UNCHANGED sessions
  <2>1. Live' = Live
    BY <1>6 DEF Live
  <2> QED
    BY <1>6, <2>1, FewerSessions DEF Typed, TypeOK
<1>7. \/ UNCHANGED sessions \/ Restart
      \/ \E s \in SessionIds : HandleDelete(s)
      \/ \E r \in Requests :
            \/ \E i \in Instances, b \in Batches, s \in SessionIds \cup {Nothing} : Post(r, i, b, s)
            \/ \E s \in SessionIds \cup {Nothing} : HandleGet(r, s)
            \/ \E s \in SessionIds : Mint(r, s)
  BY DEF Next, vars, HandleNext, Respond, CloseStream, Tick
<1> QED
  BY <1>1, <1>2, <1>3, <1>4, <1>5, <1>6, <1>7, FewerSessions

(* The requests and what has been told, whichever the step. *)
LEMMA TypedStep ==
    ASSUME Typed, AllProgress, [Next]_vars
    PROVE  Typed'
<1>1. /\ DOMAIN http = Requests /\ now \in 0 .. MaxTime
      /\ told \in [Instances -> SUBSET issued]
      /\ \A r \in Requests : /\ http[r].at \in {"idle", "handling", "minting", "streaming"}
                             /\ InHand(http[r]) => /\ http[r] \in Handling
                                                   /\ http[r].header \in issued \cup {Nothing}
  BY DEF Typed, TypeOK
<1>2. /\ sessions' \in [SessionIds -> Session \cup {Nothing}]
      /\ IsFiniteSet(Live') /\ Cardinality(Live') <= MaxSessions
  BY StoreStep
<1>3. ASSUME NEW r \in Requests, NEW q, http' = [http EXCEPT ![r] = q],
             q.at \in {"idle", "handling", "minting", "streaming"},
             issued \subseteq issued', now' = now,
             InHand(q) => q \in Handling /\ q.header \in issued' \cup {Nothing},
             told' \in [Instances -> SUBSET issued']
      PROVE  Typed'
  <2>1. \A d \in Requests : /\ http'[d].at \in {"idle", "handling", "minting", "streaming"}
                            /\ InHand(http'[d]) => /\ http'[d] \in Handling
                                                   /\ http'[d].header \in issued' \cup {Nothing}
    BY <1>1, <1>3
  <2>2. DOMAIN http' = Requests /\ now' \in 0 .. MaxTime
    BY <1>1, <1>3
  <2> QED
    BY <1>2, <1>3, <2>1, <2>2 DEF Typed, TypeOK, InHand
<1>4. ASSUME UNCHANGED <<http, issued, told>>, now' \in 0 .. MaxTime
      PROVE  Typed'
  BY <1>1, <1>2, <1>4 DEF Typed, TypeOK, InHand
<1>5. ASSUME NEW r \in Requests, NEW i \in Instances, NEW b \in Batches,
             NEW s \in SessionIds \cup {Nothing}, Post(r, i, b, s)
      PROVE  Typed'
  <2> DEFINE q == [at |-> "handling", instance |-> i, todo |-> b, session |-> s,
                   batch |-> b, header |-> Nothing, replies |-> <<>>]
  <2>1. b \in Seq(Entries)
    BY McpAssumption DEF Entries
  <2>2. q \in Handling /\ q.header = Nothing /\ q.at = "handling"
    BY <2>1 DEF Handling
  <2>3. CASE Goto(r, q)
    <3> HIDE DEF q
    <3> QED
      BY <1>1, <1>3, <1>5, <2>2, <2>3 DEF Post, Goto
  <2>4. CASE UNCHANGED http
    BY <1>1, <1>4, <1>5, <2>4 DEF Post
  <2> QED
    BY <1>5, <2>3, <2>4 DEF Post
<1>6. ASSUME NEW r \in Requests, HandleNext(r)
      PROVE  Typed'
  <2> DEFINE q == http[r]
             m == Head(q.todo)
  <2>1. q \in Handling /\ q.header \in issued \cup {Nothing} /\ q.todo # <<>>
    BY <1>1, <1>6 DEF HandleNext, At, InHand
  <2>2. m \in Entries
    BY <2>1 DEF Handling
  <2>3. Len(q.todo) <= Len(q.batch)
    BY <1>6 DEF HandleNext, At, AllProgress, Progress, InHand
  <2>4. PICK reply \in IF m = Nothing THEN {"error"} ELSE Handle(m) :
            Goto(r, [Answered(q, reply) EXCEPT !.at = IF Mints(q, m, reply) THEN "minting" ELSE "handling"])
    BY <1>6 DEF HandleNext
  <2>5. reply \in {"none", "result", "error"}
    BY <2>2, HandleAnswers
  <2>6. PICK x \in {"handling", "minting"} : Goto(r, [Answered(q, reply) EXCEPT !.at = x])
    BY <2>4
  <2>7. PICK a : a = [Answered(q, reply) EXCEPT !.at = x]
    OBVIOUS
  <2> HIDE DEF q, m
  <2>8. a \in Handling /\ a.at = x /\ a.header = q.header
    <3>1. IsAnswered(a, q, reply, x)
      BY <2>1, <2>3, <2>5, <2>7, AnsweredFields
    <3> QED
      BY <3>1 DEF IsAnswered
  <2>9. http' = [http EXCEPT ![r] = a] /\ UNCHANGED <<now, issued, told>>
    BY <1>6, <2>6, <2>7 DEF HandleNext, Goto
  <2>10. told' \in [Instances -> SUBSET issued'] /\ issued \subseteq issued'
    BY <1>1, <2>9
  <2> QED
    BY <1>3, <2>1, <2>8, <2>9, <2>10
<1>7. ASSUME NEW r \in Requests, NEW s \in SessionIds, Mint(r, s)
      PROVE  Typed'
  <2>1. http[r] \in Handling /\ http[r].header \in issued \cup {Nothing}
    BY <1>1, <1>7 DEF Mint, At, InHand
  <2>2. issued' = issued \cup {s} /\ UNCHANGED <<now, told>>
    BY <1>7 DEF Mint
  <2>3. ASSUME NEW q, \/ q = [http[r] EXCEPT !.at = "handling"]
                      \/ q = [http[r] EXCEPT !.at = "handling", !.session = s, !.header = s]
        PROVE  q \in Handling /\ q.at = "handling" /\ q.header \in issued' \cup {Nothing}
    BY <2>1, <2>2, <2>3 DEF Handling
  <2>4. PICK q : /\ Goto(r, q)
                 /\ \/ q = [http[r] EXCEPT !.at = "handling"]
                    \/ q = [http[r] EXCEPT !.at = "handling", !.session = s, !.header = s]
    BY <1>7 DEF Mint
  <2>5. told' \in [Instances -> SUBSET issued']
    BY <1>1, <2>2
  <2> QED
    BY <1>3, <2>2, <2>3, <2>4, <2>5 DEF Goto
<1>8. ASSUME NEW r \in Requests, Respond(r)
      PROVE  Typed'
  <2>1. http[r] \in Handling /\ http[r].header \in issued \cup {Nothing}
    BY <1>1, <1>8 DEF Respond, At, InHand
  <2>2. told' \in [Instances -> SUBSET issued']
    BY <1>1, <1>8, <2>1 DEF Respond, Handling
  <2>3. Free.at = "idle" /\ ~InHand(Free)
    BY DEF Free, InHand
  <2> QED
    BY <1>3, <1>8, <2>2, <2>3 DEF Respond, Goto
<1>9. ASSUME NEW r \in Requests, NEW s \in SessionIds \cup {Nothing}, HandleGet(r, s)
      PROVE  Typed'
  <2>1. ~InHand([at |-> "streaming"])
    BY DEF InHand
  <2>2. CASE Goto(r, [at |-> "streaming"])
    BY <1>1, <1>3, <1>9, <2>1, <2>2 DEF HandleGet, Goto
  <2>3. CASE UNCHANGED http
    BY <1>1, <1>4, <1>9, <2>3 DEF HandleGet
  <2> QED
    BY <1>9, <2>2, <2>3 DEF HandleGet
<1>10. ASSUME NEW r \in Requests, CloseStream(r)
       PROVE  Typed'
  <2>1. Free.at = "idle" /\ ~InHand(Free)
    BY DEF Free, InHand
  <2> QED
    BY <1>1, <1>3, <1>10, <2>1 DEF CloseStream, Goto
<1>11. CASE Restart
  BY <1>1, <1>2, <1>11 DEF Restart, Typed, TypeOK, InHand, Free
<1>12. CASE \/ UNCHANGED vars \/ Tick \/ \E s \in SessionIds : HandleDelete(s)
  BY <1>1, <1>4, <1>12, McpAssumption DEF vars, Tick, HandleDelete
<1> QED
  BY <1>5, <1>6, <1>7, <1>8, <1>9, <1>10, <1>11, <1>12 DEF Next

-----------------------------------------------------------------------------
(* Progress through a batch: one entry on, its answer appended if it has   *)
(* one.                                                                    *)
LEMMA ProgressAnswered ==
    ASSUME NEW q \in Handling, Progress(q), q.todo # <<>>,
           NEW reply \in {"none", "result", "error"},
           Asks(Head(q.todo)) => reply # "none",
           Silent(Head(q.todo)) => reply # "result",
           NEW a, NEW x, IsAnswered(a, q, reply, x)
    PROVE  Progress(a)
<1> DEFINE d == Done(q)
           w == [to |-> d + 1, kind |-> reply]
<1>1. /\ q.todo \in Seq(Entries) /\ q.batch \in Seq(Entries) /\ q.replies \in Seq(Reply)
      /\ Len(q.todo) \in Nat \ {0} /\ Len(q.batch) \in Nat /\ Len(q.replies) \in Nat
  BY DEF Handling
<1>2. /\ Len(q.todo) <= Len(q.batch) /\ d \in Nat
      /\ \A j \in 1 .. Len(q.todo) : q.todo[j] = q.batch[d + j]
      /\ \A k \in 1 .. Len(q.replies) : q.replies[k].to \in 1 .. d
      /\ \A j, k \in 1 .. Len(q.replies) : j < k => q.replies[j].to < q.replies[k].to
      /\ \A n \in 1 .. d : Asks(q.batch[n]) => \E k \in 1 .. Len(q.replies) : q.replies[k].to = n
      /\ \A k \in 1 .. Len(q.replies) : Silent(q.batch[q.replies[k].to]) => q.replies[k].kind = "error"
  <2>1. Len(q.todo) <= Len(q.batch)
    BY DEF Progress
  <2>2. d \in Nat
    BY <1>1, <2>1 DEF Done
  <2> QED
    BY <2>1, <2>2 DEF Progress
<1>3. Head(q.todo) = q.batch[d + 1]
  BY <1>1, <1>2
<1>4. /\ a.batch = q.batch /\ a.todo = Tail(q.todo)
      /\ a.replies = IF reply = "none" THEN q.replies ELSE Append(q.replies, w)
  BY DEF IsAnswered
<1>5. /\ Len(a.todo) = Len(q.todo) - 1 /\ Done(a) = d + 1
      /\ \A j \in 1 .. Len(a.todo) : a.todo[j] = q.todo[j + 1]
  <2>1. /\ Len(Tail(q.todo)) = Len(q.todo) - 1
        /\ \A j \in 1 .. Len(Tail(q.todo)) : Tail(q.todo)[j] = q.todo[j + 1]
    BY <1>1, HeadTailProperties
  <2>2. Len(q.batch) - (Len(q.todo) - 1) = Len(q.batch) - Len(q.todo) + 1
    BY <1>1
  <2> QED
    BY <1>4, <2>1, <2>2 DEF Done
<1> HIDE DEF d
<1>9. Len(a.todo) <= Len(a.batch) /\ d + 1 \in Nat /\ 1 .. d \subseteq 1 .. Done(a)
  BY <1>1, <1>2, <1>4, <1>5
<1>6. \A j \in 1 .. Len(a.todo) : a.todo[j] = a.batch[Done(a) + j]
  <2> SUFFICES ASSUME NEW j \in 1 .. Len(a.todo)
               PROVE  a.todo[j] = a.batch[Done(a) + j]
    OBVIOUS
  <2>1. j + 1 \in 1 .. Len(q.todo) /\ d + (j + 1) = Done(a) + j
    BY <1>1, <1>2, <1>5
  <2> QED
    BY <1>2, <1>4, <1>5, <2>1
<1>7. CASE reply = "none"
  <2>1. a.replies = q.replies
    BY <1>4, <1>7
  <2>2. ASSUME NEW n \in 1 .. Done(a), Asks(a.batch[n])
        PROVE  \E k \in 1 .. Len(a.replies) : a.replies[k].to = n
    <3>1. n \in 1 .. d
      BY <1>2, <1>3, <1>4, <1>5, <1>7, <2>2
    <3> QED
      BY <1>2, <1>4, <2>1, <2>2, <3>1
  <2>3. \A k \in 1 .. Len(a.replies) : a.replies[k].to \in 1 .. Done(a)
    BY <1>2, <1>5, <2>1
  <2> QED
    <3>1. \A j, k \in 1 .. Len(a.replies) : j < k => a.replies[j].to < a.replies[k].to
      BY <1>2, <2>1
    <3>2. \A k \in 1 .. Len(a.replies) : Silent(a.batch[a.replies[k].to]) => a.replies[k].kind = "error"
      BY <1>2, <1>4, <2>1
    <3> QED
      BY <1>9, <1>6, <2>2, <2>3, <3>1, <3>2 DEF Progress
<1>8. CASE reply # "none"
  <2> DEFINE l == Len(q.replies)
  <2>1. /\ Len(a.replies) = l + 1 /\ a.replies[l + 1] = w
        /\ \A k \in 1 .. l : a.replies[k] = q.replies[k]
    BY <1>1, <1>4, <1>8
  <2>2. w.to = d + 1 /\ w.kind = reply /\ l \in Nat
    BY <1>1
  <2> HIDE DEF w, l
  <2>3. \A k \in 1 .. Len(a.replies) : k \in 1 .. l \/ k = l + 1
    BY <2>1, <2>2
  <2>4. \A k \in 1 .. Len(a.replies) : a.replies[k].to \in 1 .. Done(a)
    <3> SUFFICES ASSUME NEW k \in 1 .. Len(a.replies) PROVE a.replies[k].to \in 1 .. Done(a)
      OBVIOUS
    <3>1. CASE k \in 1 .. l
      <4>1. a.replies[k].to \in 1 .. d
        BY <1>2, <2>1, <3>1 DEF l
      <4> QED
        BY <1>9, <4>1
    <3>2. CASE k = l + 1
      BY <1>2, <1>5, <2>1, <2>2, <3>2
    <3> QED
      BY <2>3, <3>1, <3>2
  <2>5. ASSUME NEW j \in 1 .. Len(a.replies), NEW k \in 1 .. Len(a.replies), j < k
        PROVE  a.replies[j].to < a.replies[k].to
    <3>1. j \in 1 .. l
      BY <2>1, <2>2, <2>5
    <3>2. CASE k \in 1 .. l
      BY <1>2, <2>1, <2>5, <3>1, <3>2 DEF l
    <3>3. CASE k = l + 1
      <4>1. a.replies[j].to \in 1 .. d
        BY <1>2, <2>1, <3>1 DEF l
      <4> QED
        BY <1>2, <2>1, <2>2, <3>3, <4>1
    <3> QED
      BY <2>3, <3>2, <3>3
  <2>6. ASSUME NEW n \in 1 .. Done(a), Asks(a.batch[n])
        PROVE  \E k \in 1 .. Len(a.replies) : a.replies[k].to = n
    <3>1. CASE n \in 1 .. d
      <4>1. PICK k \in 1 .. l : q.replies[k].to = n
        BY <1>2, <1>4, <2>6, <3>1 DEF l
      <4> QED
        BY <2>1, <2>2, <4>1
    <3>2. CASE n = d + 1
      <4>1. l + 1 \in 1 .. Len(a.replies)
        BY <2>1, <2>2
      <4> QED
        BY <2>1, <2>2, <3>2, <4>1
    <3> QED
      BY <1>2, <1>5, <3>1, <3>2
  <2>7. ASSUME NEW k \in 1 .. Len(a.replies), Silent(a.batch[a.replies[k].to])
        PROVE  a.replies[k].kind = "error"
    <3>1. CASE k \in 1 .. l
      BY <1>2, <1>4, <2>1, <2>7, <3>1 DEF l
    <3>2. CASE k = l + 1
      BY <1>3, <1>4, <1>8, <2>1, <2>2, <2>7, <3>2
    <3> QED
      BY <2>3, <3>1, <3>2
  <2> QED
    BY <1>9, <1>6, <2>4, <2>5, <2>6, <2>7 DEF Progress
<1> QED
  BY <1>7, <1>8

LEMMA ProgressStep ==
    ASSUME Typed, AllProgress, [Next]_vars
    PROVE  AllProgress'
<1>1. /\ DOMAIN http = Requests
      /\ \A r \in Requests : InHand(http[r]) => http[r] \in Handling /\ Progress(http[r])
  BY DEF Typed, AllProgress
<1>2. ASSUME NEW r \in Requests, NEW q, http' = [http EXCEPT ![r] = q], InHand(q) => Progress(q)
      PROVE  AllProgress'
  <2>1. \A d \in Requests : InHand(http'[d]) => Progress(http'[d])
    BY <1>1, <1>2
  <2> QED
    BY <2>1 DEF AllProgress, InHand, Progress, Done, Asks, Silent
<1>3. ~InHand(Free) /\ ~InHand([at |-> "streaming"])
  BY DEF Free, InHand
<1>4. ASSUME NEW r \in Requests, NEW i \in Instances, NEW b \in Batches,
             NEW s \in SessionIds \cup {Nothing}, Post(r, i, b, s)
      PROVE  AllProgress'
  <2> DEFINE q == [at |-> "handling", instance |-> i, todo |-> b, session |-> s,
                   batch |-> b, header |-> Nothing, replies |-> <<>>]
  <2>1. b \in Seq(Entries)
    BY McpAssumption DEF Entries
  <2>2. Done(q) = 0 /\ Len(b) \in Nat
    BY <2>1 DEF Done
  <2>3. Progress(q)
    BY <2>2 DEF Progress
  <2>4. Goto(r, q) \/ UNCHANGED http
    BY <1>4 DEF Post
  <2>5. CASE UNCHANGED http
    BY <2>5 DEF AllProgress, InHand, Progress, Done, Asks, Silent
  <2> HIDE DEF q
  <2> QED
    BY <1>2, <2>3, <2>4, <2>5 DEF Goto
<1>5. ASSUME NEW r \in Requests, HandleNext(r)
      PROVE  AllProgress'
  <2> DEFINE q == http[r]
             m == Head(q.todo)
  <2>1. q \in Handling /\ Progress(q) /\ q.todo # <<>>
    BY <1>1, <1>5 DEF HandleNext, At, InHand
  <2>2. m \in Entries
    BY <2>1 DEF Handling
  <2>3. Len(q.todo) <= Len(q.batch)
    BY <2>1 DEF Progress
  <2>4. PICK reply \in IF m = Nothing THEN {"error"} ELSE Handle(m) :
            Goto(r, [Answered(q, reply) EXCEPT !.at = IF Mints(q, m, reply) THEN "minting" ELSE "handling"])
    BY <1>5 DEF HandleNext
  <2>5. /\ reply \in {"none", "result", "error"}
        /\ Asks(m) => reply # "none"
        /\ Silent(m) => reply # "result"
    BY <2>2, HandleAnswers
  <2>6. PICK x \in {"handling", "minting"} : Goto(r, [Answered(q, reply) EXCEPT !.at = x])
    BY <2>4
  <2>7. PICK a : a = [Answered(q, reply) EXCEPT !.at = x]
    OBVIOUS
  <2>8. IsAnswered(a, q, reply, x)
    BY <2>1, <2>3, <2>5, <2>7, AnsweredFields
  <2>9. Progress(a)
    BY <2>1, <2>5, <2>8, ProgressAnswered
  <2>10. http' = [http EXCEPT ![r] = a]
    BY <2>6, <2>7 DEF Goto
  <2> QED
    BY <1>2, <2>9, <2>10
<1>6. ASSUME NEW r \in Requests, NEW s \in SessionIds, Mint(r, s)
      PROVE  AllProgress'
  <2>1. http[r] \in Handling /\ Progress(http[r])
    BY <1>1, <1>6 DEF Mint, At, InHand
  <2>2. ASSUME NEW q, \/ q = [http[r] EXCEPT !.at = "handling"]
                      \/ q = [http[r] EXCEPT !.at = "handling", !.session = s, !.header = s]
        PROVE  q.todo = http[r].todo /\ q.batch = http[r].batch /\ q.replies = http[r].replies
    BY <2>1, <2>2 DEF Handling
  <2>3. PICK q : /\ Goto(r, q)
                 /\ \/ q = [http[r] EXCEPT !.at = "handling"]
                    \/ q = [http[r] EXCEPT !.at = "handling", !.session = s, !.header = s]
    BY <1>6 DEF Mint
  <2>4. q.todo = http[r].todo /\ q.batch = http[r].batch /\ q.replies = http[r].replies
    BY <2>2, <2>3
  <2>5. Progress(q)
    BY <2>1, <2>4 DEF Progress, Done
  <2> QED
    BY <1>2, <2>3, <2>5 DEF Goto
<1>7. ASSUME NEW r \in Requests,
             \/ Respond(r) \/ CloseStream(r)
             \/ \E s \in SessionIds \cup {Nothing} : HandleGet(r, s)
      PROVE  AllProgress'
  <2>1. CASE UNCHANGED http
    BY <2>1 DEF AllProgress, InHand, Progress, Done, Asks, Silent
  <2> QED
    BY <1>2, <1>3, <1>7, <2>1 DEF Respond, CloseStream, HandleGet, Goto
<1>8. CASE Restart
  BY <1>8 DEF Restart, AllProgress, InHand, Free
<1>9. CASE UNCHANGED http
  BY <1>9 DEF AllProgress, InHand, Progress, Done, Asks, Silent
<1> QED
  BY <1>4, <1>5, <1>6, <1>7, <1>8, <1>9 DEF Next, vars, Tick, HandleDelete

LEMMA Invariance == Spec => [](Typed /\ AllProgress)
<1>1. Init => Typed /\ AllProgress
  <2> SUFFICES ASSUME Init PROVE Typed /\ AllProgress
    OBVIOUS
  <2>1. Live = {} /\ IsFiniteSet(Live) /\ Cardinality(Live) = 0
    BY FS_EmptySet DEF Init, Live
  <2>2. \A r \in Requests : http[r].at = "idle" /\ ~InHand(http[r])
    BY DEF Init, Free, InHand
  <2> QED
    BY <2>1, <2>2, McpAssumption DEF Init, Typed, TypeOK, AllProgress
<1>2. Typed /\ AllProgress /\ [Next]_vars => Typed' /\ AllProgress'
  BY TypedStep, ProgressStep
<1> QED
  BY <1>1, <1>2, PTL DEF Spec

(* The store never holds more than MaxSessions, expired ones included, and *)
(* every session a client was told of has been issued.                     *)
THEOREM TypeCorrect == Spec => []TypeOK
<1>1. Typed => TypeOK
  BY DEF Typed
<1> QED
  BY <1>1, Invariance, PTL

(* When a POST is about to respond, every message that asks has been       *)
(* answered exactly once and in order, whatever the batch: of any length,  *)
(* with null entries, notifications and handlers that fail.                *)
THEOREM QuestionsAreAnswered == Spec => []EveryQuestionAnswered
<1>1. Typed /\ AllProgress => EveryQuestionAnswered
  <2> SUFFICES ASSUME Typed, AllProgress, NEW r \in Requests, At(r, "handling"), http[r].todo = <<>>
               PROVE  LET q == http[r]
                          answered == {q.replies[k].to : k \in DOMAIN q.replies}
                      IN /\ \A j, k \in DOMAIN q.replies : j < k => q.replies[j].to < q.replies[k].to
                         /\ \A n \in DOMAIN q.batch :
                              LET m == q.batch[n] IN
                              /\ (m = Nothing \/ (m.asks /\ m.method # "notification")) => n \in answered
                              /\ (m # Nothing /\ ~m.asks) =>
                                   \A k \in DOMAIN q.replies : q.replies[k].to = n => q.replies[k].kind = "error"
    BY DEF EveryQuestionAnswered
  <2> DEFINE q == http[r]
  <2>1. q \in Handling /\ Progress(q) /\ q.todo = <<>>
    BY DEF At, Typed, AllProgress, InHand
  <2>2. /\ DOMAIN q.replies = 1 .. Len(q.replies) /\ DOMAIN q.batch = 1 .. Len(q.batch)
        /\ Done(q) = Len(q.batch)
    BY <2>1 DEF Handling, Done
  <2> HIDE DEF q
  <2>3. \A j, k \in DOMAIN q.replies : j < k => q.replies[j].to < q.replies[k].to
    BY <2>1, <2>2 DEF Progress
  <2>4. \A n \in DOMAIN q.batch : Asks(q.batch[n]) => \E k \in DOMAIN q.replies : q.replies[k].to = n
    BY <2>1, <2>2 DEF Progress
  <2>5. \A k \in DOMAIN q.replies : Silent(q.batch[q.replies[k].to]) => q.replies[k].kind = "error"
    BY <2>1, <2>2 DEF Progress
  <2> QED
    BY <2>3, <2>4, <2>5 DEF q, Asks, Silent
<1> QED
  BY <1>1, Invariance, PTL

-----------------------------------------------------------------------------
(* A request that mints has nothing to lose: it has made no session, and   *)
(* once it has, it makes no other.                                         *)
LEMMA MintsOnceStep ==
    ASSUME Typed, AllProgress, MintsOnce, [Next]_vars
    PROVE  MintsOnce'
<1>1. /\ DOMAIN http = Requests
      /\ \A r \in Requests : InHand(http[r]) => http[r] \in Handling /\ Progress(http[r])
  BY DEF Typed, AllProgress
<1> DEFINE Once(q) == InHand(q) => /\ q.session = Nothing => q.header = Nothing
                                   /\ q.at = "minting" => q.session = Nothing
<1>2. \A r \in Requests : Once(http[r])
  BY DEF MintsOnce
<1>3. ASSUME NEW r \in Requests, NEW q, http' = [http EXCEPT ![r] = q], Once(q)
      PROVE  MintsOnce'
  <2>1. \A d \in Requests : Once(http'[d])
    <3> HIDE DEF Once
    <3> QED
      BY <1>1, <1>2, <1>3
  <2> QED
    BY <2>1 DEF MintsOnce, InHand
<1>4. Once(Free) /\ Once([at |-> "streaming"])
  BY DEF Free, InHand
<1>5. ASSUME NEW r \in Requests, NEW i \in Instances, NEW b \in Batches,
             NEW s \in SessionIds \cup {Nothing}, Post(r, i, b, s)
      PROVE  MintsOnce'
  <2>1. CASE UNCHANGED http
    BY <2>1 DEF MintsOnce, InHand
  <2> QED
    BY <1>3, <1>5, <2>1 DEF Post, Goto
<1>6. ASSUME NEW r \in Requests, HandleNext(r)
      PROVE  MintsOnce'
  <2> DEFINE q == http[r]
             m == Head(q.todo)
  <2>1. q \in Handling /\ Progress(q) /\ q.todo # <<>> /\ q.at = "handling"
    BY <1>1, <1>6 DEF HandleNext, At, InHand
  <2>2. m \in Entries
    BY <2>1 DEF Handling
  <2>3. Len(q.todo) <= Len(q.batch)
    BY <2>1 DEF Progress
  <2>4. PICK reply \in IF m = Nothing THEN {"error"} ELSE Handle(m) :
            Goto(r, [Answered(q, reply) EXCEPT !.at = IF Mints(q, m, reply) THEN "minting" ELSE "handling"])
    BY <1>6 DEF HandleNext
  <2>5. reply \in {"none", "result", "error"}
    BY <2>2, HandleAnswers
  <2>6. PICK x \in {"handling", "minting"} :
            /\ Goto(r, [Answered(q, reply) EXCEPT !.at = x])
            /\ x = "minting" => q.session = Nothing
    BY <2>4 DEF Mints
  <2>7. PICK a : a = [Answered(q, reply) EXCEPT !.at = x]
    OBVIOUS
  <2>8. IsAnswered(a, q, reply, x)
    BY <2>1, <2>3, <2>5, <2>7, AnsweredFields
  <2>9. Once(a)
    <3>1. a.at = x /\ a.session = q.session /\ a.header = q.header
      BY <2>8 DEF IsAnswered
    <3>2. q.session = Nothing => q.header = Nothing
      BY <1>2, <2>1 DEF InHand
    <3> QED
      BY <2>6, <3>1, <3>2
  <2>10. http' = [http EXCEPT ![r] = a]
    BY <2>6, <2>7 DEF Goto
  <2> QED
    BY <1>3, <2>9, <2>10
<1>7. ASSUME NEW r \in Requests, NEW s \in SessionIds, Mint(r, s)
      PROVE  MintsOnce'
  <2>1. http[r] \in Handling /\ http[r].at = "minting" /\ s # Nothing
    BY <1>1, <1>7, McpAssumption DEF Mint, At, InHand
  <2>2. PICK q : /\ Goto(r, q)
                 /\ \/ q = [http[r] EXCEPT !.at = "handling"]
                    \/ q = [http[r] EXCEPT !.at = "handling", !.session = s, !.header = s]
    BY <1>7 DEF Mint
  <2>3. Once(q)
    BY <1>2, <2>1, <2>2 DEF Handling, InHand
  <2> HIDE DEF Once
  <2> QED
    BY <1>3, <2>2, <2>3 DEF Goto
<1>8. ASSUME NEW r \in Requests,
             \/ Respond(r) \/ CloseStream(r)
             \/ \E s \in SessionIds \cup {Nothing} : HandleGet(r, s)
      PROVE  MintsOnce'
  <2>1. CASE UNCHANGED http
    BY <2>1 DEF MintsOnce, InHand
  <2> QED
    BY <1>3, <1>4, <1>8, <2>1 DEF Respond, CloseStream, HandleGet, Goto
<1>9. CASE Restart
  BY <1>9 DEF Restart, MintsOnce, InHand, Free
<1>10. CASE UNCHANGED http
  BY <1>10 DEF MintsOnce, InHand
<1> QED
  BY <1>5, <1>6, <1>7, <1>8, <1>9, <1>10 DEF Next, vars, Tick, HandleDelete

(* A client of instance i can name s, or is about to be told of it. *)
Named(s, i) ==
    \/ s \in told[i]
    \/ \E r \in Requests : InHand(http[r]) /\ http[r].header = s /\ http[r].instance = i

LEMMA NamedStep ==
    ASSUME Typed, AllProgress, MintsOnce, [Next]_vars, ~Restart,
           NEW s \in SessionIds, NEW i \in Instances, Named(s, i)
    PROVE  Named(s, i)'
<1>1. /\ DOMAIN http = Requests /\ told \in [Instances -> SUBSET issued] /\ s # Nothing
      /\ \A r \in Requests : InHand(http[r]) => http[r] \in Handling /\ Progress(http[r])
  BY McpAssumption DEF Typed, TypeOK, AllProgress
<1>2. ASSUME NEW r \in Requests, NEW q, http' = [http EXCEPT ![r] = q],
             \A j \in Instances : told[j] \subseteq told'[j],
             InHand(http[r]) /\ http[r].header = s /\ http[r].instance = i =>
                \/ InHand(q) /\ q.header = s /\ q.instance = i
                \/ s \in told'[i]
      PROVE  Named(s, i)'
  <2>1. CASE s \in told[i]
    BY <1>2, <2>1 DEF Named
  <2>2. ASSUME NEW d \in Requests, InHand(http[d]), http[d].header = s, http[d].instance = i
        PROVE  Named(s, i)'
    <3>1. CASE d = r
      <4>1. http'[r] = q
        BY <1>1, <1>2
      <4> QED
        BY <1>2, <2>2, <3>1, <4>1 DEF Named, InHand
    <3>2. CASE d # r
      <4>1. http'[d] = http[d]
        BY <1>1, <1>2, <3>2
      <4> QED
        BY <2>2, <4>1 DEF Named, InHand
    <3> QED
      BY <3>1, <3>2
  <2> QED
    BY <2>1, <2>2 DEF Named
<1>3. CASE UNCHANGED <<http, told>>
  BY <1>3 DEF Named, InHand
<1>4. ASSUME NEW r \in Requests, At(r, "idle") \/ At(r, "streaming"), UNCHANGED told,
             NEW q, Goto(r, q)
      PROVE  Named(s, i)'
  BY <1>2, <1>4 DEF At, InHand, Goto
<1>5. ASSUME NEW r \in Requests, NEW j \in Instances, NEW b \in Batches,
             NEW t \in SessionIds \cup {Nothing}, Post(r, j, b, t)
      PROVE  Named(s, i)'
  BY <1>3, <1>4, <1>5 DEF Post
<1>6. ASSUME NEW r \in Requests, NEW t \in SessionIds \cup {Nothing},
             HandleGet(r, t) \/ CloseStream(r)
      PROVE  Named(s, i)'
  BY <1>3, <1>4, <1>6 DEF HandleGet, CloseStream
<1>7. ASSUME NEW r \in Requests, HandleNext(r)
      PROVE  Named(s, i)'
  <2> DEFINE q == http[r]
             m == Head(q.todo)
  <2>1. q \in Handling /\ Progress(q) /\ q.todo # <<>>
    BY <1>1, <1>7 DEF HandleNext, At, InHand
  <2>2. m \in Entries
    BY <2>1 DEF Handling
  <2>3. Len(q.todo) <= Len(q.batch)
    BY <2>1 DEF Progress
  <2>4. PICK reply \in IF m = Nothing THEN {"error"} ELSE Handle(m) :
            Goto(r, [Answered(q, reply) EXCEPT !.at = IF Mints(q, m, reply) THEN "minting" ELSE "handling"])
    BY <1>7 DEF HandleNext
  <2>5. reply \in {"none", "result", "error"}
    BY <2>2, HandleAnswers
  <2>6. PICK x \in {"handling", "minting"} : Goto(r, [Answered(q, reply) EXCEPT !.at = x])
    BY <2>4
  <2>7. PICK a : a = [Answered(q, reply) EXCEPT !.at = x]
    OBVIOUS
  <2>8. IsAnswered(a, q, reply, x)
    BY <2>1, <2>3, <2>5, <2>7, AnsweredFields
  <2>9. InHand(a) /\ a.header = q.header /\ a.instance = q.instance
    BY <2>8 DEF IsAnswered, InHand
  <2>10. http' = [http EXCEPT ![r] = a] /\ UNCHANGED told
    BY <1>7, <2>6, <2>7 DEF HandleNext, Goto
  <2> QED
    BY <1>2, <2>9, <2>10
<1>8. ASSUME NEW r \in Requests, NEW t \in SessionIds, Mint(r, t)
      PROVE  Named(s, i)'
  <2>1. http[r].at = "minting" /\ http[r].header = Nothing /\ UNCHANGED told
    BY <1>8 DEF Mint, At, MintsOnce, InHand
  <2>2. PICK q : Goto(r, q)
    BY <1>8 DEF Mint
  <2> QED
    BY <1>1, <1>2, <2>1, <2>2 DEF Goto
<1>9. ASSUME NEW r \in Requests, Respond(r)
      PROVE  Named(s, i)'
  <2>1. http[r] \in Handling
    BY <1>1, <1>9 DEF Respond, At, InHand
  <2>2. /\ \A j \in Instances : told[j] \subseteq told'[j]
        /\ http[r].header = s /\ http[r].instance = i => s \in told'[i]
    BY <1>1, <1>9, <2>1 DEF Respond, Handling
  <2> QED
    BY <1>2, <1>9, <2>2 DEF Respond, Goto
<1> QED
  BY <1>3, <1>5, <1>6, <1>7, <1>8, <1>9 DEF Next, vars, Tick, HandleDelete

LEMMA NoOrphansStep ==
    ASSUME Typed, AllProgress, MintsOnce, NoOrphans, [Next]_vars
    PROVE  NoOrphans'
<1>1. NoOrphans <=> \A s \in Live : Named(s, sessions[s].instance)
  BY DEF NoOrphans, Named, InHand
<1>2. NoOrphans' <=> \A s \in Live' : \A i : i = sessions'[s].instance => Named(s, i)'
  BY DEF NoOrphans, Named, InHand
<1>3. CASE Restart
  BY <1>2, <1>3 DEF Restart, Live
<1>4. CASE ~Restart
  <2>1. ASSUME NEW s \in SessionIds, s \in Live, s \in Live',
               sessions'[s].instance = sessions[s].instance,
               NEW i, i = sessions'[s].instance
        PROVE  Named(s, i)'
    <3>1. i \in Instances /\ i = sessions[s].instance
      BY <2>1 DEF Typed, TypeOK, Live, Session
    <3> QED
      BY <1>1, <1>4, <2>1, <3>1, NamedStep
  <2>2. ASSUME NEW r \in Requests, NEW i \in Instances, NEW b \in Batches,
               NEW t \in SessionIds \cup {Nothing}, Post(r, i, b, t)
        PROVE  \A s \in Live' : s \in Live /\ sessions'[s].instance = sessions[s].instance
    BY <2>2, LookedUp DEF Post, Live
  <2>3. ASSUME NEW r \in Requests, NEW t \in SessionIds \cup {Nothing}, HandleGet(r, t)
        PROVE  \A s \in Live' : s \in Live /\ sessions'[s].instance = sessions[s].instance
    BY <2>3, LookedUp DEF HandleGet, Live
  <2>4. ASSUME NEW t \in SessionIds, HandleDelete(t)
        PROVE  \A s \in Live' : s \in Live /\ sessions'[s].instance = sessions[s].instance
    BY <2>4 DEF HandleDelete, Live, Typed, TypeOK
  <2>5. ASSUME NEW r \in Requests, NEW t \in SessionIds, Mint(r, t)
        PROVE  \A s \in Live' : \A j : j = sessions'[s].instance => Named(s, j)'
    <3>1. http[r] \in Handling /\ DOMAIN http = Requests
      BY <2>5 DEF Mint, At, Typed, InHand
    <3>2. PICK i \in Instances : i = http[r].instance
      BY <3>1 DEF Handling
    <3>3. sessions' = CreateIn(i, t)
      BY <2>5, <3>2 DEF Mint
    <3>4. ASSUME t \in Live', sessions'[t].instance = i
          PROVE  Named(t, i)'
      <4>1. sessions'[t] # Nothing
        BY <3>4 DEF Live
      <4>2. http'[r] = [http[r] EXCEPT !.at = "handling", !.session = t, !.header = t]
        BY <2>5, <3>1, <4>1 DEF Mint, Goto
      <4>3. http'[r].at = "handling" /\ http'[r].header = t /\ http'[r].instance = i
        BY <3>1, <3>2, <4>2 DEF Handling
      <4> QED
        BY <3>4, <4>3 DEF Named, InHand
    <3>5. \A s \in Live' : /\ s \in SessionIds
                           /\ \/ s \in Live /\ sessions'[s].instance = sessions[s].instance
                              \/ s = t /\ sessions'[s].instance = i
      BY <3>3, Created DEF Live
    <3> QED
      BY <2>1, <3>4, <3>5
  <2>7. CASE \A s \in Live' : s \in Live /\ sessions'[s].instance = sessions[s].instance
    <3>1. ASSUME NEW s \in Live', NEW i, i = sessions'[s].instance
          PROVE  Named(s, i)'
      <4>1. s \in SessionIds /\ s \in Live /\ sessions'[s].instance = sessions[s].instance
        BY <2>7 DEF Live
      <4> QED
        BY <2>1, <3>1, <4>1
    <3> QED
      BY <1>2, <3>1
  <2>8. UNCHANGED sessions => \A s \in Live' : s \in Live /\ sessions'[s].instance = sessions[s].instance
    BY DEF Live
  <2> QED
    BY <1>2, <1>4, <2>2, <2>3, <2>4, <2>5, <2>7, <2>8
       DEF Next, vars, Tick, HandleNext, Respond, CloseStream
<1> QED
  BY <1>3, <1>4

(* No session is kept that no client can name: one in the store has been   *)
(* told to a client of its instance or is in a response being prepared,    *)
(* however requests, deletions and expiry interleave.                      *)
THEOREM SessionsAreNamed == Spec => []NoOrphans
<1>1. Init => MintsOnce /\ NoOrphans
  BY DEF Init, MintsOnce, NoOrphans, InHand, Free, Live
<1>2. Typed /\ AllProgress /\ MintsOnce /\ NoOrphans /\ [Next]_vars => MintsOnce' /\ NoOrphans'
  BY MintsOnceStep, NoOrphansStep
<1> QED
  BY <1>1, <1>2, Invariance, PTL DEF Spec

-----------------------------------------------------------------------------
(* A session used within its time to live is never lost to other clients,  *)
(* however many start sessions and however full the store is: only a       *)
(* DELETE of it or a restart ends it.                                      *)
THEOREM ActiveAreKept == Spec => ActiveSessionsSurvive
<1> DEFINE Survive == \A s \in Live : sessions'[s] = Nothing /\ ~Expired(s) => HandleDelete(s) \/ Restart
<1>1. ASSUME Typed, [Next]_vars
      PROVE  [Survive]_vars
  <2> SUFFICES ASSUME NEW s \in Live, sessions'[s] = Nothing, ~Expired(s), ~Restart
               PROVE  HandleDelete(s)
    OBVIOUS
  <2> USE <1>1
  <2>1. s \in SessionIds /\ sessions[s] # Nothing
    BY DEF Live
  <2>2. ASSUME NEW t \in SessionIds \cup {Nothing}, NEW r \in Requests
        PROVE  ~HandleGet(r, t) /\ \A i \in Instances, b \in Batches : ~Post(r, i, b, t)
    BY <2>1, LookedUp DEF Post, HandleGet
  <2>3. ASSUME NEW r \in Requests, NEW t \in SessionIds
        PROVE  ~Mint(r, t)
    <3> SUFFICES ASSUME Mint(r, t) PROVE FALSE
      OBVIOUS
    <3>1. http[r].instance \in Instances
      BY DEF Mint, At, Typed, InHand, Handling
    <3> QED
      BY <2>1, <3>1, Created DEF Mint
  <2>4. sessions' # sessions
    BY <2>1
  <2>5. PICK t \in SessionIds : HandleDelete(t)
    BY <2>2, <2>3, <2>4 DEF Next, vars, Tick, HandleNext, Respond, CloseStream
  <2>6. s = t
    BY <2>1, <2>5 DEF HandleDelete, Typed, TypeOK
  <2> QED
    BY <2>5, <2>6
<1>2. Spec => []Typed /\ [][Next]_vars
  BY Invariance, PTL DEF Spec
<1>3. Typed /\ [Next]_vars => [Survive]_vars
  BY <1>1
<1>4. Spec => [][Survive]_vars
  <2> HIDE DEF Survive
  <2> QED
    BY <1>2, <1>3, PTL
<1> QED
  BY <1>4 DEF ActiveSessionsSurvive
=============================================================================
