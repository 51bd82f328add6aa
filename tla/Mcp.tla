-------------------------------- MODULE Mcp --------------------------------
(***************************************************************************)
(* The MCP endpoint: the Streamable HTTP transport of internal/mcp/        *)
(* http.go, the dispatch of internal/mcp/server.go with its backend        *)
(* (internal/service/mcpbackend.go), and the session store of internal/    *)
(* mcp/session.go.                                                         *)
(*                                                                         *)
(* Each operation of the store and each message of a batch is a step, so   *)
(* requests interleave between them.  A message is its method, whether it  *)
(* asks for an answer (it has an id), and what is wrong with it; what the  *)
(* backend makes of it is open.  DeleteByInstance is left out, since       *)
(* nothing in the program calls it.                                        *)
(***************************************************************************)
EXTENDS Naturals, Sequences, FiniteSets

CONSTANTS
    Requests,    \* concurrent HTTP requests
    Instances,   \* what a bearer token may authorise
    SessionIds,  \* session identifiers, never reused
    Batches,     \* message sequences clients send
    Nothing,     \* no session; a null entry of a batch
    TTL,         \* ticks a session survives without activity
    MaxSessions, \* sessions kept at most
    MaxTime      \* bound on the clock

VARIABLES
    sessions,  \* sessions[s]: its instance and when it was last seen, or Nothing
    http,      \* http[r]: what request r is about to do, and its locals
    now,
    issued,    \* history: identifiers given out
    told       \* history: told[i]: sessions a response named to a client of i

vars == <<sessions, http, now, issued, told>>

Methods == {"initialize", "ping", "tools/list", "tools/call", "notification", "unknown"}
Message == [method : Methods, asks : BOOLEAN, flaw : {"none", "envelope", "params"}]
Session == [instance : Instances, seen : 0 .. MaxTime]
Free == [at |-> "idle"]

ASSUME McpAssumption ==
    /\ TTL \in Nat /\ MaxSessions \in Nat \ {0} /\ MaxTime \in Nat
    /\ Batches \subseteq Seq(Message \cup {Nothing})
    /\ Nothing \notin SessionIds /\ Nothing \notin Session

Goto(r, locals) == http' = [http EXCEPT ![r] = locals]
At(r, step) == http[r].at = step

Init ==
    /\ sessions = [s \in SessionIds |-> Nothing]
    /\ http = [r \in Requests |-> Free]
    /\ now = 0
    /\ issued = {}
    /\ told = [i \in Instances |-> {}]

-----------------------------------------------------------------------------
\* The session store.
Live == {s \in SessionIds : sessions[s] # Nothing}
Expired(s) == s \in Live /\ now - sessions[s].seen > TTL

\* The store after Get(s), which finds s exactly when it is not expired.
AfterGet(s) ==
    [sessions EXCEPT ![s] = IF @ = Nothing \/ Expired(s)
                              THEN Nothing ELSE [instance |-> sessions[s].instance, seen |-> now]]
Found(s) == s \in Live /\ ~Expired(s)

-----------------------------------------------------------------------------
\* POST.  A session named is looked up once, before the first message; one
\* that is gone, or another instance's, ends the request (after a refresh).
\* A version that is not supported and a body that is not JSON-RPC end it
\* without touching anything and are left out.
Post(r, i, batch, s) ==
    /\ At(r, "idle")
    /\ s # Nothing => s \in issued
    /\ sessions' = IF s = Nothing THEN sessions ELSE AfterGet(s)
    /\ IF s = Nothing \/ (Found(s) /\ sessions[s].instance = i)
       THEN Goto(r, [at |-> "handling", instance |-> i, todo |-> batch, session |-> s,
                     batch |-> batch, header |-> Nothing, replies |-> <<>>])
       ELSE UNCHANGED http
    /\ UNCHANGED <<now, issued, told>>

\* A notification is not answered, unless its handler fails.
Served(m) == IF m.asks THEN "result" ELSE "none"

\* What Handle may return for a message: a result, an error, or nothing.
Handle(m) ==
    CASE m.flaw = "envelope" -> {IF m.asks THEN "error" ELSE "none"}
      [] m.flaw # "envelope" /\ m.method \in {"initialize", "tools/list", "tools/call"} ->
             IF m.flaw = "params" THEN {"error"} ELSE {Served(m), "error"}
      [] m.flaw # "envelope" /\ m.method = "ping" -> {Served(m)}
      [] m.flaw # "envelope" /\ m.method = "notification" -> {"none"}
      [] m.flaw # "envelope" /\ m.method = "unknown" -> {IF m.asks THEN "error" ELSE "none"}

\* Mutant of Mints: every initialize of a batch makes a session.
MintsAgain(q, m, reply) == m # Nothing /\ m.method = "initialize" /\ reply = "result"

\* The first successful initialize makes a session for a client without one.
Mints(q, m, reply) ==
    m # Nothing /\ m.method = "initialize" /\ reply = "result" /\ q.session = Nothing

\* Mutant of Answered: a message that is not answered ends the request.
AnsweredOnce(q, reply) ==
    [q EXCEPT !.todo = IF reply = "none" THEN <<>> ELSE Tail(@),
              !.replies = IF reply = "none" THEN @ ELSE Append(@, [to |-> Len(q.batch) - Len(q.todo) + 1, kind |-> reply])]

\* The request with its next message dealt with.
Answered(q, reply) ==
    [q EXCEPT !.todo = Tail(@),
              !.replies = IF reply = "none" THEN @
                          ELSE Append(@, [to |-> Len(q.batch) - Len(q.todo) + 1, kind |-> reply])]

HandleNext(r) ==
    /\ At(r, "handling") /\ http[r].todo # <<>>
    /\ LET q == http[r]
           m == Head(q.todo)
       IN \E reply \in IF m = Nothing THEN {"error"} ELSE Handle(m) :
            Goto(r, [Answered(q, reply) EXCEPT !.at = IF Mints(q, m, reply) THEN "minting" ELSE "handling"])
    /\ UNCHANGED <<sessions, now, issued, told>>

\* Mutant of CreateIn: the oldest session makes room.
CreateInEvicting(i, s) ==
    LET full == Cardinality(Live) >= MaxSessions
        oldest == CHOOSE t \in Live \cup {s} : \A u \in Live : t \in Live /\ sessions[t].seen <= sessions[u].seen
    IN [t \in SessionIds |-> IF t = s THEN [instance |-> i, seen |-> now]
                             ELSE IF full /\ t = oldest THEN Nothing ELSE sessions[t]]

\* The store after Create: expired sessions go first, and a store that is full
\* all the same refuses.
CreateIn(i, s) ==
    LET kept == {t \in Live : ~Expired(t)} IN
    [t \in SessionIds |->
        IF t \in kept THEN sessions[t]
        ELSE IF t = s /\ Cardinality(kept) < MaxSessions THEN [instance |-> i, seen |-> now]
        ELSE Nothing]

\* A client that gets no session is answered all the same.
Mint(r, s) ==
    /\ At(r, "minting") /\ s \notin issued
    /\ sessions' = CreateIn(http[r].instance, s)
    /\ issued' = issued \cup {s}
    /\ Goto(r, IF sessions'[s] = Nothing THEN [http[r] EXCEPT !.at = "handling"]
               ELSE [http[r] EXCEPT !.at = "handling", !.session = s, !.header = s])
    /\ UNCHANGED <<now, told>>

\* The response: 202 without replies, the one reply, or all of a batch.
Respond(r) ==
    /\ At(r, "handling") /\ http[r].todo = <<>>
    /\ told' = [told EXCEPT ![http[r].instance] = @ \cup ({http[r].header} \ {Nothing})]
    /\ Goto(r, Free)
    /\ UNCHANGED <<sessions, now, issued>>

\* GET opens a stream of keepalives, which its client or the maximal lifetime
\* ends; a session named is refreshed, whichever instance it is of.
HandleGet(r, s) ==
    /\ At(r, "idle")
    /\ s # Nothing => s \in issued
    /\ sessions' = IF s = Nothing THEN sessions ELSE AfterGet(s)
    /\ IF s = Nothing \/ Found(s) THEN Goto(r, [at |-> "streaming"]) ELSE UNCHANGED http
    /\ UNCHANGED <<now, issued, told>>

CloseStream(r) ==
    /\ At(r, "streaming")
    /\ Goto(r, Free)
    /\ UNCHANGED <<sessions, now, issued, told>>

\* DELETE ends the session named, whichever instance it is of.
HandleDelete(s) ==
    /\ s \in issued
    /\ sessions' = [sessions EXCEPT ![s] = Nothing]
    /\ UNCHANGED <<http, now, issued, told>>

\* Sessions are lost with the process.
Restart ==
    /\ sessions' = [s \in SessionIds |-> Nothing]
    /\ http' = [r \in Requests |-> Free]
    /\ UNCHANGED <<now, issued, told>>

Tick ==
    /\ now < MaxTime
    /\ now' = now + 1
    /\ UNCHANGED <<sessions, http, issued, told>>

-----------------------------------------------------------------------------
Next ==
    \/ \E r \in Requests :
        \/ \E i \in Instances, b \in Batches, s \in SessionIds \cup {Nothing} : Post(r, i, b, s)
        \/ HandleNext(r) \/ Respond(r)
        \/ \E s \in SessionIds : Mint(r, s)
        \/ \E s \in SessionIds \cup {Nothing} : HandleGet(r, s)
        \/ CloseStream(r)
    \/ \E s \in SessionIds : HandleDelete(s)
    \/ Restart \/ Tick

Spec == Init /\ [][Next]_vars

-----------------------------------------------------------------------------
\* Type correctness; the store never holds more than its bound.
TypeOK ==
    /\ sessions \in [SessionIds -> Session \cup {Nothing}]
    /\ Cardinality(Live) <= MaxSessions
    /\ \A r \in Requests : http[r].at \in {"idle", "handling", "minting", "streaming"}
    /\ told \in [Instances -> SUBSET issued]

\* When a POST is about to respond, each message that asks has been answered
\* exactly once, in the order of the batch, and nothing else has, but the
\* entries that are not messages and the notifications whose handler failed
\* (handlePost, Server.Handle).
EveryQuestionAnswered ==
    \A r \in Requests : At(r, "handling") /\ http[r].todo = <<>> =>
        LET q == http[r]
            answered == {q.replies[k].to : k \in DOMAIN q.replies}
        IN /\ \A j, k \in DOMAIN q.replies : j < k => q.replies[j].to < q.replies[k].to
           /\ \A n \in DOMAIN q.batch :
                LET m == q.batch[n] IN
                /\ (m = Nothing \/ (m.asks /\ m.method # "notification")) => n \in answered
                /\ (m # Nothing /\ ~m.asks) =>
                     \A k \in DOMAIN q.replies : q.replies[k].to = n => q.replies[k].kind = "error"

\* No session is kept that no client can name: one in the store has been told
\* to a client of its instance, or is in the response being prepared
\* (handlePost mints at most one per request and always names it).
NoOrphans ==
    \A s \in Live :
        \/ s \in told[sessions[s].instance]
        \/ \E r \in Requests : http[r].at \in {"handling", "minting"}
                                 /\ http[r].header = s /\ http[r].instance = sessions[s].instance

\* A session used within its time to live is never lost to other clients,
\* however many start sessions: only a DELETE of it or a restart ends it.
ActiveSessionsSurvive ==
    [][\A s \in Live : sessions'[s] = Nothing /\ ~Expired(s) => HandleDelete(s) \/ Restart]_vars
=============================================================================
