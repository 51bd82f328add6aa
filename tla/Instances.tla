----------------------------- MODULE Instances -----------------------------
(***************************************************************************)
(* Instances, connectors and tokens, and how a request of an MCP client    *)
(* gets from its bearer token to the configuration a tool call runs with:  *)
(* internal/service/instance.go, connector.go, token.go and mcpbackend.go  *)
(* over their SQLite repositories and the connector registry, behind       *)
(* BearerAuth of internal/httpx/auth.go as internal/httpapi/router.go      *)
(* mounts it.                                                              *)
(*                                                                         *)
(* Each SQL statement, each call of the registry and each call of the      *)
(* target cache is a step.  One imported connector with one tool and a     *)
(* secret stands for all: instances differ in identifier, row, bindings    *)
(* and secrets.  Checks that a later statement repeats (a WHERE, a UNIQUE  *)
(* or a foreign key) are made there only.                                  *)
(***************************************************************************)
EXTENDS Naturals

CONSTANTS
    Ids, Slugs,      \* instance identifiers, never reused, and endpoint slugs
    Bases, Secrets,  \* base URLs and secret values an operator enters
    Versions, First, \* manifests of the connector, the one imported first
    Tokens, All,     \* bearer tokens; the scope of a token for every instance
    Admins,          \* concurrent operators
    Requests,        \* concurrent requests of MCP clients
    Nothing,         \* the absence of a row, an entry or a value
    CacheTTL,        \* ticks an entry of the target cache lives
    MaxWrites        \* bound on the operators' actions

ASSUME InstancesAssumption ==
    /\ First \in Versions /\ CacheTTL \in Nat /\ MaxWrites \in Nat
    /\ Nothing \notin Ids \cup {All} /\ Nothing \notin Versions

VARIABLES
    rows, tools, secrets, \* tables instances, instance_tools, instance_secrets
    connectors, registry, \* the stored manifest, and the compiled one in memory
    tokens,      \* tokens[t]: its scope, or Nothing when none or not usable
    cache,       \* cache[s]: a resolved instance with the ticks it has left
    op,          \* op[a]: what operator a's request is about to do
    req,         \* req[r]: what client request r is about to do
    writes,      \* operators' actions so far
    made,        \* history: identifiers given out
    spoiled,     \* history: requests overtaken by a write since they read the row
    suspect,     \* history: cache entries put by such requests
    crossed      \* history: connector operations overlapped since the last start

instanceVars == <<rows, tools, secrets>>
connectorVars == <<connectors, registry>>
history == <<made, spoiled, suspect, crossed>>
vars == <<instanceVars, connectorVars, tokens, cache, op, req, writes, history>>

Row == [slug : Slugs, enabled : BOOLEAN, base : Bases]
Config == [id : Ids, slug : Slugs, enabled : BOOLEAN, base : Bases,
           connector : Versions \cup {Nothing}, tool : BOOLEAN, secret : Secrets \cup {Nothing}]
Free == [at |-> "idle"]

\* Where a request stands: about to resolve, between the statements of a
\* resolution, or with a configuration in hand.
Resolving(q, for, id) ==
    [at |-> "resolving", for |-> for, slug |-> q.slug, scope |-> q.scope, id |-> id]
Reading(q, step, cfg) ==
    [at |-> step, for |-> q.for, slug |-> q.slug, scope |-> q.scope, id |-> q.id, cfg |-> cfg]
Calling(q, step, cfg) == [at |-> step, scope |-> q.scope, id |-> q.id, cfg |-> cfg]

OpAt(a, step) == op[a].at = step
OpGoto(a, locals) == op' = [op EXCEPT ![a] = locals]
At(r, step) == req[r].at = step
Goto(r, locals) == req' = [req EXCEPT ![r] = locals]

\* What the database says of an instance now, with a compiled connector.
Stored(i, compiled) ==
    [id |-> i, slug |-> rows[i].slug, enabled |-> rows[i].enabled, base |-> rows[i].base,
     connector |-> compiled, tool |-> tools[i], secret |-> secrets[i]]

Init ==
    /\ rows = [i \in Ids |-> Nothing]
    /\ tools = [i \in Ids |-> TRUE]
    /\ secrets = [i \in Ids |-> Nothing]
    /\ connectors = First
    /\ registry = connectors
    /\ tokens = [t \in Tokens |-> Nothing]
    /\ cache = [s \in Slugs |-> Nothing]
    /\ op = [a \in Admins |-> Free]
    /\ req = [r \in Requests |-> Free]
    /\ writes = 0
    /\ made = {} /\ spoiled = {} /\ suspect = {} /\ crossed = FALSE

-----------------------------------------------------------------------------
\* The operators' side.  An action starts by loading the compiled connector.
Begins(a) == OpAt(a, "idle") /\ writes < MaxWrites /\ writes' = writes + 1

Invalidating == [at |-> "invalidating", secret |-> Nothing]

\* Requests that have read a row and not yet resolved are overtaken.
Overtakes == spoiled' = spoiled \cup {r \in Requests : req[r].at \in {"row", "compiled", "bound", "loaded"}}

\* The creation form carries the credential, to be stored once the row is.
Create(a, i, row, secret) ==
    /\ Begins(a) /\ registry # Nothing /\ i \notin made
    /\ made' = made \cup {i}
    /\ OpGoto(a, [at |-> "inserting", id |-> i, row |-> row, secret |-> secret])
    /\ UNCHANGED <<instanceVars, connectorVars, tokens, cache, req, spoiled, suspect, crossed>>

\* The slug must be free and the connector must be there.
Insert(a) ==
    /\ OpAt(a, "inserting")
    /\ IF connectors # Nothing /\ \A i \in Ids : rows[i] # Nothing => rows[i].slug # op[a].row.slug
       THEN /\ rows' = [rows EXCEPT ![op[a].id] = op[a].row]
            /\ OpGoto(a, [at |-> "invalidating", id |-> op[a].id, secret |-> op[a].secret])
            /\ Overtakes
       ELSE OpGoto(a, Free) /\ UNCHANGED <<rows, spoiled>>
    /\ UNCHANGED <<tools, secrets, connectorVars, tokens, cache, req, writes, made, suspect, crossed>>

\* The configuration form carries every field but the slug.
Update(a, i, enabled, base) ==
    /\ Begins(a) /\ registry # Nothing /\ rows[i] # Nothing
    /\ OpGoto(a, [at |-> "updating", id |-> i,
                  row |-> [slug |-> rows[i].slug, enabled |-> enabled, base |-> base]])
    /\ UNCHANGED <<instanceVars, connectorVars, tokens, cache, req, history>>

WriteUpdate(a) ==
    /\ OpAt(a, "updating")
    /\ IF rows[op[a].id] # Nothing
       THEN /\ rows' = [rows EXCEPT ![op[a].id] = op[a].row]
            /\ OpGoto(a, Invalidating)
            /\ Overtakes
       ELSE OpGoto(a, Free) /\ UNCHANGED <<rows, spoiled>>
    /\ UNCHANGED <<tools, secrets, connectorVars, tokens, cache, req, writes, made, suspect, crossed>>

\* Bindings and secrets cascade; tokens have no foreign key and stay.
Delete(a, i) ==
    /\ Begins(a) /\ rows[i] # Nothing
    /\ rows' = [rows EXCEPT ![i] = Nothing]
    /\ tools' = [tools EXCEPT ![i] = TRUE]
    /\ secrets' = [secrets EXCEPT ![i] = Nothing]
    /\ OpGoto(a, Invalidating)
    /\ Overtakes
    /\ UNCHANGED <<connectorVars, tokens, cache, req, made, suspect, crossed>>

\* Mutant of SetSecret: the cache is not told.
SetSecretQuietly(a, i, value) ==
    /\ Begins(a) /\ registry # Nothing /\ rows[i] # Nothing
    /\ secrets' = [secrets EXCEPT ![i] = value]
    /\ UNCHANGED op
    /\ Overtakes
    /\ UNCHANGED <<rows, tools, connectorVars, tokens, cache, req, made, suspect, crossed>>

SetSecret(a, i, value) ==
    /\ Begins(a) /\ registry # Nothing /\ rows[i] # Nothing
    /\ secrets' = [secrets EXCEPT ![i] = value]
    /\ OpGoto(a, Invalidating)
    /\ Overtakes
    /\ UNCHANGED <<rows, tools, connectorVars, tokens, cache, req, made, suspect, crossed>>

\* The second half of a creation, which the operator is told of when it fails.
PostInstances(a) ==
    /\ OpAt(a, "storing")
    /\ IF registry # Nothing /\ rows[op[a].id] # Nothing
       THEN /\ secrets' = [secrets EXCEPT ![op[a].id] = op[a].secret]
            /\ OpGoto(a, Invalidating)
            /\ Overtakes
       ELSE OpGoto(a, Free) /\ UNCHANGED <<secrets, spoiled>>
    /\ UNCHANGED <<rows, tools, connectorVars, tokens, cache, req, writes, made, suspect, crossed>>

DeleteSecret(a, i) ==
    /\ Begins(a)
    /\ secrets' = [secrets EXCEPT ![i] = Nothing]
    /\ OpGoto(a, Invalidating)
    /\ Overtakes
    /\ UNCHANGED <<rows, tools, connectorVars, tokens, cache, req, made, suspect, crossed>>

SetToolEnabled(a, i, enabled) ==
    /\ Begins(a) /\ registry # Nothing /\ rows[i] # Nothing
    /\ tools' = [tools EXCEPT ![i] = enabled]
    /\ OpGoto(a, Invalidating)
    /\ Overtakes
    /\ UNCHANGED <<rows, secrets, connectorVars, tokens, cache, req, made, suspect, crossed>>

InvalidateAll(a) ==
    /\ OpAt(a, "invalidating")
    /\ cache' = [s \in Slugs |-> Nothing]
    /\ suspect' = {}
    /\ OpGoto(a, IF op[a].secret = Nothing THEN Free ELSE [at |-> "storing", id |-> op[a].id, secret |-> op[a].secret])
    /\ UNCHANGED <<instanceVars, connectorVars, tokens, req, writes, made, spoiled, crossed>>

-----------------------------------------------------------------------------
\* Connectors.  The table is written first, the registry after it; neither
\* touches the target cache.
Busy == \E a \in Admins : op[a].at \in {"upserting", "putting", "removing"}

\* A manifest is parsed and compiled before anything is stored.
ImportManifest(a, v) ==
    /\ Begins(a)
    /\ OpGoto(a, [at |-> "upserting", version |-> v])
    /\ crossed' = (crossed \/ Busy)
    /\ UNCHANGED <<instanceVars, connectorVars, tokens, cache, req, made, spoiled, suspect>>

\* Mutant of Upsert: the registry is updated even though the write failed.
UpsertForgivingly(a) ==
    /\ OpAt(a, "upserting")
    /\ connectors' \in {connectors, op[a].version}
    /\ OpGoto(a, [at |-> "putting", version |-> op[a].version])
    /\ UNCHANGED <<instanceVars, registry, tokens, cache, req, writes, history>>

Upsert(a) ==
    /\ OpAt(a, "upserting")
    /\ connectors' = op[a].version
    /\ OpGoto(a, [at |-> "putting", version |-> op[a].version])
    /\ UNCHANGED <<instanceVars, registry, tokens, cache, req, writes, history>>

Put(a) ==
    /\ OpAt(a, "putting")
    /\ registry' = op[a].version
    /\ OpGoto(a, Free)
    /\ UNCHANGED <<instanceVars, connectors, tokens, cache, req, writes, history>>

\* Refused while an instance uses it, by the count and by the foreign key.
DeleteConnector(a) ==
    /\ Begins(a) /\ connectors # Nothing
    /\ \A i \in Ids : rows[i] = Nothing
    /\ connectors' = Nothing
    /\ OpGoto(a, [at |-> "removing"])
    /\ crossed' = (crossed \/ Busy)
    /\ UNCHANGED <<instanceVars, registry, tokens, cache, req, made, spoiled, suspect>>

Remove(a) ==
    /\ OpAt(a, "removing")
    /\ registry' = Nothing
    /\ OpGoto(a, Free)
    /\ UNCHANGED <<instanceVars, connectors, tokens, cache, req, writes, history>>

\* A statement that has not been executed yet fails.
WriteFails(a) ==
    /\ op[a].at \in {"inserting", "updating", "upserting", "storing"}
    /\ OpGoto(a, Free)
    /\ UNCHANGED <<instanceVars, connectorVars, tokens, cache, req, writes, history>>

\* A restart loses what is in memory; LoadAll compiles what is stored.
Restart ==
    /\ registry' = connectors
    /\ cache' = [s \in Slugs |-> Nothing]
    /\ op' = [a \in Admins |-> Free]
    /\ req' = [r \in Requests |-> Free]
    /\ spoiled' = {} /\ suspect' = {} /\ crossed' = FALSE
    /\ UNCHANGED <<instanceVars, connectors, tokens, writes, made>>

\* A token is minted for every instance or for one that exists.
CreateToken(a, t, scope) ==
    /\ Begins(a) /\ tokens[t] = Nothing
    /\ scope # All => rows[scope] # Nothing
    /\ tokens' = [tokens EXCEPT ![t] = scope]
    /\ UNCHANGED <<instanceVars, connectorVars, cache, op, req, history>>

\* Revoked, or expired.
Revoke(a, t) ==
    /\ Begins(a) /\ tokens[t] # Nothing
    /\ tokens' = [tokens EXCEPT ![t] = Nothing]
    /\ UNCHANGED <<instanceVars, connectorVars, cache, op, req, history>>

-----------------------------------------------------------------------------
\* The clients' side.  The slug is resolved twice: once to check the token's
\* scope (for = "check"), and once more to attach the configuration to the
\* request (for = "attach"); a call that finds nothing usable attached
\* resolves by identifier (for = "call").  A failed check ends the request, a
\* failed attachment does not.
Authenticate(r, t, s) ==
    /\ At(r, "idle") /\ tokens[t] # Nothing
    /\ Goto(r, Resolving([slug |-> s, scope |-> tokens[t]], "check", Nothing))
    /\ UNCHANGED <<instanceVars, connectorVars, tokens, cache, op, writes, history>>

\* Token.Scopes.
Scopes(scope, i) == scope \in {All, i}

\* Mutant of Attached: what was attached is used whatever instance it is.
AttachedUnchecked(q, cfg) == Calling([q EXCEPT !.id = cfg.id], "calling", cfg)

\* An attached configuration is used when it is of the authorised instance.
Attached(q, cfg) ==
    IF cfg.id = q.id THEN Calling(q, "calling", cfg) ELSE Resolving(q, "call", q.id)

\* What a resolved configuration is good for.
Resolved(q, cfg) ==
    CASE q.for = "check" /\ ~(Scopes(q.scope, cfg.id) /\ cfg.enabled) -> Free
      [] q.for = "check" /\ Scopes(q.scope, cfg.id) /\ cfg.enabled ->
             Resolving(q, "attach", cfg.id)
      [] q.for = "attach" -> Attached(q, cfg)
      [] q.for = "call" -> Calling(q, "calling", cfg)

\* What a failed resolution leads to.
Unresolved(q) ==
    IF q.for = "attach" THEN Resolving(q, "call", q.id) ELSE Free

\* The row a resolution looks for, by slug or by identifier.
Sought(q, i) == rows[i] # Nothing /\ IF q.for = "call" THEN i = q.id ELSE rows[i].slug = q.slug

CacheHit(r) ==
    /\ At(r, "resolving") /\ req[r].for # "call" /\ cache[req[r].slug] # Nothing
    /\ Goto(r, Resolved(req[r], cache[req[r].slug].cfg))
    /\ UNCHANGED <<instanceVars, connectorVars, tokens, cache, op, writes, history>>

ReadRow(r) ==
    /\ At(r, "resolving")
    /\ req[r].for # "call" => cache[req[r].slug] = Nothing
    /\ IF \E i \in Ids : Sought(req[r], i)
       THEN \E i \in Ids :
              /\ Sought(req[r], i)
              /\ Goto(r, Reading(req[r], "row", Stored(i, registry)))
       ELSE Goto(r, Unresolved(req[r]))
    /\ spoiled' = spoiled \ {r}
    /\ UNCHANGED <<instanceVars, connectorVars, tokens, cache, op, writes, made, suspect, crossed>>

\* resolve: the registry, the bindings and the secrets are read one after the
\* other.
ReadConnector(r) ==
    /\ At(r, "row")
    /\ Goto(r, IF registry = Nothing THEN Unresolved(req[r])
               ELSE Reading(req[r], "compiled", [req[r].cfg EXCEPT !.connector = registry]))
    /\ UNCHANGED <<instanceVars, connectorVars, tokens, cache, op, writes, history>>

ReadBindings(r) ==
    /\ At(r, "compiled")
    /\ Goto(r, Reading(req[r], "bound", [req[r].cfg EXCEPT !.tool = tools[req[r].cfg.id]]))
    /\ UNCHANGED <<instanceVars, connectorVars, tokens, cache, op, writes, history>>

ReadSecrets(r) ==
    /\ At(r, "bound")
    /\ Goto(r, Reading(req[r], "loaded", [req[r].cfg EXCEPT !.secret = secrets[req[r].cfg.id]]))
    /\ UNCHANGED <<instanceVars, connectorVars, tokens, cache, op, writes, history>>

\* Only a resolution by slug is cached.
Fill(r) ==
    /\ At(r, "loaded")
    /\ LET q == req[r] IN
       /\ Goto(r, Resolved(q, q.cfg))
       /\ IF q.for = "call" THEN UNCHANGED <<cache, suspect>>
          ELSE /\ cache' = [cache EXCEPT ![q.slug] = [cfg |-> q.cfg, left |-> CacheTTL]]
               /\ suspect' = IF r \in spoiled THEN suspect \cup {q.slug} ELSE suspect \ {q.slug}
    /\ UNCHANGED <<instanceVars, connectorVars, tokens, op, writes, made, spoiled, crossed>>

\* CallTool: a disabled instance or tool is refused, anything else runs.
CallTool(r) ==
    /\ At(r, "calling")
    /\ Goto(r, IF req[r].cfg.enabled /\ req[r].cfg.tool THEN Calling(req[r], "running", req[r].cfg) ELSE Free)
    /\ UNCHANGED <<instanceVars, connectorVars, tokens, cache, op, writes, history>>

\* ListTools resolves alike and only reads.
ListTools(r) ==
    /\ At(r, "calling")
    /\ Goto(r, Free)
    /\ UNCHANGED <<instanceVars, connectorVars, tokens, cache, op, writes, history>>

Return(r) ==
    /\ At(r, "running")
    /\ Goto(r, Free)
    /\ UNCHANGED <<instanceVars, connectorVars, tokens, cache, op, writes, history>>

\* Mutant of Tick: entries never expire.
TickForEver == UNCHANGED vars

Tick ==
    /\ cache' = [s \in Slugs |->
           IF cache[s] = Nothing \/ cache[s].left = 0 THEN Nothing ELSE [cache[s] EXCEPT !.left = @ - 1]]
    /\ suspect' = {s \in suspect : cache'[s] # Nothing}
    /\ UNCHANGED <<instanceVars, connectorVars, tokens, op, req, writes, made, spoiled, crossed>>

-----------------------------------------------------------------------------
Administer(a) ==
    \/ \E i \in Ids, s \in Slugs, e \in BOOLEAN, b \in Bases, x \in Secrets \cup {Nothing} :
           Create(a, i, [slug |-> s, enabled |-> e, base |-> b], x)
    \/ \E i \in Ids, e \in BOOLEAN, b \in Bases : Update(a, i, e, b)
    \/ \E i \in Ids : Delete(a, i) \/ DeleteSecret(a, i)
    \/ \E i \in Ids, x \in Secrets : SetSecret(a, i, x)
    \/ \E i \in Ids, e \in BOOLEAN : SetToolEnabled(a, i, e)
    \/ \E v \in Versions : ImportManifest(a, v)
    \/ DeleteConnector(a)
    \/ \E t \in Tokens, c \in Ids \cup {All} : CreateToken(a, t, c)
    \/ \E t \in Tokens : Revoke(a, t)

Commit(a) ==
    \/ Insert(a) \/ PostInstances(a) \/ WriteUpdate(a) \/ InvalidateAll(a)
    \/ Upsert(a) \/ Put(a) \/ Remove(a)

Serve(r) ==
    \/ CacheHit(r) \/ ReadRow(r) \/ ReadConnector(r) \/ ReadBindings(r) \/ ReadSecrets(r) \/ Fill(r)
    \/ CallTool(r) \/ ListTools(r) \/ Return(r)

Next ==
    \/ \E a \in Admins : Administer(a) \/ Commit(a) \/ WriteFails(a)
    \/ \E r \in Requests :
        \/ \E t \in Tokens, s \in Slugs : Authenticate(r, t, s)
        \/ Serve(r)
    \/ Restart \/ Tick

Spec == Init /\ [][Next]_vars

\* Handlers run to their end, and time passes.
FairSpec ==
    /\ Spec
    /\ \A a \in Admins : WF_vars(Commit(a))
    /\ \A r \in Requests : WF_vars(Serve(r))
    /\ WF_vars(Tick)

-----------------------------------------------------------------------------
\* Type correctness.  The foreign key keeps the connector of an instance, and
\* identifiers with a row have been given out.
TypeOK ==
    /\ rows \in [Ids -> Row \cup {Nothing}]
    /\ tools \in [Ids -> BOOLEAN]
    /\ secrets \in [Ids -> Secrets \cup {Nothing}]
    /\ {connectors, registry} \subseteq Versions \cup {Nothing}
    /\ tokens \in [Tokens -> Ids \cup {All, Nothing}]
    /\ cache \in [Slugs -> [cfg : Config, left : 0 .. CacheTTL] \cup {Nothing}]
    /\ writes \in 0 .. MaxWrites
    /\ \A i \in Ids : rows[i] # Nothing => i \in made /\ connectors # Nothing

\* A tool call only ever runs with the configuration of an instance its token
\* grants, enabled when it was read, although the slug is resolved twice and
\* may be given to another instance in between (BearerAuth.Middleware, attach,
\* MCPBackend.resolve).
RunsWhatWasAuthorised ==
    \A r \in Requests : req[r].at = "running" =>
        Scopes(req[r].scope, req[r].cfg.id) /\ req[r].cfg.enabled

\* Once every write to an instance has invalidated the cache, an entry is what
\* the database says of the instance, unless it was put by a resolution a write
\* overtook.  The connector in it may be another one: ImportManifest tells the
\* cache nothing (connector.go:142-145).
CacheFollowsWrites ==
    (\A a \in Admins : ~OpAt(a, "invalidating")) =>
        \A s \in Slugs : cache[s] # Nothing /\ s \notin suspect =>
            LET cfg == cache[s].cfg IN rows[cfg.id] # Nothing /\ cfg = Stored(cfg.id, cfg.connector)

\* Connector operations that did not overlap leave the registry as the table,
\* whatever failed in between (Connectors.ImportManifest, Delete).
RegistryFollowsTable == crossed \/ Busy \/ registry = connectors

\* Even an entry put after its invalidation, or with a connector that was then
\* replaced, is gone in the end: the cache agrees with the database and the
\* registry for good once operators stop writing.
CacheConverges ==
    <>[](\A s \in Slugs : cache[s] # Nothing =>
            LET cfg == cache[s].cfg IN rows[cfg.id] # Nothing /\ cfg = Stored(cfg.id, registry))

=============================================================================
