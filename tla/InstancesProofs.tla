-------------------------- MODULE InstancesProofs --------------------------
(* Proofs about the control plane: what a tool call runs with, what the    *)
(* target cache holds and what the connector registry says.                *)
EXTENDS Instances, TLAPS

(* What an operator's request carries from step to step. *)
Carried(a) ==
    /\ op[a].at = "inserting" => /\ op[a].id \in Ids /\ op[a].id \in made /\ op[a].row \in Row
                                 /\ op[a].secret \in Secrets \cup {Nothing}
    /\ op[a].at = "updating" => op[a].id \in Ids /\ op[a].row \in Row
    /\ op[a].at \in {"invalidating", "storing"} =>
           \/ op[a].at = "invalidating" /\ op[a].secret = Nothing
           \/ op[a].id \in Ids /\ op[a].secret \in Secrets
    /\ op[a].at \in {"upserting", "putting"} => op[a].version \in Versions

(* What a client's request carries. *)
InResolution == {"row", "compiled", "bound", "loaded"}
Asked(q) ==
    /\ q.at \in {"resolving"} \cup InResolution =>
           q.slug \in Slugs /\ q.for \in {"check", "attach", "call"}
    /\ q.at \in InResolution \cup {"calling", "running"} => q.cfg \in Config

Typed ==
    /\ TypeOK
    /\ DOMAIN op = Admins /\ DOMAIN req = Requests
    /\ \A a \in Admins : Carried(a)
    /\ \A r \in Requests : Asked(req[r])

(* From the check of its scope on, a request is for an instance its token  *)
(* grants, and what it has in hand is that instance's configuration.       *)
Granted(q) ==
    /\ q.at \in {"resolving"} \cup InResolution /\ q.for # "check" => Scopes(q.scope, q.id)
    /\ q.at \in InResolution /\ q.for = "call" => q.cfg.id = q.id
    /\ q.at \in {"calling", "running"} => Scopes(q.scope, q.cfg.id)
    /\ q.at = "running" => q.cfg.enabled
AllGranted == \A r \in Requests : Granted(req[r])

(* What a resolution has read of an instance is what is stored, unless a   *)
(* write came in between; the connector may have been replaced.            *)
ReadsHold ==
    \A r \in Requests : req[r].at \in InResolution /\ r \notin spoiled =>
        LET cfg == req[r].cfg IN rows[cfg.id] # Nothing /\ cfg = Stored(cfg.id, cfg.connector)

(* Connector operations that do not overlap: the one that runs is between  *)
(* its write to the table and its call of the registry, or before both.    *)
IsBusy(a) == op[a].at \in {"upserting", "putting", "removing"}
Serial ==
    crossed \/ /\ \A a, b \in Admins : IsBusy(a) /\ IsBusy(b) => a = b
               /\ \A a \in Admins :
                    /\ op[a].at = "upserting" => registry = connectors
                    /\ op[a].at = "putting" => connectors = op[a].version
                    /\ op[a].at = "removing" => connectors = Nothing
               /\ ~Busy => registry = connectors

-----------------------------------------------------------------------------
(* Types.  The operators' steps touch no request of a client. *)
LEMMA OperatorTyped ==
    ASSUME Typed, NEW a \in Admins, Administer(a) \/ Commit(a) \/ WriteFails(a)
    PROVE  Typed'
<1> USE InstancesAssumption DEF Typed, TypeOK, Carried, OpGoto, OpAt, Begins, Free, Invalidating,
        instanceVars, connectorVars, history
<1>1. ASSUME req' = req PROVE \A r \in Requests : Asked(req[r])'
  BY <1>1 DEF Asked
<1>2. ASSUME NEW i \in Ids, NEW s \in Slugs, NEW e \in BOOLEAN, NEW b \in Bases,
             NEW x \in Secrets \cup {Nothing},
             Create(a, i, [slug |-> s, enabled |-> e, base |-> b], x)
      PROVE  Typed'
  BY <1>1, <1>2 DEF Create, Row
<1>3. ASSUME NEW i \in Ids, NEW e \in BOOLEAN, NEW b \in Bases, Update(a, i, e, b)
      PROVE  Typed'
  BY <1>1, <1>3 DEF Update, Row
<1>4. ASSUME NEW i \in Ids, Delete(a, i)
      PROVE  Typed'
  BY <1>1, <1>4 DEF Delete
<1>5. ASSUME NEW i \in Ids, NEW x \in Secrets, SetSecret(a, i, x)
      PROVE  Typed'
  BY <1>1, <1>5 DEF SetSecret
<1>6. ASSUME NEW i \in Ids, NEW e \in BOOLEAN, SetToolEnabled(a, i, e)
      PROVE  Typed'
  BY <1>1, <1>6 DEF SetToolEnabled
<1>7. ASSUME NEW v \in Versions, ImportManifest(a, v)
      PROVE  Typed'
  BY <1>1, <1>7 DEF ImportManifest
<1>8. ASSUME NEW t \in Tokens, NEW c \in Ids \cup {All}, CreateToken(a, t, c)
      PROVE  Typed'
  BY <1>1, <1>8 DEF CreateToken
<1>9. ASSUME NEW t \in Tokens, Revoke(a, t)
      PROVE  Typed'
  BY <1>1, <1>9 DEF Revoke
<1>10. ASSUME Insert(a)
      PROVE  Typed'
  BY <1>1, <1>10 DEF Insert
<1>11. ASSUME PostInstances(a)
      PROVE  Typed'
  BY <1>1, <1>11 DEF PostInstances
<1>12. ASSUME WriteUpdate(a)
      PROVE  Typed'
  BY <1>1, <1>12 DEF WriteUpdate
<1>13. ASSUME InvalidateAll(a)
      PROVE  Typed'
  BY <1>1, <1>13 DEF InvalidateAll
<1>14. ASSUME Upsert(a)
      PROVE  Typed'
  BY <1>1, <1>14 DEF Upsert
<1>15. ASSUME Put(a)
      PROVE  Typed'
  BY <1>1, <1>15 DEF Put
<1>16. ASSUME Remove(a)
      PROVE  Typed'
  BY <1>1, <1>16 DEF Remove
<1>17. ASSUME WriteFails(a)
      PROVE  Typed'
  BY <1>1, <1>17 DEF WriteFails
<1>18. ASSUME DeleteConnector(a)
      PROVE  Typed'
  BY <1>1, <1>18 DEF DeleteConnector
<1>19. ASSUME NEW i \in Ids, DeleteSecret(a, i)
      PROVE  Typed'
  BY <1>1, <1>19 DEF DeleteSecret
<1> QED
  BY <1>2, <1>3, <1>4, <1>5, <1>6, <1>7, <1>8, <1>9, <1>10, <1>11, <1>12, <1>13, <1>14, <1>15, <1>16, <1>17, <1>18, <1>19 DEF Administer, Commit

(* What a resolution returns is well-formed for every stage of a request. *)
LEMMA StepsTyped ==
    ASSUME Typed, NEW r \in Requests
    PROVE  /\ \A i \in Ids : rows[i] # Nothing => Stored(i, registry) \in Config
           /\ \A cfg \in Config, v \in Versions : [cfg EXCEPT !.connector = v] \in Config
           /\ \A cfg \in Config, x \in BOOLEAN : [cfg EXCEPT !.tool = x] \in Config
           /\ \A cfg \in Config, y \in Secrets \cup {Nothing} : [cfg EXCEPT !.secret = y] \in Config
           /\ \A q, cfg : cfg \in Config /\ q.for \in {"check", "attach", "call"} /\ q.slug \in Slugs
                 => Asked(Resolved(q, cfg)) /\ Asked(Unresolved(q))
<1>1. ASSUME NEW i \in Ids, rows[i] # Nothing
      PROVE  Stored(i, registry) \in Config
  BY <1>1 DEF Typed, TypeOK, Row, Stored, Config
<1>2. /\ \A cfg \in Config, v \in Versions : [cfg EXCEPT !.connector = v] \in Config
      /\ \A cfg \in Config, x \in BOOLEAN : [cfg EXCEPT !.tool = x] \in Config
      /\ \A cfg \in Config, y \in Secrets \cup {Nothing} : [cfg EXCEPT !.secret = y] \in Config
  BY DEF Config
<1>3. ASSUME NEW q, NEW cfg \in Config, q.for \in {"check", "attach", "call"}, q.slug \in Slugs
      PROVE  Asked(Resolved(q, cfg)) /\ Asked(Unresolved(q))
  <2>1. \A id : Asked(Resolving(q, "attach", id)) /\ Asked(Resolving(q, "call", id))
    BY <1>3 DEF Asked, Resolving, InResolution
  <2>2. Asked(Calling(q, "calling", cfg)) /\ Asked(Free)
    BY DEF Asked, Calling, Free, InResolution
  <2> QED
    BY <1>3, <2>1, <2>2 DEF Resolved, Unresolved, Attached
<1> QED
  BY <1>1, <1>2, <1>3

(* A client's request changes only what it carries and the cache. *)
LEMMA ClientTyped ==
    ASSUME Typed, NEW r \in Requests,
           \/ \E t \in Tokens, s \in Slugs : Authenticate(r, t, s)
           \/ Serve(r)
    PROVE  Typed'
<1>1. Asked(req[r]) /\ TypeOK /\ DOMAIN op = Admins /\ DOMAIN req = Requests
  BY DEF Typed
<1>2. ASSUME NEW q, req' = [req EXCEPT ![r] = q], Asked(q), TypeOK', op' = op, made' = made
      PROVE  Typed'
  BY <1>2 DEF Typed, Asked, Carried
<1>3. UNCHANGED <<instanceVars, connectorVars, tokens, op, writes, made>>
  BY DEF Authenticate, Serve, CacheHit, ReadRow, ReadConnector, ReadBindings, ReadSecrets, Fill, CallTool,
         ListTools, Return, history
<1>4. cache' \in [Slugs -> [cfg : Config, left : 0 .. CacheTTL] \cup {Nothing}] => TypeOK'
  BY <1>1, <1>3 DEF TypeOK, instanceVars, connectorVars
<1>5. UNCHANGED cache => TypeOK'
  BY <1>1, <1>4 DEF TypeOK
<1>6. ASSUME NEW t \in Tokens, NEW s \in Slugs, Authenticate(r, t, s)
      PROVE  Typed'
  <2>1. Asked(Resolving([slug |-> s, scope |-> tokens[t]], "check", Nothing))
    BY DEF Asked, Resolving, InResolution
  <2> QED
    BY <1>2, <1>3, <1>5, <1>6, <2>1 DEF Authenticate, Goto
<1>7. CASE CacheHit(r)
  <2>1. cache[req[r].slug].cfg \in Config
    BY <1>1, <1>7 DEF CacheHit, At, Asked, TypeOK, InResolution
  <2>2. Asked(Resolved(req[r], cache[req[r].slug].cfg))
    BY <1>1, <1>7, <2>1, StepsTyped DEF CacheHit, At, Asked, InResolution
  <2> QED
    BY <1>2, <1>3, <1>5, <1>7, <2>2 DEF CacheHit, Goto
<1>8. CASE ReadRow(r)
  <2>1. req[r].for \in {"check", "attach", "call"} /\ req[r].slug \in Slugs
    BY <1>1, <1>8 DEF ReadRow, At, Asked, InResolution
  <2>2. \E q : req' = [req EXCEPT ![r] = q] /\ Asked(q)
    <3>1. ASSUME NEW i \in Ids, rows[i] # Nothing
          PROVE  Asked(Reading(req[r], "row", Stored(i, registry)))
      BY <2>1, <3>1, StepsTyped DEF Asked, Reading, InResolution
    <3>2. Asked(Unresolved(req[r]))
      <4>1. Asked(Resolving(req[r], "call", req[r].id)) /\ Asked(Free)
        BY <2>1 DEF Asked, Resolving, Free, InResolution
      <4> QED
        BY <4>1 DEF Unresolved
    <3> QED
      BY <1>8, <3>1, <3>2 DEF ReadRow, Goto, Sought
  <2> QED
    BY <1>2, <1>3, <1>5, <1>8, <2>2 DEF ReadRow
<1>9. CASE ReadBindings(r)
  <2>1. req[r].for \in {"check", "attach", "call"} /\ req[r].slug \in Slugs /\ req[r].cfg \in Config
    BY <1>1, <1>9 DEF ReadBindings, At, Asked, InResolution
  <2>2. tools[req[r].cfg.id] \in BOOLEAN
    BY <1>1, <2>1 DEF TypeOK, Config
  <2>3. /\ Asked(Unresolved(req[r]))
        /\ Asked(Reading(req[r], "bound", [req[r].cfg EXCEPT !.tool = tools[req[r].cfg.id]]))
    BY <2>1, <2>2, StepsTyped DEF Asked, Reading, InResolution
  <2> QED
    BY <1>2, <1>3, <1>5, <1>9, <2>3 DEF ReadBindings, Goto
<1>10. CASE ReadSecrets(r)
  <2>1. req[r].for \in {"check", "attach", "call"} /\ req[r].slug \in Slugs /\ req[r].cfg \in Config
    BY <1>1, <1>10 DEF ReadSecrets, At, Asked, InResolution
  <2>2. secrets[req[r].cfg.id] \in Secrets \cup {Nothing}
    BY <1>1, <2>1 DEF TypeOK, Config
  <2>3. Asked(Reading(req[r], "loaded", [req[r].cfg EXCEPT !.secret = secrets[req[r].cfg.id]]))
    BY <2>1, <2>2, StepsTyped DEF Asked, Reading, InResolution
  <2> QED
    BY <1>2, <1>3, <1>5, <1>10, <2>3 DEF ReadSecrets, Goto
<1>11. CASE Fill(r)
  <2>1. req[r].for \in {"check", "attach", "call"} /\ req[r].slug \in Slugs /\ req[r].cfg \in Config
    BY <1>1, <1>11 DEF Fill, At, Asked, InResolution
  <2>2. Asked(Resolved(req[r], req[r].cfg))
    BY <2>1, StepsTyped
  <2>3. [cfg |-> req[r].cfg, left |-> CacheTTL] \in [cfg : Config, left : 0 .. CacheTTL]
    BY <2>1, InstancesAssumption
  <2>4. \/ UNCHANGED cache
        \/ cache' = [cache EXCEPT ![req[r].slug] = [cfg |-> req[r].cfg, left |-> CacheTTL]]
    BY <1>11 DEF Fill
  <2>5. TypeOK'
    BY <1>1, <1>4, <2>1, <2>3, <2>4 DEF TypeOK
  <2> QED
    BY <1>2, <1>3, <1>11, <2>2, <2>5 DEF Fill, Goto
<1>12. CASE ReadConnector(r)
  <2>1. req[r].for \in {"check", "attach", "call"} /\ req[r].slug \in Slugs /\ req[r].cfg \in Config
    BY <1>1, <1>12 DEF ReadConnector, At, Asked, InResolution
  <2>2. Asked(Unresolved(req[r]))
    BY <2>1, StepsTyped
  <2>3. registry # Nothing =>
            Asked(Reading(req[r], "compiled", [req[r].cfg EXCEPT !.connector = registry]))
    <3>1. registry # Nothing => registry \in Versions
      BY <1>1 DEF TypeOK
    <3>2. registry # Nothing => [req[r].cfg EXCEPT !.connector = registry] \in Config
      BY <2>1, <3>1 DEF Config
    <3> QED
      BY <2>1, <3>2 DEF Asked, Reading, InResolution
  <2> QED
    BY <1>2, <1>3, <1>5, <1>12, <2>2, <2>3 DEF ReadConnector, Goto
<1>13. CASE CallTool(r) \/ ListTools(r) \/ Return(r)
  <2>1. Asked(Free)
    BY DEF Asked, Free, InResolution
  <2>2. At(r, "calling") => Asked(Calling(req[r], "running", req[r].cfg))
    BY <1>1 DEF At, Asked, Calling, InResolution
  <2> QED
    BY <1>2, <1>3, <1>5, <1>13, <2>1, <2>2 DEF CallTool, ListTools, Return, Goto
<1> QED
  BY <1>6, <1>7, <1>8, <1>9, <1>10, <1>11, <1>12, <1>13 DEF Serve

(* Every step keeps the types. *)
LEMMA TypedStep ==
    ASSUME Typed, [Next]_vars
    PROVE  Typed'
<1>1. CASE Restart
  <2>1. TypeOK'
    BY <1>1 DEF Typed, TypeOK, Restart, instanceVars
  <2>2. \A a \in Admins : Carried(a)'
    BY <1>1 DEF Restart, Carried, Free
  <2>3. \A r \in Requests : Asked(req[r])'
    BY <1>1 DEF Restart, Asked, Free, InResolution
  <2> QED
    BY <1>1, <2>1, <2>2, <2>3 DEF Typed, Restart
<1>2. CASE Tick
  <2>1. \A s \in Slugs : cache[s] # Nothing /\ cache[s].left # 0 =>
            [cache[s] EXCEPT !.left = @ - 1] \in [cfg : Config, left : 0 .. CacheTTL]
    BY InstancesAssumption DEF Typed, TypeOK
  <2>2. cache' \in [Slugs -> [cfg : Config, left : 0 .. CacheTTL] \cup {Nothing}]
    BY <1>2, <2>1 DEF Tick
  <2> QED
    BY <1>2, <2>2 DEF Typed, TypeOK, Carried, Asked, Tick, instanceVars, connectorVars
<1>3. CASE UNCHANGED vars
  BY <1>3 DEF Typed, TypeOK, Carried, Asked, vars, instanceVars, connectorVars, history
<1> QED
  BY <1>1, <1>2, <1>3, OperatorTyped, ClientTyped DEF Next

LEMMA TypedInvariance == Spec => []Typed
<1>1. Init => Typed
  <2> SUFFICES ASSUME Init PROVE Typed
    OBVIOUS
  <2>1. TypeOK
    BY InstancesAssumption DEF Init, TypeOK
  <2>2. \A a \in Admins : Carried(a)
    BY DEF Init, Carried, Free
  <2>3. \A r \in Requests : Asked(req[r])
    BY DEF Init, Asked, Free, InResolution
  <2> QED
    BY <2>1, <2>2, <2>3 DEF Init, Typed
<1>2. Typed /\ [Next]_vars => Typed'
  BY TypedStep
<1> QED
  BY <1>1, <1>2, PTL DEF Spec

(* The tables, the registry, the cache and the tokens keep their types; an *)
(* instance keeps its connector, and its identifier is not given out again. *)
THEOREM TypeCorrect == Spec => []TypeOK
<1>1. Typed => TypeOK
  BY DEF Typed
<1> QED
  BY <1>1, TypedInvariance, PTL

-----------------------------------------------------------------------------
(* What is attached or resolved for a request is of an instance its token  *)
(* grants, at whatever point the slug changed hands.                       *)
LEMMA StepsGranted ==
    ASSUME NEW q, NEW cfg, q.for \in {"check", "attach", "call"},
           q.for # "check" => Scopes(q.scope, q.id),
           q.for = "call" => cfg.id = q.id
    PROVE  Granted(Resolved(q, cfg))
<1>1. Granted(Free)
  BY DEF Granted, Free, InResolution
<1>2. Scopes(q.scope, cfg.id) => Granted(Resolving(q, "attach", cfg.id))
  BY DEF Granted, Resolving, InResolution
<1>3. q.for = "attach" => Granted(Resolving(q, "call", q.id))
  BY DEF Granted, Resolving, InResolution
<1>4. q.for # "check" /\ cfg.id = q.id => Granted(Calling(q, "calling", cfg))
  BY DEF Granted, Calling, InResolution
<1> QED
  BY <1>1, <1>2, <1>3, <1>4 DEF Resolved, Attached

LEMMA FailureGranted ==
    ASSUME NEW q, q.for \in {"check", "attach", "call"}, q.for # "check" => Scopes(q.scope, q.id)
    PROVE  Granted(Unresolved(q))
<1>1. Granted(Free)
  BY DEF Granted, Free, InResolution
<1>2. q.for = "attach" => Granted(Resolving(q, "call", q.id))
  BY DEF Granted, Resolving, InResolution
<1> QED
  BY <1>1, <1>2 DEF Unresolved

LEMMA GrantedStep ==
    ASSUME Typed, AllGranted, [Next]_vars
    PROVE  AllGranted'
<1>1. DOMAIN req = Requests
  BY DEF Typed
<1>2. ASSUME NEW r \in Requests, NEW q, req' = [req EXCEPT ![r] = q], Granted(q)
      PROVE  AllGranted'
  BY <1>1, <1>2 DEF AllGranted, Granted, Scopes
<1>3. ASSUME NEW r \in Requests
      PROVE  Granted(req[r]) /\ Asked(req[r])
  BY DEF Typed, AllGranted
<1>4. ASSUME NEW r \in Requests, NEW t \in Tokens, NEW s \in Slugs, Authenticate(r, t, s)
      PROVE  AllGranted'
  <2>1. Granted(Resolving([slug |-> s, scope |-> tokens[t]], "check", Nothing))
    BY DEF Granted, Resolving, InResolution
  <2> QED
    BY <1>2, <1>4, <2>1 DEF Authenticate, Goto
<1>5. ASSUME NEW r \in Requests, CacheHit(r)
      PROVE  AllGranted'
  <2>1. /\ req[r].for \in {"check", "attach", "call"} /\ req[r].for # "call"
        /\ req[r].for # "check" => Scopes(req[r].scope, req[r].id)
    BY <1>3, <1>5 DEF CacheHit, At, Asked, Granted
  <2>2. Granted(Resolved(req[r], cache[req[r].slug].cfg))
    BY <2>1, StepsGranted
  <2> QED
    BY <1>2, <1>5, <2>2 DEF CacheHit, Goto
<1>6. ASSUME NEW r \in Requests, ReadRow(r)
      PROVE  AllGranted'
  <2>1. /\ req[r].for \in {"check", "attach", "call"}
        /\ req[r].for # "check" => Scopes(req[r].scope, req[r].id)
    BY <1>3, <1>6 DEF ReadRow, At, Asked, Granted
  <2>2. ASSUME NEW i \in Ids, Sought(req[r], i)
        PROVE  Granted(Reading(req[r], "row", Stored(i, registry)))
    BY <2>1, <2>2 DEF Granted, Reading, Stored, Sought, InResolution
  <2>3. Granted(Unresolved(req[r]))
    BY <2>1, FailureGranted
  <2> QED
    BY <1>2, <1>6, <2>2, <2>3 DEF ReadRow, Goto
<1>7. ASSUME NEW r \in Requests, req[r].at \in InResolution
      PROVE  /\ req[r].for \in {"check", "attach", "call"} /\ req[r].cfg \in Config
             /\ req[r].for # "check" => Scopes(req[r].scope, req[r].id)
             /\ req[r].for = "call" => req[r].cfg.id = req[r].id
             /\ Granted(Unresolved(req[r]))
  <2>1. /\ req[r].for \in {"check", "attach", "call"} /\ req[r].cfg \in Config
        /\ req[r].for # "check" => Scopes(req[r].scope, req[r].id)
        /\ req[r].for = "call" => req[r].cfg.id = req[r].id
    BY <1>3, <1>7 DEF Asked, Granted
  <2> QED
    BY <2>1, FailureGranted
<1>8. ASSUME NEW r \in Requests, ReadConnector(r) \/ ReadBindings(r) \/ ReadSecrets(r)
      PROVE  AllGranted'
  <2>1. req[r].at \in InResolution
    BY <1>8 DEF ReadConnector, ReadBindings, ReadSecrets, At, InResolution
  <2>2. ASSUME NEW x
        PROVE  /\ Granted(Reading(req[r], "compiled", [req[r].cfg EXCEPT !.connector = x]))
               /\ Granted(Reading(req[r], "bound", [req[r].cfg EXCEPT !.tool = x]))
               /\ Granted(Reading(req[r], "loaded", [req[r].cfg EXCEPT !.secret = x]))
    <3>1. /\ [req[r].cfg EXCEPT !.connector = x].id = req[r].cfg.id
          /\ [req[r].cfg EXCEPT !.tool = x].id = req[r].cfg.id
          /\ [req[r].cfg EXCEPT !.secret = x].id = req[r].cfg.id
      BY <1>7, <2>1 DEF Config
    <3> QED
      BY <1>7, <2>1, <3>1 DEF Granted, Reading, InResolution
  <2> QED
    BY <1>2, <1>7, <1>8, <2>1, <2>2 DEF ReadConnector, ReadBindings, ReadSecrets, Goto
<1>9. ASSUME NEW r \in Requests, Fill(r)
      PROVE  AllGranted'
  <2>1. req[r].at \in InResolution
    BY <1>9 DEF Fill, At, InResolution
  <2>2. Granted(Resolved(req[r], req[r].cfg))
    BY <1>7, <2>1, StepsGranted
  <2> QED
    BY <1>2, <1>9, <2>2 DEF Fill, Goto
<1>10. ASSUME NEW r \in Requests, CallTool(r) \/ ListTools(r) \/ Return(r)
       PROVE  AllGranted'
  <2>1. Granted(Free)
    BY DEF Granted, Free, InResolution
  <2>2. At(r, "calling") /\ req[r].cfg.enabled => Granted(Calling(req[r], "running", req[r].cfg))
    BY <1>3 DEF At, Granted, Calling, InResolution
  <2> QED
    BY <1>2, <1>10, <2>1, <2>2 DEF CallTool, ListTools, Return, Goto
<1>11. CASE Restart
  BY <1>11 DEF Restart, AllGranted, Granted, Free, InResolution
<1>12. CASE UNCHANGED req
  BY <1>12 DEF AllGranted, Granted, Scopes
<1>13. ASSUME NEW a \in Admins, Administer(a) \/ Commit(a) \/ WriteFails(a)
       PROVE  UNCHANGED req
  BY <1>13 DEF Administer, Commit, WriteFails, Create, Update, Delete, DeleteSecret, SetSecret,
        SetToolEnabled, ImportManifest, DeleteConnector, CreateToken, Revoke, Insert,
        PostInstances, WriteUpdate, InvalidateAll, Upsert, Put, Remove
<1> QED
  BY <1>4, <1>5, <1>6, <1>8, <1>9, <1>10, <1>11, <1>12, <1>13 DEF Next, Serve, Tick, vars

(* A tool call only ever runs with the configuration of an instance its    *)
(* token grants, enabled when it was read: for any number of operators,    *)
(* clients and instances, whatever happens to the slug between the two     *)
(* resolutions of BearerAuth.Middleware and attach.                        *)
THEOREM OnlyAuthorisedRuns == Spec => []RunsWhatWasAuthorised
<1>1. Init => AllGranted
  BY DEF Init, AllGranted, Granted, Free, InResolution
<1>2. Typed /\ AllGranted /\ [Next]_vars => AllGranted'
  BY GrantedStep
<1>3. AllGranted => RunsWhatWasAuthorised
  BY DEF AllGranted, Granted, RunsWhatWasAuthorised
<1> QED
  BY <1>1, <1>2, <1>3, TypedInvariance, PTL DEF Spec

-----------------------------------------------------------------------------
(* The registry: of operations that do not overlap, one at most is between *)
(* its statement and its call.                                             *)
LEMMA SerialStep ==
    ASSUME Typed, Serial, [Next]_vars
    PROVE  Serial'
<1> USE DEF Serial, Busy, IsBusy
<1>1. DOMAIN op = Admins
  BY DEF Typed
<1>2. ASSUME NEW a \in Admins, NEW x, op' = [op EXCEPT ![a] = x],
             op[a].at \notin {"putting", "removing"},
             x.at \notin {"upserting", "putting", "removing"},
             UNCHANGED <<connectors, registry, crossed>>
      PROVE  Serial'
  BY <1>1, <1>2
<1>3. ASSUME NEW a \in Admins, NEW v \in Versions, ImportManifest(a, v)
      PROVE  Serial'
  BY <1>1, <1>3 DEF ImportManifest, OpAt, OpGoto, Begins, connectorVars
<1>4. ASSUME NEW a \in Admins, Upsert(a)
      PROVE  Serial'
  BY <1>1, <1>4 DEF Upsert, OpAt, OpGoto, history
<1>5. ASSUME NEW a \in Admins, Put(a)
      PROVE  Serial'
  BY <1>1, <1>5 DEF Put, OpAt, OpGoto, history, Free
<1>6. ASSUME NEW a \in Admins, DeleteConnector(a)
      PROVE  Serial'
  BY <1>1, <1>6 DEF DeleteConnector, OpAt, OpGoto, Begins
<1>7. ASSUME NEW a \in Admins, Remove(a)
      PROVE  Serial'
  BY <1>1, <1>7 DEF Remove, OpAt, OpGoto, history, Free
<1>8. CASE Restart
  BY <1>8 DEF Restart, Free
<1>9. CASE UNCHANGED <<op, connectors, registry, crossed>>
  BY <1>9
<1>10. ASSUME NEW a \in Admins, Commit(a) \/ WriteFails(a)
       PROVE  Serial'
  <2>1. CASE Insert(a) \/ PostInstances(a) \/ WriteUpdate(a) \/ InvalidateAll(a) \/ WriteFails(a)
    <3>1. op[a].at \notin {"putting", "removing"} /\ UNCHANGED <<connectors, registry, crossed>>
      BY <2>1 DEF Insert, PostInstances, WriteUpdate, InvalidateAll, WriteFails, OpAt,
            connectorVars, history
    <3>2. \E x : op' = [op EXCEPT ![a] = x] /\ x.at \notin {"upserting", "putting", "removing"}
      <4>1. /\ Free.at = "idle" /\ Invalidating.at = "invalidating"
            /\ \A i, x : /\ [at |-> "invalidating", id |-> i, secret |-> x].at = "invalidating"
                         /\ [at |-> "storing", id |-> i, secret |-> x].at = "storing"
        BY DEF Free, Invalidating
      <4>2. CASE Insert(a) \/ WriteFails(a)
        BY <4>1, <4>2 DEF Insert, WriteFails, OpGoto
      <4>3. CASE PostInstances(a) \/ WriteUpdate(a)
        BY <4>1, <4>3 DEF PostInstances, WriteUpdate, OpGoto
      <4>4. CASE InvalidateAll(a)
        BY <4>1, <4>4 DEF InvalidateAll, OpGoto
      <4> QED
        BY <2>1, <4>2, <4>3, <4>4
    <3> QED
      BY <1>2, <3>1, <3>2
  <2> QED
    BY <1>4, <1>5, <1>7, <1>10, <2>1 DEF Commit
<1>11. ASSUME NEW a \in Admins, Administer(a)
       PROVE  Serial'
  <2>1. CASE \/ \E i \in Ids, s \in Slugs, e \in BOOLEAN, b \in Bases, x \in Secrets \cup {Nothing} :
                    Create(a, i, [slug |-> s, enabled |-> e, base |-> b], x)
             \/ \E i \in Ids, e \in BOOLEAN, b \in Bases : Update(a, i, e, b)
             \/ \E i \in Ids : Delete(a, i) \/ DeleteSecret(a, i)
             \/ \E i \in Ids, x \in Secrets : SetSecret(a, i, x)
             \/ \E i \in Ids, e \in BOOLEAN : SetToolEnabled(a, i, e)
    <3>1. op[a].at = "idle" /\ UNCHANGED <<connectors, registry, crossed>>
      BY <2>1 DEF Create, Update, Delete, DeleteSecret, SetSecret, SetToolEnabled, Begins, OpAt,
            connectorVars, history
    <3>2. \E x : op' = [op EXCEPT ![a] = x] /\ x.at \notin {"upserting", "putting", "removing"}
      <4>1. ASSUME NEW x, x.at \notin {"upserting", "putting", "removing"}, OpGoto(a, x)
            PROVE  \E y : op' = [op EXCEPT ![a] = y] /\ y.at \notin {"upserting", "putting", "removing"}
        BY <4>1 DEF OpGoto
      <4>2. ASSUME NEW i \in Ids, NEW s \in Slugs, NEW e \in BOOLEAN, NEW b \in Bases,
                   NEW x \in Secrets \cup {Nothing},
                   Create(a, i, [slug |-> s, enabled |-> e, base |-> b], x)
            PROVE  \E y : op' = [op EXCEPT ![a] = y] /\ y.at \notin {"upserting", "putting", "removing"}
        <5> DEFINE y == [at |-> "inserting", id |-> i,
                         row |-> [slug |-> s, enabled |-> e, base |-> b], secret |-> x]
        <5>1. y.at = "inserting" /\ OpGoto(a, y)
          BY <4>2 DEF Create
        <5> HIDE DEF y
        <5> QED
          BY <4>1, <5>1
      <4>3. ASSUME NEW i \in Ids, NEW e \in BOOLEAN, NEW b \in Bases, Update(a, i, e, b)
            PROVE  \E y : op' = [op EXCEPT ![a] = y] /\ y.at \notin {"upserting", "putting", "removing"}
        <5> DEFINE y == [at |-> "updating", id |-> i,
                         row |-> [slug |-> rows[i].slug, enabled |-> e, base |-> b]]
        <5>1. y.at = "updating" /\ OpGoto(a, y)
          BY <4>3 DEF Update
        <5> HIDE DEF y
        <5> QED
          BY <4>1, <5>1
      <4>4. OpGoto(a, Invalidating) =>
              \E y : op' = [op EXCEPT ![a] = y] /\ y.at \notin {"upserting", "putting", "removing"}
        BY <4>1 DEF Invalidating
      <4> QED
        BY <2>1, <4>2, <4>3, <4>4 DEF Delete, DeleteSecret, SetSecret, SetToolEnabled
    <3> QED
      BY <1>2, <3>1, <3>2
  <2>2. CASE \/ \E t \in Tokens, c \in Ids \cup {All} : CreateToken(a, t, c)
             \/ \E t \in Tokens : Revoke(a, t)
    BY <1>9, <2>2 DEF CreateToken, Revoke, connectorVars, history
  <2> QED
    BY <1>3, <1>6, <1>11, <2>1, <2>2 DEF Administer
<1>12. ASSUME NEW r \in Requests,
              Serve(r) \/ \E t \in Tokens, s \in Slugs : Authenticate(r, t, s)
       PROVE  UNCHANGED <<op, connectors, registry, crossed>>
  BY <1>12 DEF Serve, Authenticate, CacheHit, ReadRow, ReadConnector, ReadBindings, ReadSecrets, Fill, CallTool,
        ListTools, Return, connectorVars, history
<1> QED
  BY <1>8, <1>9, <1>10, <1>11, <1>12 DEF Next, Tick, vars, connectorVars, history

(* Connector operations that did not overlap leave the registry as the     *)
(* table, whatever failed in between (Connectors.ImportManifest, Delete).  *)
THEOREM RegistryIsTheTable == Spec => []RegistryFollowsTable
<1>1. Init => Serial
  BY DEF Init, Serial, Busy, IsBusy, Free
<1>2. Typed /\ Serial /\ [Next]_vars => Serial'
  BY SerialStep
<1>3. Serial => RegistryFollowsTable
  BY DEF Serial, RegistryFollowsTable
<1> QED
  BY <1>1, <1>2, <1>3, TypedInvariance, PTL DEF Spec

-----------------------------------------------------------------------------
(* The target cache.  A write to a table is followed by InvalidateAll, and *)
(* until then the premise of the property fails; resolutions under way are *)
(* marked as overtaken.                                                    *)
Writing == \E a \in Admins : OpAt(a, "invalidating")

LEMMA WriteCovered ==
    ASSUME Typed, ReadsHold, NEW a \in Admins, NEW x, x.at = "invalidating",
           op' = [op EXCEPT ![a] = x], Overtakes, req' = req
    PROVE  Writing' /\ ReadsHold' /\ CacheFollowsWrites'
<1>1. op'[a].at = "invalidating"
  BY DEF Typed
<1>2. Writing' /\ CacheFollowsWrites'
  BY <1>1 DEF Writing, CacheFollowsWrites, OpAt
<1>3. ReadsHold'
  BY DEF ReadsHold, Overtakes, InResolution
<1> QED
  BY <1>2, <1>3

LEMMA NothingRead ==
    ASSUME ReadsHold, CacheFollowsWrites, Writing' \/ ~Writing, req' = req, UNCHANGED instanceVars,
           UNCHANGED <<cache, spoiled, suspect>>
    PROVE  ReadsHold' /\ CacheFollowsWrites'
<1>1. rows' = rows /\ \A i, v : Stored(i, v)' = Stored(i, v)
  BY DEF Stored, instanceVars
<1> QED
  BY <1>1 DEF ReadsHold, CacheFollowsWrites, Writing

LEMMA OperatorCached ==
    ASSUME Typed, ReadsHold, CacheFollowsWrites,
           NEW a \in Admins, Administer(a) \/ Commit(a) \/ WriteFails(a)
    PROVE  ReadsHold' /\ CacheFollowsWrites'
<1>1. DOMAIN op = Admins
  BY DEF Typed
<1>2. /\ Free.at = "idle" /\ Invalidating.at = "invalidating"
      /\ \A i, x : [at |-> "invalidating", id |-> i, secret |-> x].at = "invalidating"
  BY DEF Free, Invalidating
<1>3. ASSUME op[a].at # "invalidating", NEW x, op' = [op EXCEPT ![a] = x], req' = req,
             UNCHANGED instanceVars, UNCHANGED <<cache, spoiled, suspect>>
      PROVE  ReadsHold' /\ CacheFollowsWrites'
  <2>1. Writing => Writing'
    BY <1>1, <1>3 DEF Writing, OpAt
  <2> QED
    BY <1>3, <2>1, NothingRead
<1>4. CASE InvalidateAll(a)
  <2>1. rows' = rows /\ \A i, v : Stored(i, v)' = Stored(i, v)
    BY <1>4 DEF InvalidateAll, Stored, instanceVars
  <2> QED
    BY <1>4, <2>1 DEF InvalidateAll, ReadsHold, CacheFollowsWrites
<1>5. ASSUME NEW i \in Ids, Delete(a, i) \/ DeleteSecret(a, i)
      PROVE  ReadsHold' /\ CacheFollowsWrites'
  BY <1>2, <1>5, WriteCovered DEF Delete, DeleteSecret, OpGoto
<1>6. ASSUME NEW i \in Ids, NEW x \in Secrets, SetSecret(a, i, x)
      PROVE  ReadsHold' /\ CacheFollowsWrites'
  BY <1>2, <1>6, WriteCovered DEF SetSecret, OpGoto
<1>7. ASSUME NEW i \in Ids, NEW e \in BOOLEAN, SetToolEnabled(a, i, e)
      PROVE  ReadsHold' /\ CacheFollowsWrites'
  BY <1>2, <1>7, WriteCovered DEF SetToolEnabled, OpGoto
<1>8. CASE Insert(a)
  <2>1. CASE Overtakes /\ OpGoto(a, [at |-> "invalidating", id |-> op[a].id, secret |-> op[a].secret])
    BY <1>2, <1>8, <2>1, WriteCovered DEF Insert, OpGoto
  <2>2. CASE OpGoto(a, Free) /\ UNCHANGED <<rows, spoiled>>
    BY <1>3, <1>8, <2>2 DEF Insert, OpGoto, OpAt, instanceVars
  <2> QED
    BY <1>8, <2>1, <2>2 DEF Insert
<1>9. CASE WriteUpdate(a)
  <2>1. CASE Overtakes /\ OpGoto(a, Invalidating)
    BY <1>2, <1>9, <2>1, WriteCovered DEF WriteUpdate, OpGoto
  <2>2. CASE OpGoto(a, Free) /\ UNCHANGED <<rows, spoiled>>
    BY <1>3, <1>9, <2>2 DEF WriteUpdate, OpGoto, OpAt, instanceVars
  <2> QED
    BY <1>9, <2>1, <2>2 DEF WriteUpdate
<1>10. CASE PostInstances(a)
  <2>1. CASE Overtakes /\ OpGoto(a, Invalidating)
    BY <1>2, <1>10, <2>1, WriteCovered DEF PostInstances, OpGoto
  <2>2. CASE OpGoto(a, Free) /\ UNCHANGED <<secrets, spoiled>>
    BY <1>3, <1>10, <2>2 DEF PostInstances, OpGoto, OpAt, instanceVars
  <2> QED
    BY <1>10, <2>1, <2>2 DEF PostInstances
<1>11. CASE Upsert(a) \/ Put(a) \/ Remove(a) \/ WriteFails(a)
  BY <1>3, <1>11 DEF Upsert, Put, Remove, WriteFails, OpGoto, OpAt, history
<1>12. ASSUME NEW i \in Ids, NEW s \in Slugs, NEW e \in BOOLEAN, NEW b \in Bases,
              NEW x \in Secrets \cup {Nothing},
              Create(a, i, [slug |-> s, enabled |-> e, base |-> b], x)
       PROVE  ReadsHold' /\ CacheFollowsWrites'
  BY <1>3, <1>12 DEF Create, Begins, OpGoto, OpAt
<1>13. ASSUME NEW i \in Ids, NEW e \in BOOLEAN, NEW b \in Bases, Update(a, i, e, b)
       PROVE  ReadsHold' /\ CacheFollowsWrites'
  BY <1>3, <1>13 DEF Update, Begins, OpGoto, OpAt, history
<1>14. ASSUME NEW v \in Versions, ImportManifest(a, v)
       PROVE  ReadsHold' /\ CacheFollowsWrites'
  BY <1>3, <1>14 DEF ImportManifest, Begins, OpGoto, OpAt
<1>15. CASE DeleteConnector(a)
  BY <1>3, <1>15 DEF DeleteConnector, Begins, OpGoto, OpAt
<1>16. CASE \/ \E t \in Tokens, c \in Ids \cup {All} : CreateToken(a, t, c)
            \/ \E t \in Tokens : Revoke(a, t)
  <2>1. op' = op
    BY <1>16 DEF CreateToken, Revoke
  <2>2. Writing' <=> Writing
    BY <2>1 DEF Writing, OpAt
  <2> QED
    BY <1>16, <2>2, NothingRead DEF CreateToken, Revoke, history
<1> QED
  BY <1>4, <1>5, <1>6, <1>7, <1>8, <1>9, <1>10, <1>11, <1>12, <1>13, <1>14, <1>15, <1>16
     DEF Administer, Commit

(* A resolution step reads what is stored, so what it had read still holds. *)
LEMMA ClientCached ==
    ASSUME Typed, ReadsHold, CacheFollowsWrites, NEW r \in Requests,
           Serve(r) \/ \E t \in Tokens, s \in Slugs : Authenticate(r, t, s)
    PROVE  ReadsHold' /\ CacheFollowsWrites'
<1>1. /\ DOMAIN req = Requests /\ Asked(req[r])
      /\ cache \in [Slugs -> [cfg : Config, left : 0 .. CacheTTL] \cup {Nothing}]
  BY DEF Typed, TypeOK
<1>2. /\ op' = op /\ rows' = rows /\ \A i, v : Stored(i, v)' = Stored(i, v)
  BY DEF Serve, Authenticate, CacheHit, ReadRow, ReadConnector, ReadBindings, ReadSecrets, Fill, CallTool,
         ListTools, Return, history, instanceVars, Stored
<1>3. ASSUME UNCHANGED <<cache, suspect>>
      PROVE  CacheFollowsWrites'
  BY <1>2, <1>3 DEF CacheFollowsWrites, OpAt
<1> DEFINE Holds(q) == q.at \in InResolution =>
                          rows[q.cfg.id] # Nothing /\ q.cfg = Stored(q.cfg.id, q.cfg.connector)
<1>4. ASSUME NEW q, req' = [req EXCEPT ![r] = q], spoiled' \in {spoiled, spoiled \ {r}},
             r \notin spoiled' => Holds(q)
      PROVE  ReadsHold'
  BY <1>1, <1>2, <1>4 DEF ReadsHold
<1>5. /\ Holds(Free) /\ \A q, for, id : Holds(Resolving(q, for, id))
      /\ \A q, cfg : Holds(Calling(q, "calling", cfg)) /\ Holds(Calling(q, "running", cfg))
  BY DEF InResolution, Free, Resolving, Calling
<1>6. \A q : Holds(Unresolved(q))
  BY <1>5 DEF Unresolved
<1>7. \A q, cfg : q.for \in {"check", "attach", "call"} => Holds(Resolved(q, cfg))
  <2> HIDE DEF Holds
  <2> QED
    BY <1>5 DEF Resolved, Attached
<1>8. req[r].at \in InResolution /\ r \notin spoiled =>
          rows[req[r].cfg.id] # Nothing /\ req[r].cfg = Stored(req[r].cfg.id, req[r].cfg.connector)
  BY DEF ReadsHold
<1>9. req[r].at \in {"resolving"} \cup InResolution => req[r].for \in {"check", "attach", "call"}
  BY <1>1 DEF Asked
<1> HIDE DEF Holds
<1>10. ASSUME NEW t \in Tokens, NEW s \in Slugs, Authenticate(r, t, s)
       PROVE  ReadsHold' /\ CacheFollowsWrites'
  BY <1>3, <1>4, <1>5, <1>10 DEF Authenticate, Goto, history
<1>11. CASE CacheHit(r)
  <2>1. /\ Goto(r, Resolved(req[r], cache[req[r].slug].cfg))
        /\ UNCHANGED <<cache, spoiled, suspect>>
    BY <1>11 DEF CacheHit, history
  <2>2. Holds(Resolved(req[r], cache[req[r].slug].cfg))
    BY <1>7, <1>9, <1>11 DEF CacheHit, At
  <2> QED
    BY <1>3, <1>4, <2>1, <2>2 DEF Goto
<1>12. CASE ReadRow(r)
  <2>1. ASSUME NEW i \in Ids, Sought(req[r], i)
        PROVE  Holds(Reading(req[r], "row", Stored(i, registry)))
    <3>1. Stored(i, registry).id = i /\ Stored(i, registry).connector = registry
      BY DEF Stored
    <3> QED
      BY <2>1, <3>1 DEF Holds, Reading, Sought
  <2> QED
    BY <1>3, <1>4, <1>6, <1>12, <2>1 DEF ReadRow, Goto
<1>13. CASE ReadConnector(r) \/ ReadBindings(r) \/ ReadSecrets(r)
  <2> DEFINE c == req[r].cfg
  <2>1. req[r].at \in InResolution /\ c \in Config
    BY <1>1, <1>13 DEF ReadConnector, ReadBindings, ReadSecrets, At, InResolution, Asked
  <2>2. c = Stored(c.id, c.connector) =>
            [c EXCEPT !.tool = tools[c.id]] = c /\ [c EXCEPT !.secret = secrets[c.id]] = c
    <3>1. c = Stored(c.id, c.connector) => c.tool = tools[c.id] /\ c.secret = secrets[c.id]
      BY DEF Stored
    <3> QED
      BY <2>1, <3>1 DEF Config
  <2>3. c = Stored(c.id, c.connector) =>
            LET d == [c EXCEPT !.connector = registry]
            IN  d.id = c.id /\ d = Stored(d.id, d.connector)
    BY <2>1 DEF Config, Stored
  <2>4. r \notin spoiled =>
            /\ Holds(Reading(req[r], "compiled", [c EXCEPT !.connector = registry]))
            /\ Holds(Reading(req[r], "bound", [c EXCEPT !.tool = tools[c.id]]))
            /\ Holds(Reading(req[r], "loaded", [c EXCEPT !.secret = secrets[c.id]]))
    BY <1>8, <2>1, <2>2, <2>3 DEF Holds, Reading
  <2> QED
    BY <1>3, <1>4, <1>6, <1>13, <2>4 DEF ReadConnector, ReadBindings, ReadSecrets, Goto, history
<1>14. CASE Fill(r)
  <2>1. req[r].at \in InResolution /\ req[r].slug \in Slugs
    BY <1>1, <1>14 DEF Fill, At, InResolution, Asked
  <2>2. ReadsHold'
    <3>1. Goto(r, Resolved(req[r], req[r].cfg)) /\ UNCHANGED spoiled
      BY <1>14 DEF Fill
    <3>2. Holds(Resolved(req[r], req[r].cfg))
      BY <1>7, <1>9, <2>1
    <3> QED
      BY <1>4, <3>1, <3>2 DEF Goto
  <2>3. CASE UNCHANGED <<cache, suspect>>
    BY <1>3, <2>2, <2>3
  <2>4. CASE /\ cache' = [cache EXCEPT ![req[r].slug] = [cfg |-> req[r].cfg, left |-> CacheTTL]]
             /\ suspect' = IF r \in spoiled THEN suspect \cup {req[r].slug}
                           ELSE suspect \ {req[r].slug}
    <3> SUFFICES ASSUME \A a \in Admins : ~OpAt(a, "invalidating"),
                        NEW s \in Slugs, cache'[s] # Nothing, s \notin suspect'
                 PROVE  LET cfg == cache'[s].cfg
                        IN  rows[cfg.id] # Nothing /\ cfg = Stored(cfg.id, cfg.connector)
      BY <1>2, <2>2 DEF CacheFollowsWrites, OpAt
    <3>1. CASE s = req[r].slug
      BY <1>1, <1>8, <2>1, <2>4, <3>1
    <3>2. CASE s # req[r].slug
      BY <1>1, <2>4, <3>2 DEF CacheFollowsWrites
    <3> QED
      BY <3>1, <3>2
  <2> QED
    BY <1>14, <2>3, <2>4 DEF Fill
<1>15. CASE CallTool(r) \/ ListTools(r) \/ Return(r)
  BY <1>3, <1>4, <1>5, <1>15 DEF CallTool, ListTools, Return, Goto, history
<1> QED
  BY <1>10, <1>11, <1>12, <1>13, <1>14, <1>15 DEF Serve

LEMMA CachedStep ==
    ASSUME Typed, ReadsHold, CacheFollowsWrites, [Next]_vars
    PROVE  ReadsHold' /\ CacheFollowsWrites'
<1>1. CASE Restart
  BY <1>1 DEF Restart, ReadsHold, CacheFollowsWrites, Free, InResolution
<1>2. CASE Tick
  <2>1. /\ req' = req /\ op' = op /\ spoiled' = spoiled
        /\ rows' = rows /\ \A i, v : Stored(i, v)' = Stored(i, v)
    BY <1>2 DEF Tick, Stored, instanceVars
  <2>2. \A s \in Slugs : cache'[s] # Nothing =>
            cache[s] # Nothing /\ cache'[s].cfg = cache[s].cfg /\ (s \notin suspect' => s \notin suspect)
    <3>1. \A s \in Slugs : cache[s] # Nothing => cache[s] \in [cfg : Config, left : 0 .. CacheTTL]
      BY DEF Typed, TypeOK
    <3>2. \A e \in [cfg : Config, left : 0 .. CacheTTL] : [e EXCEPT !.left = @ - 1].cfg = e.cfg
      OBVIOUS
    <3> QED
      BY <1>2, <3>1, <3>2 DEF Tick
  <2> QED
    BY <2>1, <2>2 DEF ReadsHold, CacheFollowsWrites, OpAt
<1>3. CASE UNCHANGED vars
  <2>1. Writing' <=> Writing
    BY <1>3 DEF vars, Writing, OpAt
  <2> QED
    BY <1>3, <2>1, NothingRead DEF vars, history
<1> QED
  BY <1>1, <1>2, <1>3, OperatorCached, ClientCached DEF Next

(* Once every write to an instance has invalidated the cache, an entry is  *)
(* what the database says of the instance, unless it was put by a          *)
(* resolution a write overtook: no operation on an instance forgets to     *)
(* invalidate, whichever operators and clients run at once.  The compiled  *)
(* connector in the entry is left out, because ImportManifest does not     *)
(* tell the cache.                                                         *)
THEOREM CacheIsCurrent == Spec => []CacheFollowsWrites
<1>1. Init => ReadsHold /\ CacheFollowsWrites
  BY DEF Init, ReadsHold, CacheFollowsWrites, Free, InResolution
<1>2. Typed /\ ReadsHold /\ CacheFollowsWrites /\ [Next]_vars => ReadsHold' /\ CacheFollowsWrites'
  BY CachedStep
<1> QED
  BY <1>1, <1>2, TypedInvariance, PTL DEF Spec
=============================================================================
