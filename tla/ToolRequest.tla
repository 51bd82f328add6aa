---------------------------- MODULE ToolRequest ----------------------------
(***************************************************************************)
(* From a manifest to a request: connector.Compile accepts or refuses the  *)
(* manifest (internal/connector/compile.go), the operator's values for its *)
(* variables and secrets are validated and resolved, and a call's          *)
(* arguments are rendered (internal/tmpl/tmpl.go) into the path, query,    *)
(* headers, credential and body of a request (internal/engine/request.go). *)
(*                                                                         *)
(* A template is a sequence of parts; a value is a word that stands for    *)
(* all texts that are treated alike: NoText, "object" (any composite        *)
(* value, with one field "inner"), "null", "control" (a text with a        *)
(* control character), ".." and all other words for themselves.  Rendered  *)
(* text is the set of the non-empty words in it.  A JSON body is the map   *)
(* from the paths of its nodes, sequences of keys from the root <<>>, to   *)
(* the nodes.  The manifest's remaining checks (names, versions, URLs,     *)
(* ranges) look at one text each and are left out: every manifest here     *)
(* passes them.                                                            *)
(***************************************************************************)
EXTENDS Naturals, Sequences, SequencesExt, FiniteSetsExt

CONSTANTS
    Manifests,    \* manifests that may be imported
    Values,       \* what an operator may enter: functions from variables to words
    Credentials,  \* likewise for secrets
    Arguments     \* arguments of a call: functions from inputs to words

VARIABLES
    stage, manifest, instance,
    arguments, request  \* of the call, and what it sends
requestVars == <<stage, manifest, instance, arguments, request>>

NoText == ""
Missing == "missing"
Refused == [ok |-> FALSE]

RequestInit ==
    /\ stage = "start" /\ manifest = Refused /\ instance = Refused
    /\ arguments = <<>> /\ request = Refused

\* Maps: one pair, and what f has or else g.
Only(k, v) == [x \in {k} |-> v]
Over(f, g) == [x \in DOMAIN f \cup DOMAIN g |-> IF x \in DOMAIN f THEN f[x] ELSE g[x]]

-----------------------------------------------------------------------------
\* Templates.  A part is a literal or a placeholder with its filters, of
\* which only defaults are supported and the last one counts.
Placeholders(t) == {p \in Range(t) : p.ns # "literal"}

Parses(t) ==
    \A p \in Placeholders(t) :
        /\ p.ns \in {"input", "vars", "secrets"}
        /\ p.path # <<>>
        /\ "unsupported" \notin Range(p.filters)

\* Variables and secrets are looked up by a single name, inputs by a path.
Lookup(scope, p) ==
    LET name == p.path[1] IN
    IF name \notin DOMAIN scope[p.ns] THEN Missing
    ELSE IF Len(p.path) = 1 THEN scope[p.ns][name]
    ELSE IF p.ns = "input" /\ scope.input[name] = "object" /\ p.path = <<name, "inner">>
         THEN "text" ELSE Missing

Operand(scope, p) ==
    LET v == Lookup(scope, p) IN
    IF v \notin {Missing, "null"} THEN v
    ELSE IF p.filters # <<>> THEN Last(p.filters) ELSE Missing

\* Mutant of Render: a part that does not resolve is passed over.
RenderSkipping(t, scope) ==
    LET word == [i \in DOMAIN t |-> IF t[i].ns = "literal" THEN t[i].path[1]
                                    ELSE Operand(scope, t[i])]
    IN  IF "object" \in Range(word) THEN [st |-> "error", text |-> {}]
        ELSE [st |-> "ok", text |-> Range(word) \ {NoText, Missing}]

\* A part that does not resolve drops the whole field, a composite value
\* fails the call; the first of them decides.
Render(t, scope) ==
    LET word == [i \in DOMAIN t |-> IF t[i].ns = "literal" THEN t[i].path[1]
                                    ELSE Operand(scope, t[i])]
        bad == {i \in DOMAIN t : word[i] \in {Missing, "object"}}
    IN  IF bad = {} THEN [st |-> "ok", text |-> Range(word) \ {NoText}]
        ELSE [st |-> IF word[Min(bad)] = Missing THEN "drop" ELSE "error", text |-> {}]

\* A template that is one placeholder keeps the value's type.
RenderValue(t, scope) ==
    IF Len(t) = 1 /\ t[1].ns # "literal"
    THEN LET v == Operand(scope, t[1])
         IN  IF v = Missing THEN [st |-> "drop", text |-> {}] ELSE [st |-> "ok", text |-> {v}]
    ELSE Render(t, scope)

\* A JSON body.
KindAt(json, kind) == {q \in DOMAIN json : json[q].kind = kind}
TemplatesIn(json) == {json[q].of : q \in KindAt(json, "template")}

\* A template renders or not; an array does if all its elements do, so that
\* it takes every template it reaches through nothing but arrays; literals
\* and objects always do.
Renders(json, p, scope) ==
    \A q \in KindAt(json, "template") :
        /\ IsPrefix(p, q)
        /\ \A r \in DOMAIN json : IsPrefix(p, r) /\ IsStrictPrefix(r, q) => r \in KindAt(json, "array")
        => RenderValue(json[q].of, scope).st = "ok"

\* An object loses the fields that do not render, an array is lost as a whole.
RenderNode(json, scope) ==
    LET kept == {q \in DOMAIN json : \A p \in DOMAIN json : IsPrefix(p, q) => Renders(json, p, scope)}
    IN  [ok |-> Renders(json, <<>>, scope),
         value |-> [q \in kept |-> IF q \in KindAt(json, "template")
                                    THEN RenderValue(json[q].of, scope).text ELSE {}]]

-----------------------------------------------------------------------------
\* Compile.
Names(declarations) == {d.name : d \in Range(declarations)}
DeclaredOnce(declarations) == \A i, j \in DOMAIN declarations :
    declarations[i].name = declarations[j].name => i = j

\* Mutant of CheckRefs: the secrets of a template are not looked at.
CheckRefsNotSecrets(t, m, props) ==
    \A p \in Placeholders(t) :
        /\ p.ns = "vars" => p.path[1] \in Names(m.variables)
        /\ p.ns = "input" => props = {} \/ p.path[1] \in props

\* Every name a template reads is declared; no properties, no check.
CheckRefs(t, m, props) ==
    \A p \in Placeholders(t) :
        /\ p.ns = "vars" => p.path[1] \in Names(m.variables)
        /\ p.ns = "secrets" => p.path[1] \in Names(m.secrets)
        /\ p.ns = "input" => props = {} \/ p.path[1] \in props

CompileTemplate(t, m, props) == Parses(t) /\ CheckRefs(t, m, props)

\* The pattern and the enum of a variable are the set of words they allow.
Allows(v, word) == v.allowed = {} \/ word \in v.allowed

CompileVariables(m) ==
    /\ DeclaredOnce(m.variables)
    /\ \A v \in Range(m.variables) : v.default # NoText => Allows(v, v.default)

CompileSecrets(m) == DeclaredOnce(m.secrets)

ValidHeader(name) == name # "no header"
IsForbiddenHeader(name) == name = "Host"

CompilePairs(pairs, headerNames) ==
    \A k \in DOMAIN pairs :
        /\ headerNames => ValidHeader(k) /\ ~IsForbiddenHeader(k)
        /\ Parses(pairs[k])

\* The templates of the credential: the auth section is checked without an
\* input schema, since it belongs to no tool.
AuthTemplates(auth) ==
    CASE auth.type \in {"apiKey", "bearer"} -> {auth.value}
      [] auth.type = "basic" -> {auth.username, auth.password}
      [] OTHER -> {}

CompileAuth(m) ==
    /\ m.auth.type \in {"none", "apiKey", "bearer", "basic"}
    /\ m.auth.type = "apiKey" =>
          \/ m.auth.in = "header" /\ ValidHeader(m.auth.name)
          \/ m.auth.in = "query" /\ m.auth.name # NoText
    /\ \A t \in AuthTemplates(m.auth) : t # <<>> /\ CompileTemplate(t, m, {})

\* The templates of the one form of the body.
BodyTemplates(body) ==
    UNION {IF f = "json" THEN TemplatesIn(body.json) ELSE {body[f]} : f \in body.forms}

\* NoBody has no declaration; a declared body has exactly one form.
CompileBody(m) ==
    m.body.declared =>
        /\ m.method \notin {"GET", "HEAD"}
        /\ \E f \in {"json", "from", "text"} : m.body.forms = {f}
        /\ \A t \in BodyTemplates(m.body) : CompileTemplate(t, m, m.props)

CompileTool(m) ==
    /\ CompileTemplate(m.path, m, m.props)
    /\ CompilePairs(m.query, FALSE) /\ CompilePairs(m.headers, TRUE)
    /\ \A t \in Range(m.query) \cup Range(m.headers) : CheckRefs(t, m, m.props)
    /\ CompileBody(m)

Compile(m) ==
    /\ CompileVariables(m) /\ CompileSecrets(m)
    /\ CompilePairs(m.defaultHeaders, TRUE)
    /\ CompileAuth(m) /\ CompileTool(m)

\* The templates of the tool and of the credential it uses.
OwnTemplates(m) ==
    Range(m.query) \cup Range(m.headers) \cup {m.path} \cup BodyTemplates(m.body) \cup AuthTemplates(m.auth)

\* NoBody has no form; a JSON body is a tree.
ASSUME ToolRequestAssumption ==
    \A m \in Manifests :
        /\ ~m.body.declared => m.body.forms = {}
        /\ \A t \in OwnTemplates(m) \cup Range(m.defaultHeaders) : t \in Seq(Range(t))
        /\ \A q \in DOMAIN m.body.json :
              q \in Seq(Range(q)) /\ \A n \in 0 .. Len(q) : SubSeq(q, 1, n) \in DOMAIN m.body.json

-----------------------------------------------------------------------------
\* The operator's values.
Given(values, v) == IF v.name \in DOMAIN values THEN values[v.name] ELSE NoText

ValidateVariables(m, values) ==
    /\ \A v \in Range(m.variables) :
          IF Given(values, v) = NoText THEN v.required => v.default # NoText
          ELSE Allows(v, Given(values, v))
    /\ DOMAIN values \subseteq Names(m.variables)

ValidateSecretNames(m, names) == names \subseteq Names(m.secrets)

\* Shown to the operator; a call is made all the same.
MissingRequiredSecrets(m, present) == {s.name : s \in {d \in Range(m.secrets) : d.required}} \ present

ResolveVariables(m, values) ==
    LET word == [n \in Names(m.variables) |->
                    LET v == CHOOSE d \in Range(m.variables) : d.name = n
                    IN  IF Given(values, v) # NoText THEN Given(values, v) ELSE v.default]
    IN  [n \in {x \in DOMAIN word : word[x] # NoText} |-> word[n]]
-----------------------------------------------------------------------------
\* Building the request.
\* What is sent of a set of pairs, and whether rendering one fails the call.
Sent(pairs, scope) ==
    [k \in {x \in DOMAIN pairs : Render(pairs[x], scope).text # {}} |-> Render(pairs[k], scope).text]
FailsOne(pairs, scope) == \E t \in Range(pairs) : Render(t, scope).st = "error"

ValidateHeaderValue(words) == "control" \notin words

ApplyHeaders(pairs, scope) ==
    IF FailsOne(pairs, scope) \/ \E t \in Range(Sent(pairs, scope)) : ~ValidateHeaderValue(t)
    THEN Refused ELSE [ok |-> TRUE, set |-> Sent(pairs, scope)]

\* The literals between the placeholders of a path are whole segments.
RenderURL(m, scope) ==
    LET path == Render(m.path, scope) IN
    IF path.st # "ok" \/ ".." \in path.text \/ FailsOne(m.query, scope) THEN Refused
    ELSE [ok |-> TRUE, path |-> path.text, query |-> Sent(m.query, scope)]

\* Without its value a credential is left out.
ApplyAuth(m, scope) ==
    LET used == IF m.noAuth THEN {} ELSE AuthTemplates(m.auth)
        value == [t \in used |-> Render(t, scope)]
        header == IF m.auth.type = "apiKey" THEN m.auth.name ELSE "Authorization"
        Nothing == [ok |-> TRUE, query |-> <<>>, headers |-> <<>>]
    IN  IF used = {} THEN Nothing
        ELSE IF \E t \in used : value[t].st = "error" THEN Refused
        ELSE IF \E t \in used : value[t].text = {} THEN Nothing
        ELSE IF m.auth.type = "basic"
             THEN [Nothing EXCEPT !.headers = Only(header, {"user", "password"})]
        ELSE LET key == value[m.auth.value].text IN
             IF ~ValidateHeaderValue(key) THEN Refused
             ELSE IF m.auth.type = "apiKey" /\ m.auth.in = "query"
                  THEN [Nothing EXCEPT !.query = Only(m.auth.name, key)]
             ELSE [Nothing EXCEPT !.headers = Only(header, key)]

\* A body that does not render is left out.
RenderBody(m, scope) ==
    CASE m.body.forms = {} -> [st |-> "drop"]
      [] m.body.forms = {"json"} ->
            LET r == RenderNode(m.body.json, scope)
            IN  IF r.ok THEN [st |-> "ok", value |-> r.value] ELSE [st |-> "drop"]
      [] m.body.forms = {"from"} -> RenderValue(m.body.from, scope)
      [] OTHER -> Render(m.body.text, scope)

BuildRequest(m, i, args) ==
    LET scope == [input |-> args, vars |-> ResolveVariables(m, i.variables), secrets |-> i.secrets]
        url == RenderURL(m, scope)
        body == RenderBody(m, scope)
        default == ApplyHeaders(m.defaultHeaders, scope)
        own == ApplyHeaders(m.headers, scope)
        auth == ApplyAuth(m, scope)
        type == IF body.st = "ok" THEN Only("Content-Type", {"type"}) ELSE <<>>
    IN  IF ~(url.ok /\ default.ok /\ own.ok /\ auth.ok) \/ body.st = "error" THEN Refused
        ELSE [ok |-> TRUE, path |-> url.path, query |-> Over(auth.query, url.query),
              headers |-> Over(auth.headers, Over(own.set, Over(default.set, type))), body |-> body]

-----------------------------------------------------------------------------
Import ==
    /\ stage = "start"
    /\ manifest' \in Manifests
    /\ stage' = IF Compile(manifest') THEN "imported" ELSE "refused"
    /\ UNCHANGED <<instance, arguments, request>>

\* Creating the instance and setting its secrets.
Configure ==
    /\ stage = "imported"
    /\ instance' \in [variables : Values, secrets : Credentials]
    /\ ValidateVariables(manifest, instance'.variables)
    /\ ValidateSecretNames(manifest, DOMAIN instance'.secrets)
    /\ stage' = "configured"
    /\ UNCHANGED <<manifest, arguments, request>>

CallTool ==
    /\ stage = "configured"
    /\ arguments' \in Arguments
    /\ request' = BuildRequest(manifest, instance, arguments')
    /\ stage' = "called"
    /\ UNCHANGED <<manifest, instance>>

RequestNext == Import \/ Configure \/ CallTool

RequestSpec == RequestInit /\ [][RequestNext]_requestVars

-----------------------------------------------------------------------------
Scope == [input |-> arguments, vars |-> ResolveVariables(manifest, instance.variables),
          secrets |-> instance.secrets]

\* Text that is there and may stand anywhere.
Ordinary(word) == word \notin {NoText, Missing, "null", "object", "control", ".."}

\* Every declared name has plain text for a value.
AllSupplied ==
    /\ \A n \in Names(manifest.variables) : n \in DOMAIN Scope.vars /\ Ordinary(Scope.vars[n])
    /\ \A n \in Names(manifest.secrets) : n \in DOMAIN Scope.secrets /\ Ordinary(Scope.secrets[n])
    /\ \A n \in manifest.props : n \in DOMAIN arguments /\ Ordinary(arguments[n])

Checked == OwnTemplates(manifest)

\* What checkRefs can tell: a template that is not empty, whose literals are
\* plain and which reads no path into an input.
Simple(t) ==
    /\ t # <<>>
    /\ \A part \in Range(t) : Len(part.path) = 1 /\ (part.ns = "literal" => Ordinary(part.path[1]))

(* "This turns a class of runtime 'why is this parameter empty?' mysteries *)
(* into an import-time error message" (checkRefs): when a manifest was     *)
(* accepted and the operator's values too, and everything declared is      *)
(* supplied, no field of the request is missing.  Outside of what          *)
(* checkRefs looks at: inherited headers that fail, inputs in the auth     *)
(* section, nested paths, and tools without declared inputs.               *)
NothingLeftOut ==
    /\ stage = "called" /\ AllSupplied /\ manifest.props # {}
    /\ \A t \in Checked : Simple(t)
    /\ \A t \in AuthTemplates(manifest.auth) : \A p \in Placeholders(t) : p.ns # "input"
    /\ ApplyHeaders(manifest.defaultHeaders, Scope).ok
    =>  /\ request.ok
        /\ DOMAIN manifest.query \subseteq DOMAIN request.query
        /\ DOMAIN manifest.headers \subseteq DOMAIN request.headers
        /\ manifest.body.declared => request.body.st = "ok"
        /\ manifest.body.forms = {"json"} => DOMAIN request.body.value = DOMAIN manifest.body.json
        /\ manifest.auth.type # "none" /\ ~manifest.noAuth =>
              \/ "Authorization" \in DOMAIN request.headers
              \/ manifest.auth.name \in DOMAIN request.headers \cup DOMAIN request.query

\* Every placeholder of the template has a value.
Whole(t) == \A p \in Placeholders(t) : Operand(Scope, p) # Missing

\* Every template of what is left of a body has its values, every node its
\* parent and every array its elements.
WholeBody(json, value) ==
    \A q \in DOMAIN value :
        /\ q \in KindAt(json, "template") => Whole(json[q].of)
        /\ \A c \in DOMAIN json : IsPrefix(c, q) => c \in DOMAIN value
        /\ \A c \in DOMAIN json :
              q \in KindAt(json, "array") /\ Len(c) = Len(q) + 1 /\ IsPrefix(q, c) => c \in DOMAIN value

(* "Emitting a half-rendered URL or an empty query parameter is how        *)
(* 'optional filter' silently becomes 'match everything'", and an array    *)
(* without one of its elements "would shift every later index": what is    *)
(* sent was rendered whole, whatever was left out around it.               *)
WholeOrAbsent ==
    stage = "called" /\ request.ok =>
        /\ Whole(manifest.path)
        /\ \A k \in DOMAIN request.query : k \in DOMAIN manifest.query =>
              request.query[k] # {} /\ (Whole(manifest.query[k]) \/ k = manifest.auth.name)
        /\ \A k \in DOMAIN manifest.headers \cap DOMAIN request.headers :
              \/ Whole(manifest.headers[k])
              \/ k \in DOMAIN manifest.defaultHeaders \cup {manifest.auth.name, "Authorization", "Content-Type"}
        /\ request.body.st = "ok" =>
              IF manifest.body.forms = {"json"}
              THEN WholeBody(manifest.body.json, request.body.value)
              ELSE \A t \in BodyTemplates(manifest.body) : Whole(t)
=============================================================================
