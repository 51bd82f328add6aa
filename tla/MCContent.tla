----------------------------- MODULE MCContent -----------------------------
(* Small instances of the parts that transform content: the request a tool *)
(* builds, the pages of its response, the chunks of a document, the crawl  *)
(* that brings documents and the search that finds their chunks; and of    *)
(* the log of the calls.  They share nothing; each behaviour is one of     *)
(* them, from its inputs on.                                               *)
EXTENDS ToolRequest, Paging, Chunking, Crawl, Search, UsageLog, TLC

contentVars == <<requestVars, pagingVars, chunkingVars, crawlVars, searchVars>>
vars == <<contentVars, logVars>>

ContentInit == RequestInit /\ PagingInit /\ ChunkingInit /\ CrawlInit /\ SearchInit
Init == ContentInit /\ LogInit

\* The others have not begun.
ContentNext ==
    \/ /\ PagingInit /\ ChunkingInit /\ CrawlInit /\ SearchInit
       /\ RequestNext /\ UNCHANGED <<pagingVars, chunkingVars, crawlVars, searchVars>>
    \/ /\ RequestInit /\ ChunkingInit /\ CrawlInit /\ SearchInit
       /\ PagingNext /\ UNCHANGED <<requestVars, chunkingVars, crawlVars, searchVars>>
    \/ /\ RequestInit /\ PagingInit /\ CrawlInit /\ SearchInit
       /\ ChunkingNext /\ UNCHANGED <<requestVars, pagingVars, crawlVars, searchVars>>
    \/ /\ RequestInit /\ PagingInit /\ ChunkingInit /\ SearchInit
       /\ CrawlNext /\ UNCHANGED <<requestVars, pagingVars, chunkingVars, searchVars>>
    \/ /\ RequestInit /\ PagingInit /\ ChunkingInit /\ CrawlInit
       /\ SearchNext /\ UNCHANGED <<requestVars, pagingVars, chunkingVars, crawlVars>>

\* One of the log's initial states is enough for the others.
Next ==
    \/ LogInit /\ cap = Min(Caps) /\ ContentNext /\ UNCHANGED logVars
    \/ ContentInit /\ LogNext /\ UNCHANGED contentVars

\* The log's prune loop and its handlers keep running.
FairSpec ==
    /\ Init /\ [][Next]_vars
    /\ \A c \in ToolCalls : WF_logVars(ContentInit /\ AppendEntry(c) /\ UNCHANGED contentVars)
    /\ WF_logVars(ContentInit /\ Prune /\ UNCHANGED contentVars)

-----------------------------------------------------------------------------
\* Tool requests.
P(ns, path, filters) == [ns |-> ns, path |-> path, filters |-> filters]
Lit == P("literal", <<"lit">>, <<>>)

\* Every kind of part that is accepted or refused.
Templates == {
    <<Lit>>, <<P("input", <<"x">>, <<>>)>>, <<Lit, P("input", <<"x">>, <<>>)>>,
    <<P("input", <<"x">>, <<"a", "fallback">>)>>, <<P("input", <<"x", "inner">>, <<>>), Lit>>,
    <<P("vars", <<"v">>, <<>>)>>, <<P("secrets", <<"s">>, <<>>), P("vars", <<"v">>, <<>>)>>,
    <<P("secrets", <<"undeclared">>, <<>>)>>, <<P("env", <<"x">>, <<>>)>>}

\* Bodies of every form.
Node(kind) == <<>> :> [kind |-> kind]
T(t) == <<>> :> [kind |-> "template", of |-> t]
\* A node with children at two keys.
Parent(kind, a, b) ==
    Node(kind) @@ [q \in {<<"0">> \o r : r \in DOMAIN a} |-> a[Tail(q)]]
               @@ [q \in {<<"1">> \o r : r \in DOMAIN b} |-> b[Tail(q)]]
Object(t) == Parent("object", T(t), Node("literal"))
Array(t) == Parent("array", T(t), Node("literal"))
Nested(t) == Parent("object", Parent("array", Node("literal"), Array(t)), Parent("array", Object(t), T(<<Lit>>)))

\* A manifest with one variable, secret and input and constant fields.
Plain == [
    variables |-> <<[name |-> "v", required |-> FALSE, default |-> "", allowed |-> {}]>>,
    secrets |-> <<[name |-> "s", required |-> TRUE]>>,
    defaultHeaders |-> [k \in {} |-> Lit],
    auth |-> [type |-> "none", in |-> "header", name |-> "X-Key", value |-> <<Lit>>, username |-> <<Lit>>, password |-> <<Lit>>],
    props |-> {"x"}, method |-> "POST", path |-> <<Lit>>,
    query |-> [k \in {} |-> Lit], headers |-> [k \in {} |-> Lit], noAuth |-> FALSE,
    body |-> [declared |-> FALSE, forms |-> {}, json |-> Node("literal"), from |-> <<Lit>>, text |-> <<Lit>>]]

Bodies(t) == {[Plain.body EXCEPT !.declared = TRUE, !.forms = f, !.json = j, !.from = t, !.text = t] :
    f \in {{}, {"json"}, {"from"}, {"text"}, {"json", "text"}}, j \in {T(t), Object(t), Array(t), Nested(t)}}

\* renderNode as it recurses, from the node at p down; absent where it fails.
RECURSIVE RenderFrom(_, _, _)
RenderFrom(json, p, scope) ==
    LET own == p :> (IF json[p].kind = "template" THEN RenderValue(json[p].of, scope).text ELSE {})
        children == {RenderFrom(json, q, scope) : q \in {c \in DOMAIN json : Len(c) = Len(p) + 1 /\ IsPrefix(p, c)}}
        all == UNION {DOMAIN c.value : c \in children}
        union == own @@ [q \in all |-> (CHOOSE c \in children : q \in DOMAIN c.value).value[q]]
    IN  IF \/ json[p].kind = "template" /\ RenderValue(json[p].of, scope).st # "ok"
           \/ json[p].kind = "array" /\ \E c \in children : ~c.ok
        THEN [ok |-> FALSE, value |-> <<>>] ELSE [ok |-> TRUE, value |-> union]

\* The ways to put a template into a slot of the tool.
With(m, slot, t) ==
    CASE slot = "path" -> {[m EXCEPT !.path = t]}
      [] slot = "query" -> {[m EXCEPT !.query = "q" :> t]}
      [] slot = "headers" -> {[m EXCEPT !.headers = h :> t] : h \in {"X-Tool", "Host", "Authorization", "Content-Type"}}
      [] slot = "defaults" -> {[m EXCEPT !.defaultHeaders = "X-Tool" :> t]}
      [] slot = "auth" -> {[m EXCEPT !.auth = [@ EXCEPT !.type = a[1], !.in = a[2], !.value = t, !.password = t], !.noAuth = n] :
            a \in {<<"apiKey", "header">>, <<"apiKey", "query">>, <<"bearer", "">>, <<"basic", "">>}, n \in BOOLEAN}
      [] slot = "body" -> {[m EXCEPT !.body = b, !.method = g] : b \in Bodies(t), g \in {"POST", "GET"}}

\* A tool that reads all of them already.
Busy == [Plain EXCEPT
    !.query = "n" :> <<P("input", <<"x">>, <<>>)>>, !.headers = "X-Both" :> <<P("vars", <<"v">>, <<>>)>>,
    !.defaultHeaders = "X-Both" :> <<Lit>>,
    !.auth = [@ EXCEPT !.type = "bearer", !.value = <<P("secrets", <<"s">>, <<>>)>>]]

Slots == {"path", "query", "headers", "defaults", "auth", "body"}

\* Declarations that are accepted and refused in every way.
Variable(r, d, a) == [name |-> "v", required |-> r, default |-> d, allowed |-> a]
Declarations == {<<>>, <<Variable(TRUE, "", {}), Variable(FALSE, "", {})>>}
    \cup {<<Variable(r, d, a)>> : r \in BOOLEAN, d \in {"", "text", "odd"}, a \in {{}, {"text"}}}

SmallManifests ==
    UNION {With(m, s, t) : m \in {Plain, Busy}, s \in Slots, t \in Templates}
    \cup {[Busy EXCEPT !.variables = d] : d \in Declarations}
    \cup {[Busy EXCEPT !.secrets = @ \o @], [Busy EXCEPT !.auth.value = <<>>]}
    \cup {[m EXCEPT !.props = {}] : m \in UNION {With(Plain, s, t) : s \in {"query", "path"}, t \in Templates}}

SmallValues == {<<>>} \cup {"v" :> w : w \in {"", "text", "odd"}} \cup {"undeclared" :> "text"}
SmallCredentials == {<<>>, "s" :> "key", "undeclared" :> "key"}
SmallArguments == {<<>>} \cup {"x" :> w : w \in {"text", "", "null", "object", "control", ".."}}

\* What RenderNode says of a body is what renderNode computes.
ASSUME RenderNodeComputes ==
    \A t \in Templates : \A body \in {T(t), Object(t), Array(t), Nested(t)}, x \in SmallArguments, v \in SmallValues :
        LET scope == [input |-> x, vars |-> v, secrets |-> <<>>]
            from == RenderFrom(body, <<>>, scope)
            node == RenderNode(body, scope)
        IN  Parses(t) => node.ok = from.ok /\ (node.ok => node.value = from.value)

-----------------------------------------------------------------------------
\* Pages.
Text(n, d) == [kind |-> "text", length |-> n, decoded |-> d]
SmallTools ==
    [format : {"", "json", "text", "xml"}, select : {<<>>, <<"field">>, <<"list", "0">>},
     successCodes : {{}, {206}}, decodeBase64 : BOOLEAN, paginate : BOOLEAN,
     props : {{"offset", "limit"}, {"limit"}}]
SmallUpstreams ==
    [json : BOOLEAN, truncated : BOOLEAN, length : {0, 3},
     body : {Invalid, [kind |-> "null"], Text(2, Invalid),
             [kind |-> "object", of |-> [field |-> Text(3, 2),
                 list |-> [kind |-> "array", of |-> "0" :> Text(1, Invalid)]]]}]
SmallOffsets == {None, -1, 1, 9}
SmallLimits == {None, -1, 1, 2, 9}

-----------------------------------------------------------------------------
\* Long enough for a chunk to be cut short by every separator.
Words(n) == [i \in 1 .. n |-> "w"]
SmallTexts == {<<>>, <<"w", ".">>} \cup
    {Words(i) \o t \o Words(j) : i \in {3, 4}, j \in {0, 4}, t \in [1 .. 4 -> {"w", ".", " ", "\n"}]}
SmallOverlaps == {-1, 1, 5, 6}
SmallDocuments == UNION {[1 .. n -> {1, 2, 3, Fence, Prose}] : n \in 1 .. 5}

-----------------------------------------------------------------------------
\* Up to five bookmarks or repositories on pages of two, with keys of their own.
SmallBookmarks ==
    {[i \in DOMAIN f |-> IF f[i] = 3 THEN Nameless ELSE {<<i, k>> : k \in 1 .. f[i]}] :
        f \in UNION {[1 .. n -> {0, 2, 3}] : n \in 0 .. 5}}
Repository(i, kind) ==
    [usable |-> kind # "empty", listed |-> IF kind = "cut" THEN 1 ELSE 3,
     files |-> <<<<i, 1>>, Other, <<i, 2>>>>]
SmallRepositories ==
    {[i \in DOMAIN f |-> Repository(i, f[i])] : f \in UNION {[1 .. n -> {"empty", "cut", "whole"}] : n \in 0 .. 5}}

-----------------------------------------------------------------------------
\* Contents for a search.
SmallContents == [sim : 0 .. 2, word : 0 .. 1]
=============================================================================
