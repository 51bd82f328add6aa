------------------------------- MODULE Paging -------------------------------
(***************************************************************************)
(* mapResponse of internal/engine/response.go: what a client gets to see   *)
(* of an upstream response, and how it reads a long text page by page,     *)
(* each page a call of its own with the next_offset of the one before.     *)
(*                                                                         *)
(* A JSON value is an object, an array (a function from its indices) or a  *)
(* text; a text is its length in characters and that of what it decodes to *)
(* from base64, Invalid when it does not.  The upstream's document stays   *)
(* as it is while it is read.                                              *)
(***************************************************************************)
EXTENDS Integers, Sequences, SequencesExt

CONSTANTS
    Tools,      \* response sections: [format, select, successCodes, decodeBase64, paginate, props]
    Upstreams,  \* documents: [json, truncated, length, body], see MapResponse
    Offsets, PageLimits,  \* values of the arguments, None when not given
    None, Invalid,
    DefaultPage, MaxPage  \* defaultPageChars, maxPageChars

VARIABLES tool, upstream, first, next, more, read, pages
pagingVars == <<tool, upstream, first, next, more, read, pages>>

NoTool == [format |-> None]
PagingInit ==
    /\ tool = NoTool /\ upstream = NoTool
    /\ first = 0 /\ next = None /\ more = FALSE /\ read = <<>> /\ pages = 0

-----------------------------------------------------------------------------
\* compileResponse; the checks on one number or header name are left out.
CompileResponse(t) ==
    /\ t.format \in {"", "auto", "json", "text"}
    /\ "" \notin Range(t.select)
    /\ t.decodeBase64 => t.select # <<>>
    /\ t.paginate => /\ t.format = "json" => t.select # <<>>
                     /\ {"offset", "limit"} \subseteq t.props

IsSuccess(t, status) ==
    IF t.successCodes # {} THEN status \in t.successCodes ELSE status \in 200 .. 299

Fails(why) == [kind |-> "error", why |-> why]

\* One segment of the select path: a field, or the index of an element.
Select(v, segment) ==
    IF v.kind \in {"object", "array"} /\ segment \in DOMAIN v.of THEN v.of[segment]
    ELSE Fails("upstream failure")

Project(v, path) == FoldLeft(Select, v, path)

ASSUME FormatAssumption == None \notin {"", "auto", "json", "text"}
ASSUME PagingAssumption ==
    /\ None \notin Int
    /\ DefaultPage \in Nat \ {0} /\ MaxPage \in Nat \ {0}
    /\ Offsets \cup PageLimits \subseteq Int \cup {None}
    /\ \A u \in Upstreams : u.length \in Nat
    /\ \A u \in Upstreams, t \in Tools :
          LET v == Project(u.body, t.select)
          IN  u.body # Invalid /\ v.kind = "text" =>
                 v \in [kind : {"text"}, length : Nat, decoded : Nat \cup {Invalid}]

Decoded(v) ==
    IF v.kind = "error" THEN v
    ELSE IF v.kind # "text" THEN Fails("internal")
    ELSE IF v.decoded = Invalid THEN Fails("upstream failure")
    ELSE [v EXCEPT !.length = v.decoded]

\* Mutant of PaginateText: has_more is said of a page that ends the text.
PaginateTextMore(total, offset, limit) ==
    LET from == IF offset = None THEN 0 ELSE IF offset < 0 THEN 0 ELSE IF offset > total THEN total ELSE offset
        chars == IF limit = None THEN DefaultPage ELSE IF limit <= 0 THEN DefaultPage
                 ELSE IF limit > MaxPage THEN MaxPage ELSE limit
        end == IF from + chars > total THEN total ELSE from + chars
    IN  [kind |-> "page", from |-> from, end |-> end, more |-> from + chars <= total]

PaginateText(total, offset, limit) ==
    LET from == IF offset = None THEN 0 ELSE IF offset < 0 THEN 0 ELSE IF offset > total THEN total ELSE offset
        chars == IF limit = None THEN DefaultPage ELSE IF limit <= 0 THEN DefaultPage
                 ELSE IF limit > MaxPage THEN MaxPage ELSE limit
        end == IF from + chars > total THEN total ELSE from + chars
    IN  [kind |-> "page", from |-> from, end |-> end, more |-> end < total]

\* The body is Invalid when it does not parse, and empty parses as null.
MapResponse(t, u, status, offset, limit) ==
    LET asJSON == t.format = "json" \/ (t.format # "text" /\ u.json)
        selected == Project(u.body, t.select)
        value == IF t.decodeBase64 THEN Decoded(selected) ELSE selected
    IN  IF ~IsSuccess(t, status) THEN Fails("upstream status")
        ELSE IF ~asJSON
             THEN IF t.paginate /\ ~u.truncated THEN PaginateText(u.length, offset, limit)
                  ELSE [kind |-> "text"]
        ELSE IF u.truncated THEN Fails("response too large")
        ELSE IF u.body = Invalid THEN [kind |-> "text"]
        ELSE IF value.kind = "error" THEN value
        ELSE IF ~t.paginate THEN [kind |-> "data"]
        ELSE IF value.kind # "text" THEN Fails("internal")
        ELSE PaginateText(value.length, offset, limit)

-----------------------------------------------------------------------------
Begin ==
    /\ tool = NoTool
    /\ tool' \in {t \in Tools : CompileResponse(t)}
    /\ upstream' \in Upstreams
    /\ more' = TRUE
    /\ UNCHANGED <<first, next, read, pages>>

\* A call: the first asks for any offset, the others for where the last page
\* ended.  After an error, or a result that is no page, the client may ask
\* again.
Call(status, offset, limit) ==
    LET result == MapResponse(tool, upstream, status, offset, limit) IN
    /\ more
    /\ next # None => offset = next
    /\ IF result.kind # "page" THEN UNCHANGED <<first, next, more, read, pages>>
       ELSE /\ first' = IF next = None THEN result.from ELSE first
            /\ next' = result.end
            /\ more' = result.more
            /\ read' = read \o [i \in 1 .. result.end - result.from |-> result.from + i]
            /\ pages' = pages + 1
    /\ UNCHANGED <<tool, upstream>>

PagingNext ==
    \/ Begin
    \/ \E status \in {200, 206, 500}, limit \in PageLimits :
          \E offset \in IF next = None THEN Offsets ELSE {next} : Call(status, offset, limit)

PagingSpec == PagingInit /\ [][PagingNext]_pagingVars

-----------------------------------------------------------------------------
\* The length of the text that is paged.
Total ==
    LET asJSON == tool.format = "json" \/ (tool.format # "text" /\ upstream.json)
        field == Project(upstream.body, tool.select)
    IN  IF ~asJSON THEN upstream.length
        ELSE IF tool.decodeBase64 THEN field.decoded ELSE field.length

(* Pages are a way to read a long text: a client that follows next_offset  *)
(* gets every character from where it began to the end exactly once and in *)
(* order, every page but the last brings something, and has_more is the    *)
(* truth, whatever limits it asks for and calls fail in between.           *)
PagesCover ==
    pages > 0 =>
        /\ read = [i \in 1 .. next - first |-> first + i]
        /\ more <=> next < Total
        /\ pages <= IF more THEN Len(read) ELSE Len(read) + 1
=============================================================================
