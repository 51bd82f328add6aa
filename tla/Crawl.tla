------------------------------- MODULE Crawl -------------------------------
(***************************************************************************)
(* How the crawlers of internal/index/source/linkding/linkding.go and      *)
(* internal/index/source/gitea/gitea.go walk a library that stays as it    *)
(* is: page by page, up to their limits, with upstream calls that fail.    *)
(* (The Zotero crawler, with a library that changes, is part of Reindex.)  *)
(*                                                                         *)
(* A linkding library is a sequence of bookmarks, each the set of its      *)
(* complete snapshots; a bookmark without an integer id is Nameless.  A    *)
(* Gitea library is a sequence of repositories: [usable, files, listed]    *)
(* with files a sequence of keys, or Other for an entry that is no file of *)
(* a known dialect, of which the server lists so many and says that it cut *)
(* the rest.                                                               *)
(***************************************************************************)
EXTENDS Integers, Sequences, SequencesExt, FiniteSetsExt

CONSTANTS
    Bookmarks, Repositories,        \* libraries of the two kinds
    Nameless, Other,
    PageLength,                     \* pageSize, repoPageSize
    MaxBookmarks, MaxRepos, MaxFiles

ASSUME CrawlAssumption ==
    /\ PageLength \in Nat \ {0} /\ {MaxBookmarks, MaxRepos, MaxFiles} \subseteq Nat
    /\ \A c \in Bookmarks : c \in Seq(Range(c))
    /\ \A c \in Repositories :
          /\ c \in Seq(Range(c))
          /\ \A r \in Range(c) : r.files \in Seq(Range(r.files)) /\ r.listed \in 0 .. Len(r.files)

VARIABLES
    step,      \* "start", or what the crawl is about to do; "done", "failed"
    catalog, source, \* the library and its kind
    page,      \* bookmarks, repositories or files listed and not yet visited
    offset,    \* items on the pages before this one
    processed, \* bookmarks visited, or files fetched
    repos,     \* gitea: repositories found and not yet walked
    truncated, \* what Crawl returns
    seen,      \* documents emitted
    hidden     \* history: a listing failed and the crawl went on
crawlVars == <<step, catalog, source, page, offset, processed, repos, truncated, seen, hidden>>
walk == <<catalog, source>>

CrawlInit ==
    /\ step = "start" /\ catalog = <<>> /\ source = ""
    /\ page = <<>> /\ offset = 0 /\ processed = 0 /\ repos = <<>>
    /\ truncated = FALSE /\ seen = {} /\ hidden = FALSE

EndCrawl(t) == step' = "done" /\ truncated' = t
GoOn(next) == step' = next /\ UNCHANGED truncated

\* The page of the library at the offset.
PageEnd == Min({offset + PageLength, Len(catalog)})
Listed == SubSeq(catalog, offset + 1, PageEnd)

\* Mutant of LastPage: a page is short when few of its repositories are used.
LastPageOfUsable ==
    Len(Listed) < PageLength \/ (source = "gitea" /\ \E i \in DOMAIN Listed : ~Listed[i].usable)

\* A short page is the last.
LastPage == Len(Listed) < PageLength

\* A listing of bookmarks, repositories or files that fails, or a document that
\* cannot be stored, ends the crawl.
CrawlFails ==
    /\ \/ step \in {"bookmarks", "repos"}
       \/ step = "tree" /\ repos # <<>>
       \/ step \in {"bookmark", "file"} /\ page # <<>>
    /\ step' = "failed"
    /\ UNCHANGED <<walk, page, offset, processed, repos, truncated, seen, hidden>>

-----------------------------------------------------------------------------
\* linkding.
BeginBookmarks ==
    /\ step = "start"
    /\ catalog' \in Bookmarks /\ source' = "linkding"
    /\ GoOn("bookmarks")
    /\ UNCHANGED <<page, offset, processed, repos, seen, hidden>>

ListBookmarks ==
    /\ step = "bookmarks"
    /\ IF processed >= MaxBookmarks THEN EndCrawl(TRUE) /\ UNCHANGED page
       ELSE /\ page' = Listed
            /\ IF Listed = <<>> THEN EndCrawl(FALSE) ELSE GoOn("bookmark")
    /\ UNCHANGED <<walk, offset, processed, repos, seen, hidden>>

\* Each snapshot is emitted, with its text or, when it cannot be fetched,
\* without; a bookmark that has none, or cannot be listed, under its own key.
CrawlBookmark ==
    /\ step = "bookmark" /\ page # <<>>
    /\ page' = Tail(page)
    /\ IF Head(page) = Nameless THEN UNCHANGED <<processed, seen, hidden>>
       ELSE /\ processed' = processed + 1
            /\ \/ seen' = seen \cup Head(page) /\ UNCHANGED hidden
               \/ hidden' = TRUE /\ UNCHANGED seen
    /\ UNCHANGED <<step, walk, offset, repos, truncated>>

EndPage ==
    /\ step = "bookmark" /\ page = <<>>
    /\ IF LastPage THEN EndCrawl(FALSE) /\ UNCHANGED offset
       ELSE GoOn("bookmarks") /\ offset' = offset + PageLength
    /\ UNCHANGED <<walk, page, processed, repos, seen, hidden>>

-----------------------------------------------------------------------------
\* Gitea: the repositories first, every one or the one that is pinned.
BeginRepos ==
    /\ step = "start"
    /\ catalog' \in Repositories /\ source' = "gitea"
    /\ \/ GoOn("repos") /\ UNCHANGED repos
       \/ GoOn("tree") /\ Len(catalog') = 1 /\ repos' = catalog'
    /\ UNCHANGED <<page, offset, processed, seen, hidden>>

ListRepos ==
    /\ step = "repos"
    /\ page' = Listed
    /\ GoOn("repo")
    /\ UNCHANGED <<walk, offset, processed, repos, seen, hidden>>

DiscoverRepo ==
    /\ step = "repo" /\ page # <<>>
    /\ repos' = IF Head(page).usable THEN Append(repos, Head(page)) ELSE repos
    /\ IF Head(page).usable /\ Len(repos') >= MaxRepos
       THEN step' = "tree" /\ truncated' = TRUE /\ page' = <<>>
       ELSE UNCHANGED <<step, truncated>> /\ page' = Tail(page)
    /\ UNCHANGED <<walk, offset, processed, seen, hidden>>

EndRepoPage ==
    /\ step = "repo" /\ page = <<>>
    /\ IF LastPage THEN GoOn("tree") /\ UNCHANGED offset
       ELSE GoOn("repos") /\ offset' = offset + PageLength
    /\ UNCHANGED <<walk, page, processed, repos, seen, hidden>>

\* The files of the first repository left, as far as the server lists them.
ListTree ==
    /\ step = "tree" /\ repos # <<>>
    /\ LET r == Head(repos) IN
       /\ page' = SubSeq(r.files, 1, r.listed)
       /\ truncated' = (truncated \/ r.listed < Len(r.files))
    /\ step' = "file"
    /\ UNCHANGED <<walk, offset, processed, repos, seen, hidden>>

\* A file is emitted with its text or without, until the limit of the whole
\* crawl, which is asked before every entry and after the last.
CrawlFile ==
    /\ step = "file" /\ page # <<>>
    /\ IF processed >= MaxFiles THEN EndCrawl(TRUE) /\ UNCHANGED <<page, processed, seen>>
       ELSE /\ page' = Tail(page)
            /\ IF Head(page) = Other THEN UNCHANGED <<processed, seen>>
               ELSE processed' = processed + 1 /\ seen' = seen \cup {Head(page)}
            /\ UNCHANGED <<step, truncated>>
    /\ UNCHANGED <<walk, offset, repos, hidden>>

EndTree ==
    /\ step = "file" /\ page = <<>>
    /\ repos' = Tail(repos)
    /\ IF processed >= MaxFiles THEN EndCrawl(TRUE) ELSE GoOn("tree")
    /\ UNCHANGED <<walk, page, offset, processed, seen, hidden>>

EndRepos ==
    /\ step = "tree" /\ repos = <<>>
    /\ EndCrawl(truncated)
    /\ UNCHANGED <<walk, page, offset, processed, repos, seen, hidden>>

CrawlNext ==
    \/ BeginBookmarks \/ ListBookmarks \/ CrawlBookmark \/ EndPage
    \/ BeginRepos \/ ListRepos \/ DiscoverRepo \/ EndRepoPage
    \/ ListTree \/ CrawlFile \/ EndTree \/ EndRepos
    \/ CrawlFails

CrawlSpec == CrawlInit /\ [][CrawlNext]_crawlVars

-----------------------------------------------------------------------------
Holdings ==
    IF source = "linkding" THEN UNION (Range(catalog) \ {Nameless})
    ELSE UNION {Range(r.files) \ {Other} : r \in {q \in Range(catalog) : q.usable}}

(* What a crawl did not see is pruned unless it says that it may have      *)
(* stopped "before covering every document" (source.Crawler): a crawl that *)
(* is not truncated has emitted every document of the library, with or     *)
(* without its text, unless the snapshots of a bookmark could not be       *)
(* listed, whatever pages, unusable entries and limits it met.             *)
UntruncatedSawAll ==
    step = "done" /\ ~truncated /\ ~hidden => Holdings \subseteq seen
=============================================================================
