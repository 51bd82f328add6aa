------------------------------ MODULE Reindex ------------------------------
(***************************************************************************)
(* The semantic-search index of one instance: the background run of        *)
(* internal/service/index.go, the crawl it drives                          *)
(* (internal/index/source/zotero), and the rows it leaves in SQLite        *)
(* (internal/store/sqlitestore/searchindex.go).  Instances share nothing   *)
(* but the embedder settings, which a run only reads.                      *)
(*                                                                         *)
(* Every repository call is one transaction and one step; between two the  *)
(* upstream library changes, the operator changes the embedder, or the     *)
(* process dies and comes back with its tables and without its memory.     *)
(* A fault stands for any call that fails: the upstream's, the rate        *)
(* limiter's or breaker's refusal of it, the embedder's, SQLite's, or the  *)
(* end of the run's 30 minutes.                                            *)
(***************************************************************************)
EXTENDS Naturals, Sequences, FiniteSets

CONSTANTS
    Docs,       \* items of the library, each with one attachment
    Texts,      \* texts an attachment can have; the content hash separates them
    Models,     \* embedder models
    None,       \* no text, no row, no meta, no embedder URL
    PageSize,   \* pageSize
    MaxItems,   \* maxItems
    MaxEdits,   \* bound on changes of the library and of the embedder
    MaxFaults,  \* bound on failing calls and crashes
    MaxRuns     \* bound on runs

ASSUME ReindexAssumption ==
    /\ PageSize \in Nat \ {0}
    /\ MaxItems \in Nat \ {0}
    /\ MaxEdits \in Nat /\ MaxFaults \in Nat /\ MaxRuns \in Nat
    /\ None \notin Docs \cup Texts \cup Models
    /\ IsFiniteSet(Docs)

VARIABLES
    library,   \* upstream: the items, in listing order
    text,      \* upstream: text[d], None when nothing was extracted
    settings,  \* the configured embedder model, None without a URL
    chunks,    \* chunks[d][b]: how often batch b is stored for d
    rows,      \* index_documents: the content hash of d, or None
    meta,      \* index_meta: the model, or None
    running,   \* status[instance].Running
    run,       \* the locals of runReindex, or NoRun
    edits, faults, runs

store == <<chunks, rows, meta>>
upstream == <<library, text>>
vars == <<library, text, settings, store, running, run, edits, faults, runs>>

\* What one InsertChunks stores: a document's text, embedded with a model.
Batch == [text : Texts, model : Models]
Nothing == [b \in Batch |-> 0]
Just(b) == [Nothing EXCEPT ![b] = 1]
Stored(d) == {b \in Batch : chunks[d][b] > 0}
Items(seq) == {seq[i] : i \in DOMAIN seq}
OptText == Texts \cup {None}

NoRun == [pc |-> "none"]
Accepted == [pc : {"setup"}, mode : {"update", "rebuild"}]
Working == [pc : {"page", "visit", "clear", "embed", "record", "prune", "prune row"},
            mode : {"update", "rebuild"},
            model : Models,
            existing : [Docs -> OptText],
            seen : SUBSET Docs,
            start : Nat, queue : Seq(Docs), full : BOOLEAN, processed : Nat,
            doc : Docs \cup {None}, body : OptText,
            todo : SUBSET Docs,
            wrote : BOOLEAN,
            quiet : BOOLEAN,  \* history: no fault and no edit since the run began
            sound : BOOLEAN]  \* history: rows described the chunks when it began

\* What a skipped document relies on: a row says the index holds the text
\* with that hash, once, and nothing else of the document.
RowDescribes(d) ==
    IF rows[d] = None THEN chunks[d] = Nothing
    ELSE \E m \in Models : chunks[d] = Just([text |-> rows[d], model |-> m])

Orders == {s \in UNION {[1 .. n -> Docs] : n \in 0 .. Cardinality(Docs)} :
              \A i, j \in DOMAIN s : s[i] = s[j] => i = j}

Init ==
    /\ library \in Orders
    /\ text \in [Docs -> OptText]
    /\ settings \in Models
    /\ chunks = [d \in Docs |-> Nothing]
    /\ rows = [d \in Docs |-> None]
    /\ meta = None
    /\ running = FALSE
    /\ run = NoRun
    /\ edits = 0 /\ faults = 0 /\ runs = 0

-----------------------------------------------------------------------------
\* The world around a run.

Disturbed(r) == IF r = NoRun \/ r.pc = "setup" THEN r ELSE [r EXCEPT !.quiet = FALSE]

Edit ==
    /\ edits < MaxEdits
    /\ edits' = edits + 1
    /\ UNCHANGED <<store, running, faults, runs>>

\* A new item heads the listing (Zotero lists the latest first).
AddItem(d) ==
    /\ Edit
    /\ d \notin Items(library)
    /\ library' = <<d>> \o library
    /\ run' = Disturbed(run)
    /\ UNCHANGED <<text, settings>>

RemoveItem(d) ==
    /\ Edit
    /\ \E i \in DOMAIN library :
          /\ library[i] = d
          /\ library' = SubSeq(library, 1, i - 1) \o SubSeq(library, i + 1, Len(library))
    /\ run' = Disturbed(run)
    /\ UNCHANGED <<text, settings>>

ChangeText(d, t) ==
    /\ Edit
    /\ text[d] # t
    /\ text' = [text EXCEPT ![d] = t]
    /\ run' = Disturbed(run)
    /\ UNCHANGED <<library, settings>>

Fault ==
    /\ faults < MaxFaults
    /\ faults' = faults + 1
    /\ UNCHANGED <<library, text, settings, edits, runs>>

\* The process dies and is started again: what was only in memory is gone.
Crash ==
    /\ Fault
    /\ run # NoRun
    /\ run' = NoRun
    /\ running' = FALSE
    /\ UNCHANGED store

-----------------------------------------------------------------------------
\* Indexer.Reindex: one run at a time, which starts in the background.
Accept(mode) ==
    /\ ~running
    /\ runs < MaxRuns
    /\ running' = TRUE
    /\ run' = [pc |-> "setup", mode |-> mode]
    /\ runs' = runs + 1

Reindex(mode) ==
    /\ Accept(mode)
    /\ UNCHANGED <<upstream, settings, store, edits, faults>>

\* Indexer.UpdateEmbedderSettings: the first URL starts an update of an
\* instance without chunks (autoIndexExisting).
Configure(m) ==
    /\ edits < MaxEdits
    /\ m # settings
    /\ settings' = m
    /\ edits' = edits + 1
    /\ LET ready == \E d \in Docs : Stored(d) # {}
           auto == settings = None /\ ~ready /\ ~running /\ runs < MaxRuns
       IN  IF auto THEN Accept("update") ELSE UNCHANGED <<running, run, runs>>
    /\ UNCHANGED <<upstream, store, faults>>

-----------------------------------------------------------------------------
\* runReindex.  A step without a fault leaves the world alone.
Works == UNCHANGED <<upstream, settings, edits, faults, runs>>

\* runReindex returns: finish.
End == run' = NoRun /\ running' = FALSE

\* An update refuses to run when the model is not the one of the index.
Refused == run.mode = "update" /\ meta # None /\ meta # settings

\* Mutant of SetupFails: the early returns skip finish.
SetupFailsForever ==
    /\ run.pc = "setup"
    /\ \/ (settings = None \/ Refused) /\ Works
       \/ Fault
    /\ run' = NoRun
    /\ UNCHANGED <<store, running>>

\* Setup ends the run: no URL, a refusal, a target, tool, key or meta that
\* cannot be had, or a clear that fails.
SetupFails ==
    /\ run.pc = "setup"
    /\ \/ (settings = None \/ Refused) /\ Works
       \/ Fault
    /\ End
    /\ UNCHANGED store

Began(existing) ==
    [pc |-> "page", mode |-> run.mode, model |-> settings, existing |-> existing,
     seen |-> {}, start |-> 0, queue |-> <<>>, full |-> FALSE, processed |-> 0,
     doc |-> None, body |-> None, todo |-> {}, wrote |-> FALSE,
     quiet |-> TRUE, sound |-> \A d \in Docs : RowDescribes(d)]

\* Mutant of Begin: the model check of an update is gone.
BeginUnchecked ==
    /\ run.pc = "setup" /\ settings # None
    /\ IF run.mode = "rebuild"
       THEN /\ chunks' = [d \in Docs |-> Nothing]
            /\ rows' = [d \in Docs |-> None]
            /\ meta' = None
            /\ run' = Began(rows')
       ELSE run' = Began(rows) /\ UNCHANGED store
    /\ Works
    /\ UNCHANGED running

\* Mutant of Begin: a rebuild clears the rows but not the chunks.
BeginKeepsChunks ==
    /\ run.pc = "setup" /\ settings # None /\ ~Refused
    /\ IF run.mode = "rebuild"
       THEN /\ rows' = [d \in Docs |-> None]
            /\ meta' = None
            /\ run' = Began(rows')
            /\ UNCHANGED chunks
       ELSE run' = Began(rows) /\ UNCHANGED store
    /\ Works
    /\ UNCHANGED running

\* Setup succeeds: a rebuild clears the index in one transaction, an update
\* remembers the rows it found.
Begin ==
    /\ run.pc = "setup" /\ settings # None /\ ~Refused
    /\ IF run.mode = "rebuild"
       THEN /\ chunks' = [d \in Docs |-> Nothing]
            /\ rows' = [d \in Docs |-> None]
            /\ meta' = None
            /\ run' = Began(rows')
       ELSE run' = Began(rows) /\ UNCHANGED store
    /\ Works
    /\ UNCHANGED running

\* Mutant of Crawled: pruning does not ask whether the crawl was truncated.
CrawledAlways(truncated) ==
    [run EXCEPT !.pc = "prune",
                !.todo = IF run.mode = "update"
                         THEN {d \in Docs : run.existing[d] # None /\ d \notin run.seen}
                         ELSE {}]

\* Crawl returned; an update that saw everything prunes what it did not see.
Crawled(truncated) ==
    [run EXCEPT !.pc = "prune",
                !.todo = IF run.mode = "update" /\ ~truncated
                         THEN {d \in Docs : run.existing[d] # None /\ d \notin run.seen}
                         ELSE {}]

\* zotero_list_top_items from run.start.
ListPage ==
    /\ run.pc = "page"
    /\ LET page == SubSeq(library, run.start + 1,
                          IF run.start + PageSize < Len(library)
                          THEN run.start + PageSize ELSE Len(library))
       IN  run' = IF page = <<>> THEN Crawled(FALSE)
                  ELSE [run EXCEPT !.pc = "visit", !.queue = page, !.full = Len(page) = PageSize]
    /\ Works
    /\ UNCHANGED <<store, running>>

\* Crawl returns the error of a listing, and so does the run: no pruning, no
\* meta.
ListFails ==
    /\ run.pc = "page"
    /\ Fault /\ End
    /\ UNCHANGED store

\* The page is done.
NextPage ==
    /\ run.pc = "visit" /\ run.queue = <<>>
    /\ run' = IF ~run.full THEN Crawled(FALSE)
              ELSE IF run.processed >= MaxItems THEN Crawled(TRUE)
              ELSE [run EXCEPT !.pc = "page", !.start = @ + PageSize]
    /\ Works
    /\ UNCHANGED <<store, running>>

\* The head of the queue was dealt with, or is about to be.
Popped == [run EXCEPT !.queue = Tail(@), !.processed = @ + 1]

\* zotero_get_item_children fails, as it does for an item that is gone: the
\* emitted key is the item's, not its attachment's, so the document is not
\* seen.
ChildrenFail ==
    /\ run.pc = "visit" /\ run.queue # <<>>
    /\ \/ /\ Head(run.queue) \notin Items(library)
          /\ run' = Popped
          /\ Works
       \/ /\ Fault
          /\ run' = Disturbed(Popped)
    /\ UNCHANGED <<store, running>>

\* zotero_get_item_fulltext fails: an empty text.
FulltextFails ==
    /\ run.pc = "visit" /\ run.queue # <<>>
    /\ Fault
    /\ run' = Disturbed([Popped EXCEPT !.seen = @ \cup {Head(run.queue)}])
    /\ UNCHANGED <<store, running>>

\* Mutant of Visit: the old chunks of a changed document are not cleared.
VisitKeepsOld ==
    /\ run.pc = "visit" /\ run.queue # <<>>
    /\ LET d == Head(run.queue)
           t == text[d]
           seen == [Popped EXCEPT !.seen = @ \cup {d}]
       IN  /\ d \in Items(library)
           /\ run' = IF t = None \/ run.existing[d] = t THEN seen
                     ELSE [seen EXCEPT !.doc = d, !.body = t, !.pc = "embed"]
    /\ Works
    /\ UNCHANGED <<store, running>>

\* The emit callback up to its first write: a document without text and an
\* unchanged one are left alone, a changed one is cleared first.
Visit ==
    /\ run.pc = "visit" /\ run.queue # <<>>
    /\ LET d == Head(run.queue)
           t == text[d]
           seen == [Popped EXCEPT !.seen = @ \cup {d}]
       IN  /\ d \in Items(library)
           /\ run' = IF t = None \/ run.existing[d] = t THEN seen
                     ELSE [seen EXCEPT !.doc = d, !.body = t,
                                       !.pc = IF run.existing[d] = None THEN "embed" ELSE "clear"]
    /\ Works
    /\ UNCHANGED <<store, running>>

\* DeleteDocumentChunks of a changed document.
Clear ==
    /\ run.pc = "clear"
    /\ chunks' = [chunks EXCEPT ![run.doc] = Nothing]
    /\ run' = [run EXCEPT !.pc = "embed"]
    /\ Works
    /\ UNCHANGED <<rows, meta, running>>

\* indexDocument: every batch was embedded and InsertChunks committed.
Insert ==
    /\ run.pc = "embed"
    /\ chunks' = [chunks EXCEPT ![run.doc][[text |-> run.body, model |-> run.model]] = @ + 1]
    /\ run' = [run EXCEPT !.pc = "record", !.wrote = TRUE]
    /\ Works
    /\ UNCHANGED <<rows, meta, running>>

\* UpsertDocument.
Record ==
    /\ run.pc = "record"
    /\ rows' = [rows EXCEPT ![run.doc] = run.body]
    /\ run' = [run EXCEPT !.pc = "visit"]
    /\ Works
    /\ UNCHANGED <<chunks, meta, running>>

\* Clearing, embedding, inserting or recording fails: the document is given
\* up, with what was done to it so far.
DocumentFails ==
    /\ run.pc \in {"clear", "embed", "record"}
    /\ Fault
    /\ run' = Disturbed([run EXCEPT !.pc = "visit"])
    /\ UNCHANGED <<store, running>>

\* Pruning one unseen document: its chunks, then its row.
PruneChunks(d) ==
    /\ run.pc = "prune" /\ d \in run.todo
    /\ chunks' = [chunks EXCEPT ![d] = Nothing]
    /\ run' = [run EXCEPT !.pc = "prune row", !.doc = d, !.todo = @ \ {d}]
    /\ Works
    /\ UNCHANGED <<rows, meta, running>>

PruneRow ==
    /\ run.pc = "prune row"
    /\ rows' = [rows EXCEPT ![run.doc] = None]
    /\ run' = [run EXCEPT !.pc = "prune"]
    /\ Works
    /\ UNCHANGED <<chunks, meta, running>>

PruneFails ==
    /\ Fault
    /\ \/ /\ run.pc = "prune"
          /\ \E d \in run.todo : run' = Disturbed([run EXCEPT !.todo = @ \ {d}])
       \/ /\ run.pc = "prune row"
          /\ run' = Disturbed([run EXCEPT !.pc = "prune"])
    /\ UNCHANGED <<store, running>>

\* SetMeta, when a document was written (dimension > 0), and finish; a
\* SetMeta that fails is only logged.
Finish ==
    /\ run.pc = "prune" /\ run.todo = {}
    /\ \/ meta' = (IF run.wrote THEN run.model ELSE meta) /\ Works
       \/ run.wrote /\ Fault /\ UNCHANGED meta
    /\ End
    /\ UNCHANGED <<chunks, rows>>

RunStep ==
    \/ SetupFails \/ Begin
    \/ ListPage \/ ListFails \/ NextPage
    \/ ChildrenFail \/ FulltextFails \/ Visit
    \/ Clear \/ Insert \/ Record \/ DocumentFails
    \/ \E d \in Docs : PruneChunks(d)
    \/ PruneRow \/ PruneFails
    \/ Finish

Next ==
    \/ \E d \in Docs : AddItem(d) \/ RemoveItem(d) \/ \E t \in OptText : ChangeText(d, t)
    \/ \E m \in Models \cup {None} : Configure(m)
    \/ \E mode \in {"update", "rebuild"} : Reindex(mode)
    \/ RunStep
    \/ Crash

Spec == Init /\ [][Next]_vars

-----------------------------------------------------------------------------
TypeOK ==
    /\ library \in Orders
    /\ text \in [Docs -> OptText]
    /\ settings \in Models \cup {None}
    /\ chunks \in [Docs -> [Batch -> Nat]]
    /\ rows \in [Docs -> OptText]
    /\ meta \in Models \cup {None}
    /\ running \in BOOLEAN
    /\ run = NoRun \/ run \in Accepted \/ run \in Working
    /\ running <=> run # NoRun

(* "An incremental update must refuse to mix them in" (migration 0005),    *)
(* where the index says what it was built with: whatever the operator      *)
(* configures before or during a run, an update of an index with a meta    *)
(* row adds no vectors of another model.                                   *)
MetaKeepsModel ==
    [][\A d \in Docs : \A b \in Batch :
        chunks'[d][b] > chunks[d][b] /\ meta # None => b.model = meta]_vars

\* The last step of a run during which nothing failed and nothing changed.
EndsQuietly == run.pc = "prune" /\ run.quiet /\ run' = NoRun /\ faults' = faults

\* The index holds of d exactly the text it has upstream.
Current(d) ==
    /\ rows[d] = text[d]
    /\ RowDescribes(d)

(* "Rebuild clears the index first and rebuilds it from scratch": after a  *)
(* rebuild during which nothing failed or changed, the index is exactly    *)
(* the part of the library the crawl covered, once and in one model, and   *)
(* the meta row says so, whatever crashes, failures and duplicates earlier *)
(* runs left behind.                                                       *)
RebuildIsExact ==
    [][EndsQuietly /\ run.mode = "rebuild" =>
        /\ run.seen = Items(library) \/ Cardinality(run.seen) >= MaxItems
        /\ \A d \in run.seen : Current(d)
        /\ \A d \in Docs \ run.seen : rows[d] = None /\ chunks[d] = Nothing
        /\ \A d \in Docs : \A b \in Stored(d) : b.model = meta']_vars

(* An update that starts from rows which describe the chunks, and during   *)
(* which nothing failed or changed, catches up: every document it saw with *)
(* a text is current, and when it saw the whole library nothing else is    *)
(* left.                                                                   *)
UpdateCatchesUp ==
    [][EndsQuietly /\ run.mode = "update" /\ run.sound =>
        /\ \A d \in run.seen : text[d] # None => Current(d)
        /\ run.processed < MaxItems =>
               \A d \in Docs \ Items(library) : rows[d] = None /\ chunks[d] = Nothing]_vars

\* The document a run is between two writes of.
InProgress == IF run.pc \in {"embed", "record", "prune row"} THEN {run.doc} ELSE {}

(* As long as no call fails and the process lives, the two tables agree:   *)
(* but for the document in progress, a document has a row exactly when it  *)
(* has chunks, and the text its hash stands for is among them, whatever    *)
(* pages shift and texts change during the crawls.                         *)
RowsMatchChunks ==
    faults = 0 => \A d \in Docs \ InProgress :
        IF rows[d] = None THEN chunks[d] = Nothing
        ELSE \E b \in Stored(d) : b.text = rows[d]

Pruned(d) == run.pc = "prune row" /\ rows[d] # None /\ rows'[d] = None

(* Pruning is sound when nothing failed or changed while the run crawled,  *)
(* a crawl cut short by MaxItems included.                                 *)
QuietPruneIsSound ==
    [][\A d \in Docs : Pruned(d) /\ run.quiet => d \notin Items(library)]_vars

(* "Truncated reports whether the crawl may have stopped before covering   *)
(* every document" (Crawler.Crawl), and pruning trusts it: what is pruned  *)
(* is not in the library.                                                  *)
PrunesOnlyGone ==
    [][\A d \in Docs : Pruned(d) => d \notin Items(library)]_vars
=============================================================================
