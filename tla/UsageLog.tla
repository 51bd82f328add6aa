------------------------------ MODULE UsageLog ------------------------------
(***************************************************************************)
(* The log of tool calls: Record of internal/service/usage.go over the     *)
(* size-capped SQLite store of internal/usage/usage.go, and the prune loop *)
(* of cmd/mcpaw/serve.go.                                                  *)
(*                                                                         *)
(* Calls are logged, settings changed, the log cleared and pruned by       *)
(* different goroutines; each statement is a step.  EntrySizes are in units of  *)
(* one entry's smallest.  What SQLite does with its file is external: the  *)
(* file and its WAL grow with every entry and shrink only when a           *)
(* checkpoint gets through, which a reader may prevent without an error.   *)
(***************************************************************************)
EXTENDS Naturals, FiniteSets, FiniteSetsExt

CONSTANTS
    ToolCalls,       \* tool calls, each recorded once
    EntrySizes,  \* of a full entry
    Caps,        \* values of max_bytes
    Base,        \* the size of the file with an empty log
    PruneBatch,  \* entries one pass deletes at most
    MaxTime, MaxOperations  \* bounds: the clock; operators' actions and failures

ASSUME UsageLogAssumption ==
    /\ EntrySizes \cup Caps \cup {PruneBatch} \subseteq Nat \ {0}
    /\ Base \in Nat

VARIABLES
    level, cap,  \* the row of table settings
    log,         \* table entries
    file,        \* size of the database and its WAL on disk
    call,        \* call[c]: what Record is about to do for it
    prune,       \* what the prune loop is about to do; its "exact" is history: the
                 \* size measured was the log's, also when its entries were
                 \* counted, and no Clear came since
    clearing,    \* a Clear has deleted and not yet reclaimed
    now, operations

logVars == <<level, cap, log, file, call, prune, clearing, now, operations>>
settings == <<level, cap>>

Levels == {"off", "metadata", "full"}
Entry == [call : ToolCalls, at : 0 .. MaxTime, size : EntrySizes \cup {1}]
Free == [at |-> "idle"]

Live == MapThenSumSet(LAMBDA e : e.size, log)

LogInit ==
    /\ level = "metadata" /\ cap \in Caps
    /\ log = {} /\ file = Base
    /\ call = [c \in ToolCalls |-> Free]
    /\ prune = Free
    /\ clearing = FALSE
    /\ now = 0 /\ operations = 0

-----------------------------------------------------------------------------
\* Record.  The settings are read and the entry is made when the tool has
\* answered; the row is written later, or not at all when the request's
\* context is gone.
ReadSettings(c) ==
    /\ call[c].at = "idle"
    /\ \E x \in IF level = "full" THEN EntrySizes ELSE {1} :
         call' = [call EXCEPT ![c] = IF level = "off" THEN [at |-> "done"]
             ELSE [at |-> "appending", entry |-> [call |-> c, at |-> now, size |-> x]]]
    /\ UNCHANGED <<settings, log, file, prune, clearing, now, operations>>

AppendEntry(c) ==
    /\ call[c].at = "appending"
    /\ log' = log \cup {call[c].entry}
    /\ file' = file + call[c].entry.size
    /\ call' = [call EXCEPT ![c] = [at |-> "done"]]
    /\ UNCHANGED <<settings, prune, clearing, now, operations>>

AppendFails(c) ==
    /\ call[c].at \in {"idle", "appending"}
    /\ call' = [call EXCEPT ![c] = [at |-> "done"]]
    /\ UNCHANGED <<settings, log, file, prune, clearing, now, operations>>

-----------------------------------------------------------------------------
\* The operator.
UpdateSettings(l, m) ==
    /\ operations < MaxOperations /\ operations' = operations + 1
    /\ level' = l /\ cap' = m
    /\ UNCHANGED <<log, file, call, prune, clearing, now>>

Clear ==
    /\ operations < MaxOperations /\ operations' = operations + 1
    /\ ~clearing
    /\ log' = {}
    /\ clearing' = TRUE
    /\ prune' = IF prune.at = "idle" THEN prune ELSE [prune EXCEPT !.exact = FALSE]
    /\ UNCHANGED <<settings, file, call, now>>

\* What reclaiming leaves on disk: the free pages are gone once the
\* checkpoint gets through.
Reclaimed == {file, Base + Live}

ClearReclaims ==
    /\ clearing
    /\ file' \in Reclaimed
    /\ clearing' = FALSE
    /\ UNCHANGED <<settings, log, call, prune, now, operations>>

-----------------------------------------------------------------------------
\* Prune.  The cap is read once; the size, the number of entries, the deletion
\* and the reclaiming follow until the file fits or nothing is left.
PruneTo(step) == prune' = step
Kept == UNCHANGED <<settings, call, clearing, now, operations>>

ReadCap ==
    /\ prune.at = "idle"
    /\ PruneTo([at |-> "sizing", cap |-> cap, exact |-> FALSE])
    /\ Kept /\ UNCHANGED <<log, file>>

Measure ==
    /\ prune.at = "sizing"
    /\ PruneTo(IF file <= prune.cap THEN [prune EXCEPT !.at = "pruned"]
               ELSE [at |-> "counting", cap |-> prune.cap, exact |-> file = Base + Live, size |-> file])
    /\ Kept /\ UNCHANGED <<log, file>>

\* Mutant of Estimate: rounded down.
EstimateDown(size, count) ==
    LET average == Max({size \div count, 1}) IN
    Min({(size - prune.cap) \div average, PruneBatch, count})

\* Mutant of Estimate: always a full batch.
EstimateBatch(size, count) == Min({PruneBatch, count})

\* How many entries should go, from the average size.
Estimate(size, count) ==
    LET average == Max({size \div count, 1}) IN
    Min({(size - prune.cap) \div average + 1, PruneBatch, count})

Count ==
    /\ prune.at = "counting"
    /\ PruneTo(IF log = {} THEN [prune EXCEPT !.at = "pruned"]
               ELSE [at |-> "deleting", cap |-> prune.cap, exact |-> prune.exact /\ prune.size = Base + Live,
                     n |-> Estimate(prune.size, Cardinality(log))])
    /\ Kept /\ UNCHANGED <<log, file>>

\* Timestamps are compared as text.  A clock tick is half a second, and a time
\* without a fraction sorts after those with one ("...00Z", "...00.5Z").
Second(t) == t \div 2
TextBefore(t, u) == Second(t) < Second(u) \/ (Second(t) = Second(u) /\ t % 2 > u % 2)

\* The choices of n entries that come first.
Oldest(n) ==
    {D \in kSubset(n, log) : \A d \in D, k \in log \ D : ~TextBefore(k.at, d.at)}

Delete ==
    /\ prune.at = "deleting"
    /\ LET n == Min({prune.n, Cardinality(log)}) IN
       \E D \in Oldest(n) :
         /\ log' = log \ D
         /\ PruneTo([at |-> IF n = 0 THEN "pruned" ELSE "reclaiming", cap |-> prune.cap, exact |-> FALSE])
    /\ Kept /\ UNCHANGED file

Reclaim ==
    /\ prune.at = "reclaiming"
    /\ file' \in Reclaimed
    /\ PruneTo([prune EXCEPT !.at = "sizing"])
    /\ Kept /\ UNCHANGED log

PruneReturns ==
    /\ prune.at = "pruned"
    /\ PruneTo(Free)
    /\ Kept /\ UNCHANGED <<log, file>>

\* A statement of the pass fails.
PruneFails ==
    /\ prune.at # "idle"
    /\ operations < MaxOperations /\ operations' = operations + 1
    /\ PruneTo(Free)
    /\ UNCHANGED <<settings, log, file, call, clearing, now>>

ClockTicks ==
    /\ now < MaxTime
    /\ now' = now + 1
    /\ UNCHANGED <<settings, log, file, call, prune, clearing, operations>>

-----------------------------------------------------------------------------
Record(c) == ReadSettings(c) \/ AppendEntry(c) \/ AppendFails(c)
Prune == ReadCap \/ Measure \/ Count \/ Delete \/ Reclaim \/ PruneReturns

LogNext ==
    \/ \E c \in ToolCalls : Record(c)
    \/ \E l \in Levels, m \in Caps : UpdateSettings(l, m)
    \/ Clear \/ ClearReclaims
    \/ Prune \/ PruneFails
    \/ ClockTicks

LogSpec == LogInit /\ [][LogNext]_logVars

-----------------------------------------------------------------------------
\* Type correctness.  A pass that decided to delete deletes something: an
\* estimate is never zero.
LogTypeOK ==
    /\ level \in Levels /\ cap \in Caps
    /\ log \subseteq Entry
    /\ file \in Nat /\ file >= Base + Live
    /\ prune.at \in {"idle", "sizing", "counting", "deleting", "reclaiming", "pruned"}
    /\ prune.at = "deleting" => prune.n \in 1 .. PruneBatch

\* "deleting the oldest entries first" (usage.go:312-313): a deletion never
\* drops an entry and keeps an older one.
OldestGo ==
    [][\A d \in log \ log', k \in log \cap log' : d.at <= k.at]_logVars

\* When the file measured held the log and nothing else, no entry came before
\* they were counted, and rows are of one size, a pass leaves at most one
\* entry's room below the cap it read, whatever is appended before it deletes:
\* it does not throw away what would have fitted (Store.Prune's estimate).
KeepsWhatFits ==
    [][prune.at = "deleting" /\ prune.exact /\ log' # log /\ ~clearing' =>
         \A e \in log : (\A d \in log : d.size = e.size) => Base + Live' + 2 * e.size > prune.cap]_logVars

\* Once calls and operators stop, the file gets under its cap and stays, or
\* nothing is left to delete, even if no checkpoint ever gets through.
CapEnforced == <>[](file <= cap \/ log = {})
=============================================================================
