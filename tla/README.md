# MCPaw: TLA+ models, model checking and proofs

MCPaw turns HTTP APIs into MCP endpoints. An operator imports *connectors*
(manifests of tools), creates *instances* of them (base URL, secrets, limits),
issues tokens, and MCP clients call the tools; a background indexer crawls some
instances and serves a semantic search over what it found. Everything runs in
one Go process over SQLite databases.

This directory holds TLA+ modules translated from the Go sources, TLC
configurations, and TLAPS proofs. `PROJECT.json` names, for each definition, the
lines it models (a definition that needs no lines beyond those another names has
no entry), and, for each hazard in the code, the properties that cover it.

    tlc -workers 2 -config MCGate.cfg MCGate
    tlapm GateProofs.tla

## Inventory

Paths are below `src/internal/`. "Hard" is what a unit test would hardly reach.

| Component | State | Operations | Hard | Correct when |
|---|---|---|---|---|
| Executor, `engine/executor.go` | none of its own | `Execute` | calls interleave between controls; settings change under a call; a call can leave at seven places | everything taken is given back; limits hold; every call returns |
| Concurrency gate, `upstream/limiter.go` | map key -> channel | `Acquire`, release, `sem` | a channel is replaced while others hold it | slots accounted per channel; bound per key; nobody waits for ever |
| Circuit breaker, `upstream/breaker.go` | map key -> entry | `Allow`, `Record`, `Reset`, sweep | late and out-of-order outcomes, a full map | opens exactly on a streak, waits its cooldown, never sheds for ever |
| Rate limiter, `upstream/limiter.go` | map key -> bucket | `Allow`, sweep | budget changes, swept buckets | a window never grants more than bucket and refill |
| Upstream client, `upstream/client.go`, `ssrf.go` | none | `Do` | redirects, address classes | policy applies to every connection |
| Indexer, `service/index.go` | run status in memory; chunks, rows, meta in SQLite | `Reindex`, `runReindex`, `Search`, embedder settings | crash or failing call between two writes; library and settings change during a run | the tables agree; one model per index; pruning deletes nothing that exists |
| Crawlers, `index/source/*` | position of a crawl | `Crawl` | offset pages over a moving list; partial failures | every document is seen or the crawl says it was cut off |
| Instances, `service/instance.go` | rows, secrets, bindings; target cache | create, update, delete, secrets, tools, resolve | cache filled after an invalidation; whole-row writes | no stale target after the cache's lifetime; no lost update |
| MCP backend, `service/mcpbackend.go` | none | list tools, call tool | tool disabled during a call | only enabled tools are called |
| MCP sessions and transport, `mcp/*` | session map | create, get, expire, delete | limit, expiry, instance of a session | bounded; expired sessions are never accepted |
| Users and sessions, `service/user.go`, `session.go` | user and session rows | setup, sign-in, disable, change password | read-modify-write of whole rows; a session created after a revocation | one first administrator; a disabled user has no live session |
| Attempt limiter, `httpx/auth.go` | map key -> window | `Allow`, record | check and record apart | N failures per window |
| Tokens, `service/token.go` | rows | issue, authenticate, revoke | expiry while in use | a revoked token is refused |
| Connectors, `service/connector.go`, `connector/registry.go` | rows and an in-memory registry | import, delete, load | two copies written one after the other | registry equals table |
| Usage log, `usage/usage.go` | rows, settings, file size | append, prune, clear | appends and settings during a prune | newest entries survive; the file returns under its cap |
| Chunkers, ranking, templates, request and response mapping | none | pure functions | boundaries | reference definitions |
| Secrets, configuration, audit, metrics, logging, web interface, process start | files, environment, output | | | |

How they interact: the MCP server authenticates a token, resolves the instance
(through the target cache), asks the backend for the tool and calls
`Executor.Execute`, which asks limiter, breaker and gate in this order and then
uses the upstream client. Updating an instance invalidates the cache and resets
its breaker, and nothing else: calls already under way, and a reindex for the
whole of its run, go on with the settings they were given. Bearer authentication
and the tool call resolve the same endpoint one after the other, through the
cache. The indexer's crawl
calls the same `Execute`, so a crawl is rate limited, shed and queued like any
client. Nothing is shared between instances but the three maps of the controls
(keyed by instance), the embedder settings and the database.

## Modules

| Module | Models | Variables and what they are in the code |
|---|---|---|
| `Gate` | `upstream.Gate` | `sems` the map; `chans` the channel objects (capacity, fill); `slot` where each `Acquire` stands; `asked` history |
| `Breaker` | `upstream.Breaker` and the calls between `Allow` and `Record` | `entry` the map; `out` calls that owe a report; `streak` history |
| `Limiter` | `upstream.MemoryLimiter` | `buckets` the map; `verdict` the last answer; `recent`, `top` history |
| `TokenBucket` | nothing: the abstract bucket | `level`, `verdict` |
| `Executor` | `engine.Executor.Execute`, with instances of `Gate`, `Breaker`, `Limiter` | `pc`, `target` locals of each call; `config` the instance rows; `age` time since the request was sent; `changes` bound; `failed` history |
| `Reindex` | `service.Indexer` runs, the Zotero crawl, the index tables | `chunks`, `rows`, `meta` the tables; `running` the status flag; `run` the locals of `runReindex` with its program counter; `library`, `text` upstream; `settings` the embedder |
| `Accounts` | users, web sessions and the sign-in limiter, behind the handlers of the web interface | `users`, `sessions` tables; `counts` the limiter's map; `req` each request's locals; `chosen`, `issued`, `seen`, `guesses` history |
| `Instances` | instances, connectors with their registry, tokens, the target cache, bearer authentication and the MCP backend's `resolve` | `rows`, `tools`, `secrets`, `connectors`, `tokens` tables; `registry`, `cache` memory (an entry holds the row, the compiled connector, the binding and the secret, read in three steps after the row); `op`, `req` locals of operators and clients; `made`, `spoiled`, `suspect`, `crossed` history |
| `Mcp` | POST, GET and DELETE of the transport, dispatch, the session store | `sessions` the store; `http` each request's locals; `issued`, `told` history |
| `UsageLog` | recording, pruning, clearing and settings of the usage log | `log`, `level`, `cap` tables; `file` the size on disk; `call`, `prune` locals; `clearing`; `operations` bound |
| `ToolRequest` | `connector.Compile`, the templates, an instance's values and `buildRequest` | `manifest`, `instance`, `arguments`, `request`: what each `stage` brought |
| `Paging` | `mapResponse` and a client that reads a text page by page | `tool`, `upstream` the inputs; `next`, `more` what the client was told; `read`, `first`, `pages` history |
| `Chunking` | `ChunkSize`, `splitSections` | their locals, a step for each turn of their loops |
| `Crawl` | the linkding and Gitea crawls | `catalog` the library; their locals, a step for each upstream call |
| `Search` | `Indexer.Search`, `FuseRRF` and the reads between which a run writes | `table`, `lastId` the chunks and their sequence; the others locals |
| `GateProofs`, `BreakerProofs`, `LimiterProofs`, `ExecutorProofs`, `ReindexProofs`, `AccountsProofs`, `InstancesProofs`, `McpProofs` | theorems about the module each is named after; `ExecutorProofs` instantiates the first three, and proves about the rest of a call: `ToolRequest`, `Paging` and `UsageLog`; `ReindexProofs` about what surrounds a run: `Crawl`, `Chunking` and `Search` | |
| `MC*` | small instances; `MCContent` extends the five that transform content (`ToolRequest`, `Paging`, `Chunking`, `Crawl`, `Search`) and `UsageLog`, which share nothing, and puts them side by side: the first step chooses one | |

History variables only record; no guard of an action reads them. Operators whose
comment begins "Mutant of" belong to no specification: each is a plausible bug
of the definition it names, and the property paired with it in `PROJECT.json`
fails when it replaces that definition.

Abstractions, and why they lose nothing the properties ask for:

- *Time* is counted in ticks. `Gate`, `Breaker`, `Limiter`, `Executor` keep a
  timestamp as its age, up to the largest threshold the code compares it with,
  because the code only compares; the failure count likewise stops at the
  threshold. `Accounts`, `Mcp` and `UsageLog` have a clock with a bound. The
  limiter's float64 tokens become whole multiples of 1/60, so rounding of floats
  is out of scope.
- *A Go channel* is a capacity and a fill. `Chans` are identities; one that no
  map entry and no call refers to is garbage and may be used again. A new channel
  is `Fresh`, one of those: which one nothing can tell. Each configuration says why its `Chans` are enough that none is waited for.
- *A mutex-protected method* is one action. A method that waits (`Acquire`) is
  two. `Execute` is an action for every point at which another call can come
  between.
- *A SQLite transaction*, or a statement outside of one, is one action,
  committed or not at all. A handler is as many actions as it has statements,
  registry calls and cache calls; any of them may fail. A restart keeps the
  tables and loses the rest.
- *Argument validation* is before any state and left out. Building a request may
  always fail in `Executor`; `ToolRequest` says when. An upstream exchange ends
  in one of the eight `Outcomes`: a status below 400, of 4xx or 5xx, a transport
  error, the deadline, the caller's hanging up, a refused address, a refused
  redirect.
- *A document* of `Reindex` is an item with one attachment, whose text is a
  value; the content hash is injective. The texts of a document are embedded and
  stored as one batch, which is what `InsertChunks` commits at once.
- *A fault* of a run is any call that fails, for whatever reason (upstream,
  limiter or breaker refusal, embedder, SQLite, the 30-minute limit).
- *Passwords and secrets* are values and a password hash is its password;
  identifiers, cookies and session identifiers are never reused.
- *A value* rendered by a template is a word for the class of texts that the
  code treats alike (empty, a composite, null, one with a control character, a
  dot segment, any other). A template is the sequence of its parts, and rendered
  text the set of the words in it: only whether it is empty and what is forbidden
  in it matters.
- *A JSON body* is the map from the paths of its nodes to the nodes. `RenderNode`
  says of each node whether it is kept, without recursion; the assumption
  `RenderNodeComputes` of `MCContent` compares it with `renderNode`'s recursion for
  every body, template and scope of the instance.
- *A text* is a sequence of characters in `Chunking`, where the break points
  are, and a length in `Paging`. In `Search` it is how similar its vector is and
  how well its words match.

## Runs that pass

| Run | Shows | Bounds |
|---|---|---|
| `MCGate` | `SlotsAccounted`, `BoundedInFlight`, `WaiterServed` | 1 key, 3 calls, limits 0, 1, 2, 4 channels: calls hold old channels while another replaces the current one, and a channel is never waited for; the safety half is proved for all bounds |
| `MCBreaker` | `TripsOnThreshold`, `OpensOnlyOnStreak`, `ProbesAfterCooldown`, `SweepKeepsOutages`, `NeverShedsForever` | 3 keys in a map for 2, so that sweeps drop both idle entries and the new one; 2 calls, threshold, cooldown and successes 2: one call completes the row of failures, the other reports late |
| `MCLimiter` | `WindowBound`; `ImplementsTokenBucket`: the lazy map refines the ideal bucket for the keys with one budget | 2 keys in a map for 1, a minute of 3 ticks, one budget changing between 1 and 3, the other fixed |
| `MCExecutor` | `NothingHeldAfterReturn`, `OnlyFailedRequestsTrip`, `EveryCallReturns` | 2 calls, one slot without a budget or two slots with a budget of 1, one change between them, all eight outcomes, 3 channels: the map's and one each call may be left on |
| `MCReindex` | `RowsMatchChunks`, `MetaKeepsModel`, `RebuildIsExact`, `UpdateCatchesUp`, `QuietPruneIsSound` | 3 documents on pages of 1, a crawl cut off after 2, 2 texts, 2 models, 3 runs, 2 edits, 1 fault or crash |
| `MCAccounts` | `SessionBounded`, `EndedStaysEnded`, `GuessesBounded` | 1 account with 2 passwords, 2 cookies, 2 requests, 1 address; idle window 2, ceiling 3, 2 failures per window of 1, 3 ticks: every window ends while a request is under way |
| `MCInstances` | `RunsWhatWasAuthorised`, `CacheFollowsWrites`, `RegistryFollowsTable`, `CacheConverges` | 2 instances that take one slug after the other, 2 manifests, 1 secret, 1 token, 2 operators with 4 actions between them, 1 client request, entries that live to the end of a tick: create, authorise, delete, create again between the two resolutions |
| `MCMcp` | `EveryQuestionAnswered`, `NoOrphans`, `ActiveSessionsSurvive` | 2 requests for 2 instances, 3 sessions in a store for 2, time to live 1, 2 ticks; batches of up to four messages: initialize twice or after a notification, null entries, broken envelopes and parameters |
| `MCContent` | `NothingLeftOut`, `WholeOrAbsent` (`ToolRequest`), `PagesCover` (`Paging`), `ChunksCover`, `SectionsExact` (`Chunking`), `UntruncatedSawAll` (`Crawl`), `HitsAreTheBest` (`Search`), `KeepsWhatFits`, `CapEnforced` (`UsageLog`) | the inputs the head of `MCContent.cfg` names: every kind of template in every slot; texts longer than two chunks with separators anywhere; libraries that each limit cuts; more matches than a ranking keeps; for the log 3 calls of size 1 or 2, caps 3 and 4 over an empty file of 1, batches of 3, 2 ticks, 2 changes or failures (`MaxOperations`): a prune of one size, of both, and one overtaken by each kind of change |

`MCGate` and `MCReindex` also check their module's `TypeOK`. That of `Reindex`
says that `running` is set exactly while a run is under way, without which an
instance could never be indexed again. The `TypeOK` of eight modules is proved;
of `UsageLog` and the content modules, the proofs have what they need of the types
in their inductive invariants. Deadlock is checked except in the `Reindex`
runs, where the bounds on runs and edits let the system come to rest, and in
`MCContent`, whose computations end.

What makes them say something: `BoundedInFlight` is claimed only while the callers
of a key agree on the limit, because the code does not keep a bound across a
change. `TripsOnThreshold` counts the failures reported while an entry was kept;
that an entry is not always kept is noted below. `RebuildIsExact` and
`UpdateCatchesUp` are claimed at the end of a run during which nothing failed and
nothing changed, whatever happened before; `quiet` and `sound` are the history
bits that say so. `QuietPruneIsSound` is claimed while nothing failed or changed,
`RowsMatchChunks` as long as nothing has ever failed. `CacheFollowsWrites` leaves
out the entries put by a resolution that a write overtook, which the code does
leave behind, and the connector an entry was compiled from, which `ImportManifest`
replaces without invalidating; `CacheConverges` says that in the end no entry of
either kind is left, the connector included. `OnlyFailedRequestsTrip` counts what
`Execute` counts, a caller's hang-up among it; what it excludes is that a call
leaves a trace in the breaker that ended at the gate or before its request was
built, or that another call's report is taken twice or for another instance.
`HitsAreTheBest` orders what was found and loaded, and bounds how far the answer
may fall short of the limit: by the chunks that were found without having been
loaded, one hit for each.
`RunsWhatWasAuthorised` speaks of the configuration as it was read: the cache may
hold one that was disabled within the last lifetime. `KeepsWhatFits` is claimed
for rows of one size and a measurement of nothing but the log as it was when its
rows were counted, because the code divides the one by the other. `NothingLeftOut`
spells out what the compiler does not look at. The unconditional forms are false; see below.

## Runs that find a disagreement

Each checks one sentence of the sources and TLC finds a behaviour of the code
that contradicts it. `PROJECT.json` quotes the sentences.

| Run | Property | What happens |
|---|---|---|
| `MCReindexPrunesOnlyGone` | `PrunesOnlyGone` | one failed listing of an item's children prunes its document |
| `MCAccountsStoredIsLastChosen` | `StoredIsLastChosen` | a sign-in that overlaps a password change writes the old password back |
| `MCUsageLogOldestGo` | `OldestGo` | pruning drops an entry half a second younger than one it keeps, because "…:00Z" sorts behind "…:00.5Z" |

## Known limits of the code

The models, or reading for them, show more, for which no run is kept.

Controls:

- A late success closes an open circuit at once (`breaker.go:113`; line 27 says
  otherwise). In a full map a new entry is swept before its first use, so its
  failures never count (`breaker.go:159`, line 21). Callers that hang up, and
  addresses and redirects our own policy refuses, count as failures
  (`executor.go:175`, lines 180-182): enough of them open the circuit of a healthy
  upstream.
- While a circuit is half-open, `Breaker.Allow` lets every call through, not one.
- A call admitted before `Breaker.Reset` that fails after it counts against the
  new target.
- `Execute` sets its deadline after the wait for a slot, so that wait is bounded
  by the caller's context only; and it asks the breaker before the wait, so calls
  queued when the circuit opens are sent during its cooldown.
- Callers with an old and a new `Target` alternate in replacing the gate's
  channel, so one change of the limit can leave holders on several old channels.

Index:

- A run that dies before `SetMeta` lets an update mix models (`index.go:493`,
  migration `0005:23-24`). A document whose chunks were deleted is skipped as
  unchanged (`index.go:438`, migration `0005:6-8`).
- The Zotero crawl pages by offset: an item removed between two pages hides
  another one, which an update then prunes, with no failed call. A bookmark whose
  snapshots could not be listed is hidden from a crawl of linkding that is not
  truncated.
- Rows of the full-text table have no foreign key: those of a deleted instance
  stay, and a run under way adds to them. `Status` copies its record outside the
  lock (`index.go:291`). Two concurrent updates of the embedder settings may both
  take themselves for the first (`index.go:174`).
- `Search` cuts the fused list to the limit before it passes over chunks added
  since it loaded the index (`index.go:716-725`), so it may leave out a hit that was
  loaded, found and below the limit, one for each chunk added.

Instances, accounts, sessions:

- Two administrators can be created by two setups with two emails
  (`user.go:41-60`, comment at 43-45).
- `ImportManifest` leaves the cache as it is (`connector.go:142-145`), though writes
  "invalidate explicitly" (`instance.go:45-47`): a cached target goes on with the
  compiled connector it was resolved with until it expires. Nothing reads an instance's
  `Version`, which a comment says invalidates it (`instances.go:32-34`). Deleting
  an instance leaves its tokens (`tokenRepo.DeleteByInstance` has no caller) and,
  until they expire, its MCP sessions (`Sessions.DeleteByInstance` has none).
- `handleGet` and `handleDelete` do not compare the session's instance with the
  token's. A notification whose handler fails is answered with an error
  (`server.go:64-65` says nil). `ListTools` and the connection test do not ask
  whether the instance is enabled; bearer authentication does.

Usage log:

- When rows differ in size, a checkpoint is held up or a Clear comes between, a
  pass deletes far more than it needs to (`usage.go:355`, `422`; comment at
  317-319). So it does when rows are appended between the measurement and the count:
  the mean comes out too low and too many rows go. `Count` notes in `exact` that
  this did not happen; the proof of `KeepsWhatFits` does not go through without it.

Connectors and requests:

- `checkRefs` does not see the templates of inherited headers, looks at the first
  element of a path only, and lets an `auth` section use any input: those can be
  missing at call time. A paginated tool without a format and `select` compiles
  and fails on a JSON answer. A composite value in a JSON body drops its field
  silently, where it fails the call everywhere else.
- `MissingRequiredSecrets` is shown and not enforced. `breakPoint` computes
  `lookback` and does not use it.

## Fairness

- `Gate`: weak fairness of a holder's release (a call's deadline ends it) and
  strong fairness of a waiter's send (the Go runtime queues blocked senders of a
  channel first-in first-out, so one that keeps seeing free slots is served).
- `Breaker`: of time only. No caller has to call or to report.
- `Executor`: of the steps of a call's own code, of the end of a request (at the
  latest at its deadline), of the slot as above, and of time. Nobody has to call,
  to hang up or to reconfigure.
- `Instances`: weak fairness of a handler's next statement, of a client request's
  next step and of time. Nobody has to write or to ask. That operators stop
  writing is the bound `MaxWrites`, and is what `CacheConverges` is about.
- `UsageLog`, in `MCContent`: weak fairness of a recording that has begun and of the
  prune loop (`serve.go` runs it on a ticker). Nobody has to call, to change settings or to
  clear; failures are bounded by `MaxOperations`.
- `Reindex`, `Accounts`, `Mcp` and the other content modules: no liveness is claimed.

## Proofs

TLAPS proves the following for every value of the constants that satisfies the
named assumptions. Where a theorem states what a run checks, it has the property
of the run in its statement.

| Theorem | Says |
|---|---|
| `GateProofs!TypeCorrect`, `SlotsAreAccounted`, `InFlightIsBounded` | `TypeOK`, `SlotsAccounted`, `BoundedInFlight`, for all sets of keys and channels, every finite set of calls, every set of limits |
| `BreakerProofs!TypeCorrect`, `ThresholdTrips`, `CooldownIsWaitedFor`, `OpensOnStreak`, `OutagesAreKept` | `TypeOK`, `TripsOnThreshold`, `ProbesAfterCooldown`, `OpensOnlyOnStreak`, `SweepKeepsOutages`, for all thresholds, durations, calls, keys and sizes of the map |
| `LimiterProofs!TypeCorrect`, `WindowIsBounded`, `RefinesTokenBucket` | `TypeOK`, `WindowBound`, `ImplementsTokenBucket`, for all keys, budgets, lengths of a minute and sizes of the map |
| `ExecutorProofs!ControlsHold`, `TypeCorrect`, `NothingIsHeld`, `FailedRequestsTrip` | the invariants of the three controls inside `Execute`; `TypeOK`, `NothingHeldAfterReturn`, `OnlyFailedRequestsTrip`, for all finite sets of calls and instances and all settings |
| `ReindexProofs!TypeCorrect`, `TablesAgree`, `MetaIsKept`, `PruningIsSound`, `RebuildsAreExact`, `UpdatesCatchUp` | `TypeOK`, `RowsMatchChunks`, `MetaKeepsModel`, `QuietPruneIsSound`, `RebuildIsExact`, `UpdateCatchesUp`, for every finite set of documents, all texts, models, page sizes, cut-offs, and any number of runs, edits and faults |
| `ReindexProofs!ChunksAreComplete`, `SectionsAreExact` | `ChunksCover`, `SectionsExact` of `Chunking`, for texts of any length over any alphabet, all sizes and overlaps, and documents of any length, nesting of headings and fences |
| `ReindexProofs!CrawlsAreComplete` | `UntruncatedSawAll` of `Crawl`, for libraries of any size, pages of any length and all limits |
| `ReindexProofs!AnswersAreSound` | `HitsAreTheBest` of `Search`, for all contents, pools, limits and constants of the fusion, and any number of chunks written between the two reads |
| `ExecutorProofs!NothingIsHalfRendered`, `SuppliedFieldsAreSent` | `WholeOrAbsent`, `NothingLeftOut` of `ToolRequest`, for all manifests, values, secrets and arguments, and JSON bodies of any depth |
| `ExecutorProofs!PagesAreComplete` | `PagesCover` of `Paging`, for texts of any length, all tools, offsets and limits |
| `ExecutorProofs!PassesKeepWhatFits` | `KeepsWhatFits` of `UsageLog`, for all calls, sizes, caps and batches |
| `AccountsProofs!TypeCorrect`, `SessionsAreBounded`, `GuessesAreBounded`, `EndedStayEnded` | `TypeOK`, `SessionBounded`, `GuessesBounded`, `EndedStaysEnded`, for all accounts, cookies and addresses, every finite set of requests, all windows and limits |
| `InstancesProofs!TypeCorrect`, `OnlyAuthorisedRuns`, `RegistryIsTheTable`, `CacheIsCurrent` | `TypeOK`, `RunsWhatWasAuthorised`, `RegistryFollowsTable`, `CacheFollowsWrites`, for all operators, requests, instances, versions and lifetimes of an entry |
| `McpProofs!TypeCorrect`, `QuestionsAreAnswered`, `SessionsAreNamed`, `ActiveAreKept` | `TypeOK`, `EveryQuestionAnswered`, `NoOrphans`, `ActiveSessionsSurvive`, for all requests, sessions and instances, batches of any length, and any size of the store |

*Gate.* `SlotsAccounted` says nothing of a channel nobody refers to, and a
channel's capacity bounds its fill only while somebody does, so the inductive
invariant adds: waiters and holders refer to channels whose capacity is the limit
they asked for, the fill stays within the capacity, a holder of a key with one
limit is on the key's current channel. The counting steps rest on the cardinality
of a set with one element more or less. `GateAssumption` is all that is assumed.

*Breaker.* The row of reports and the entry's failure count agree while the
circuit is closed, and a key without an entry has no row; those conjuncts make
`TripsOnThreshold` inductive. The lemma about `Store` says what a method's write
and the sweep in it can do to any key: replace, keep, or drop when closed; the two
action properties follow from it and the invariant, one step per action. `BreakerAssumption`
(no parameter below one, which `withDefaults` ensures) is all that is assumed.

*Limiter.* `WindowBound` counts grants, which is not inductive: a bucket could be
full after a window of grants. `Spent` adds what is left to what was granted: the
two together never exceed what the window's budget had let flow in by the last
refill. The refinement needs the same invariant and, for a swept bucket, that it
had been left alone long enough to be full again, which is `LimiterAssumption`'s
`IdleCutoff >= Minute` (`sweepLocked` waits ten of them). It is proved step by
step: the initial states map, and each of `Allow` and `Tick` maps to a step of the
ideal bucket or a stutter.

*Executor.* Nothing is proved twice: `GateInside`, `BreakerInside` and
`LimiterInside` show that a behaviour of the executor is one of each control
(every step is a step of it or leaves its variables alone), so the theorems of
the controls hold inside. `NothingHeldAfterReturn` becomes inductive with
`OutWithTarget` (a call is out at the breaker under its own target's instance,
even after that target was reconfigured). `OnlyFailedRequestsTrip`
is `OpensOnlyOnStreak` of the breaker and an invariant, `Blamed`, that the breaker's
streak is no longer than that of failed requests: `GiveUp` and `BuildFails` abandon
their admission and report nothing. `ExecutorAssumption` is what `clampConcurrency` and
`withDefaults` ensure.

*Reindex.* Each property has its own strengthening, over a common `Typed`.
`AgreeInv`: the batch is stored before its row is written, and nothing is stored
when a row is dropped, with the document in progress left out. `OwnModel`: a
run's model is the meta row's, if there is one. `QuietInv`: while nothing failed
or moved, the queue is the rest of the current page and what has been seen is a
prefix of the listing, so what is unseen after the last page is not in the
library. `WrittenInv` builds on it: documents seen are settled (one batch, of the
text and model at hand), documents unseen are as the run found them, for a rebuild
nothing and for an update what its rows described. `OneModel` is needed for
rebuilds that failed half way. `RebuildIsExact` compares cardinalities; a
bijection between the documents and the prefix of the listing connects the two.
`ReindexAssumption`: positive page size and cut-off, finitely many documents.

*Accounts.* `SessionBounded` is not inductive because `Touch` writes an expiry
computed earlier, from a row that may have changed since; `Bounded` extends the
bound to what every request is about to write. `Counted` adds to the failures of
an address the requests that may still record one, which is what keeps
`GuessesBounded` within `Limit - 1` and one for each request. `Owned` (a row, or a
request about to make one, belongs to an account) is what the foreign key of
`sessions.user_id` demands and no handler tests. `EndedStaysEnded` follows from
the rows being of issued cookies only.

*Instances.* `AllGranted` follows a request through both resolutions: what it
carries at each step is an identifier its token's scope grants. `ReadsHold`: what
a resolution has read so far (the row, the bindings, the secrets; the connector as
it was when read) is what is stored, unless a write marked it as overtaken;
with the cache's own conjunct that makes `CacheFollowsWrites` inductive. `Serial`
says where the one connector operation under way stands between its write to the
table and its call of the registry. `InstancesAssumption` only tells `Nothing` from
identifiers and versions.

*MCP.* `AllProgress` is the loop invariant of `handlePost`: the replies so far are in
order, and answer exactly the questions among the messages done. `MintsOnce` and
`Named`: a request makes at most one session and ends by telling its client.
`ActiveSessionsSurvive` rests on the lemma `Created`: making room drops expired
sessions and no other. Batches are sequences of any length (`McpAssumption`).

*Chunking.* The modules of the content keep no state but the locals of a loop, so
the strengthening is its loop invariant. `ChunkInv`: every character before
`start` that is not space is in a span, and `start` is behind the last span by
at most the overlap; `BreakPointWithin` (a cut lies between the last third of the
window and its end) is why the loop advances even if the overlap is as long as a
chunk may be short. `Splitting`: the stack holds exactly the headings not yet
closed by one of their level or above, outermost first and at rising levels;
`StillOpen` turns the popping into a prefix of the stack, `Flush` gives the lines
since the last heading their section. `ChunkingAssumption` only types the inputs:
sizes and overlaps are integers, `DefaultSize` is positive, a line is a level,
`Fence` or `Prose`.

*Crawl.* `CrawlInv` says, for each point of the two crawls, what has been emitted:
of the pages before `offset` everything, of the current page what is no longer
queued, and of the repositories walked every file listed. A page shorter than
`PageLength` ends with the library (`EndOfPage`), which is why the crawl may stop
without saying that it was cut off. `hidden` leaves out a listing that failed.
`CrawlAssumption`: pages are not empty, a library is a finite sequence, and the
server lists no more files than a repository has.

*Search.* `SearchInv` keeps, from the first read on, that both rankings are no
longer than `Pool`, that a chunk the table still has says what was loaded of it,
and that what either ranking found is relevant by the text loaded. That being ahead in
both lists gives the larger sum of reciprocals (`AheadScoresMore`) is arithmetic
over fractions with `RrfK` as a parameter, and the only part that uses its value
being no less than zero; a hit's text is that of the loaded index, though the
keyword list may come from a later one. The count of hits is that of the list cut
to the limit less what the cut list holds unloaded, which is part of what was found
unloaded. `SearchAssumption` types the constants.

*Tool request.* The invariant is short, that a call is made with an accepted
manifest and its request is what `buildRequest` makes of it; the work is in the
lemmas. `RenderedIsWhole`: text comes only of templates all of whose placeholders
resolve. `ArrayKeepsElements`: prefixes of one path are comparable, so what an
array reaches through arrays alone is what its kept elements reach. `SuppliedIsFull`
is what `checkRefs` is for: it turns "declared" and "supplied" into a value for
each placeholder. The proof showed that a `Content-Type` the tool leaves out is
still sent, from the body (`request.go:57`), which `WholeOrAbsent` now names and the
instance has. `ToolRequestAssumption`: an absent body has no form, as decoding
gives it, templates are sequences, and a JSON body holds the ancestors of its
nodes.

*Paging.* `Reading`: the client holds the text from its first offset to its next
one, and `has_more` compares that with the same length on every call, which `Paged`
shows for each way `mapResponse` reaches a page. `PagingAssumption` says that
lengths are naturals, numbers integers and the default and the largest page
positive, `FormatAssumption` that no format is `None`; a text in a document is
reached by a fold over the path, so its type is assumed of each text so reached.

*Usage log.* `KeepsWhatFits` needs `Modest`: with rows of one size, what a pass is about to
delete exceeds the overage by less than one row, and rows appended meanwhile only
add to what stays. `Live` is a fold over a set; that it adds up (`LiveIsASum`,
`SumOfEqual`) is proved from a set without a sum of least cardinality, since the
induction theorems cannot be used.

Model-checked only:

- the liveness properties `WaiterServed`, `NeverShedsForever`, `EveryCallReturns`,
  `CacheConverges` and `CapEnforced`: fairness and ENABLED are out of the prover's
  reach;
- that `RenderNode` computes what `renderNode` does, which compares with a RECURSIVE
  operator.

`LogTypeOK` of `UsageLog` is stated for the reader; `Logged` proves the part of it
that `KeepsWhatFits` needs.

## Not modelled

Of modelled components: `Gate.Forget`, `Users.Create`, `Users.SetDisabled`,
`Sessions.DeleteByInstance`, `Server.HandleBatch` (nothing calls them), `Breaker.State` and the listing
and detail operations (reads only), counters of `IndexStatus` and its
`LastError`, `SyncBuiltins` (runs alone at start), the last-used time of a token,
that a run ends (its crawl is bounded by `maxItems`, each of its calls by a
deadline), cookies and form tokens, JSON schemas and URL escaping, the wording of
errors.

Of the upstream client `Executor` keeps how an exchange can end; its egress policy
and redirects are left out. Whole components, with their reasons in
`PROJECT.json`: the embedder (one HTTP exchange, whose outcomes the models keep), text extraction from web pages, secrets, configuration, process
lifecycle, audit log, metrics, logging and identifiers, the connection test, the
SQLite connections and migrations. The pages of the web interface only call one
operation of a service each, but for the creation form, which is in `Instances`.

## Plan

1. *Proofs*: every safety property of the passing runs is a theorem; what is left is
   the control plane and the indexer with a theorem for their composition below.
2. *Composition*: `Instances` with `Executor`, so that `Resolve` goes through the
   cache and an update resets the breaker; `Instances` with `Reindex`, for the
   instance deleted during its run. Abstract specification: a register that is at
   most one lifetime old.
3. *Fault model*: a restart between two statements of `UsageLog`, as `Instances`,
   `Accounts`, `Mcp` and `Reindex` have it.
