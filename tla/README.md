# FSR: a verification project for Kiln

Kiln is a TypeScript framework that bakes server-rendered pages ("fully static,
refreshed"): a page is rendered once, its data and HTML are kept as files on
disk, and triggers in Postgres say which live fields of which pages have gone
stale. A watcher in each server process re-runs the loaders of the stale pages
that somebody is looking at, pushes the changes over SSE and rewrites the files;
pages nobody is looking at are rebuilt when they are next read.

The modules in this directory model that machinery, TLC checks it on small
instances, and TLAPS proves some of it for all instances.

## 1. Inventory

| Component (source) | State | Operations | Talks to | What makes it correct |
|---|---|---|---|---|
| **FsrStore**, slot rows (`engine/src/store.ts`, `schema.ts`) | table `kiln_fsr`: per (route, user, slot) stale, version, claim, last patch, last activity | upsertSlot, fetchSlotVersions, invalidateDepKey, tombstoneDependentRoutes, fetchStaleSlots, markFresh, fetchDormantStaleSlot, markActive, purge | called by the page handler, the watcher and the notification handlers of every process | a stale flag is cleared only by data that reflects what set it; a claim is temporary |
| **FsrWatcher** (`watcher.ts`) | loader registry, tick in progress, cursors in memory | watcherTick, refreshRegisteredLoaders, list revalidation, notifyChange/notifyDelete, catchUpMissedEvents, flushCursor | store, cache files, emitter of patches | every stale slot of an active page is refreshed, whatever fails; the artifact is never older than the flag says |
| **Event log and LISTEN pipeline** (`db-notify.ts`, `schema.ts`, `watcher.ts`) | `kiln_fsr_events`, `kiln_fsr_cursor`, marks in memory, connection | trigger, handler, reconnect, catch-up, flush, prune | Postgres NOTIFY, store | no committed event is lost across lost connections, stops and pruning; the cursor never moves back |
| **Page handler** (`routekit/src/page-render.ts`) | requests in flight; per process the demoted pages and layouts | cache check, dormant-stale rebuild, version capture, load, layouts, purity demotion, bake, upsert, registration; JSON fast path, tombstones | cache, store, watcher | correct on next read; what is shared shows nobody's identity; a served list is being refreshed |
| **KilnCache** (`engine/src/cache.ts`) | JSON, HTML and layout artifacts | get/set, patchJsonField, delete | page handler, hub, actions | no update is lost, no deleted page comes back |
| **SSE hub: admission** (`hub.ts`) | Redis sorted set of connections; a counter per process | admit, heartbeat, release | Redis | never more than `maxConnections`; what crashes leave behind is reclaimed |
| **SSE hub: stream** (`hub.ts`, `adapter-elysia/src/adapter.ts`) | queue of 100 patches, flags, suspended generator | listener, timers, generator, return | watcher's emitter, the page | no patch is dropped without a word, none shown twice or after a newer one; streams end |
| **Live lists** (`list-store.ts`, `watcher.ts`, `live/src/patch.ts`, `routekit/src/live-list-render.ts`) | `kiln_fsr_lists`, registration queue, list JSON | registration, revalidation, diff, rollback, markFresh | store, cache, hub | the patches turn the old list into the new one; a failed revalidation leaves the list stale |
| **List chunk cache, list broadcast** | LRU map | get, set, evict | live lists | bounded; newest use survives |
| **Baking, assembling** (`baking.ts`, `assembler.ts`, `html-markers.ts`) | none | templates | page handler | pure strings |
| **Routing** (`discover.ts`, `match-pattern.ts`, `layout-chain.ts`) | none after start | match | page handler | the most specific pattern wins |
| **Boot, actions** (`boot.ts`) | none of its own | actions, SSE endpoint, invalidateActor | everything | an action's author reads what they wrote |
| **Purity, de-duplication, registration** (`purity.ts`, `dedup.ts`, `live-registration.ts`) | per-route demotion, per-render memo | demote, memoise | page handler | a page that reads the request is never baked |
| **Live client, islands** (`live-client-script.ts`, `client/src/islands.js`) | EventSource, list log of 200 patches | connect, patch, resync, hydrate | hub | the page comes to show the newest value |
| **Silcrow, live connections** (`client/src/silcrow.js`) | hubs and connection states by element and by URL, timers | connect, back off, pause, resume, destroy | hub | one connection per URL; what is paused is silent; nobody is left waiting |
| **Silcrow, navigation** (same file) | response cache of 50, preloads in flight, memoized promises, abort controllers by target | navigate, preload, prefetch, submit, history | page handler, actions, route handlers of the application | read your writes; no request that failed is handed out again; the address names the page |
| **Silcrow, optimistic edits** (same file) | atoms, pending edits and their snapshots, index by scope | publish, confirm, revert, the stale-patch guard | submit, live connections | a failed edit leaves nothing behind, if none of its scope overlapped it |
| **React bindings** (`react/src/`) | pending flag, error, count of submissions | mutate, reset, replay the list log | Silcrow, live client | the flag follows the submissions |
| **Core** (`core/src/`) | configuration | parse, capture SQL tables | everything | pure functions of strings |
| **CLI, template, example app** | none at run time | generate, sync triggers, start | everything | out of scope |

What is hard here: several processes share one table, one log and one directory
of files with no lock but a 30-second claim; every `await` of a render, a tick or
a stream lets any of the others in; notifications are lost with the connection
and handlers run concurrently; processes die between two writes; streams are
driven by consumers of any speed. `PROJECT.json` lists these hazards line by line.

## 2. The modules

    Freshness ---- MCFreshness          EventPipeline -- MCEventPipeline
        \--------- FreshnessProofs          \---------- EventPipelineProofs
    PageServe ---- MCPageServe          SlotDelivery .. (implemented by)
        \--------- PageServeProofs          HubStream -- MCHubStream
    Admission ---- MCAdmission                  \
        \---------------------------------------\------ HubProofs
    ListPatches -- ListReconcile ------ MCListReconcile
        |               \-------------- ListProofs
        |               /
        \--------- LiveList ----------- MCLiveList
    LiveHubs ----- MCLiveHubs           Navigation ---- MCNavigation
        \--------- LiveHubsProofs           \---------- NavigationProofs
                                        Optimistic ---- MCOptimistic
                                            \---------- OptimisticProofs

`ListPatches` has no state: it is the diff of two lists and the two ways its patches
are applied, and both list machines extend it. `SlotDelivery` is an abstract
specification, which `HubStream` instantiates with a refinement mapping. The other state
machines are not composed into one; they meet at these points, and each says what it
assumes there:

- What `EventPipeline` calls applying an event is an `Invalidate` or
  `TombstoneDependents` of `Freshness`, which assumes of the pipeline only that a
  committed write is applied at some later time. A list's notices (`Changed`, `Deleted`
  of `LiveList`) are events of the pipeline too.
- What `Freshness` calls `Emit` is an `Emit` of `HubStream`; the write-back of a patch
  the stream has delivered is in `Freshness`, because it changes the artifact. A list's
  patches travel on the same streams.
- `PageServe` and `Freshness` are two views of one handler: which artifacts are served
  and under which key, and how fresh the live slots inside one artifact are. In
  `PageServe` a slot's staleness does not appear, in `Freshness` no layout and one user.
- `Optimistic` receives what a hub of `LiveHubs` delivers; `Navigation` fetches what
  `PageServe` answers, of which it keeps only how many mutations it reflects.

### Freshness

The slot rows, the JSON artifact and everything that touches them, for one page
(one route and user key). `row[s]` is the row of slot `s` in `kiln_fsr` with the
columns some statement tests; each statement of `store.ts` is an operator on one
row (`InvalidatedRow`, `TombstonedRow`, `ClaimedRow`, `FreshRow`, `UpsertedRow`), and
a statement over several rows is one step, as it is in Postgres. `watch[p]` is the
tick in progress in process `p` and `req[r]` a request: both have a program counter
that stands at the `await`s of `refreshRegisteredLoaders` and of the page handler.

*Data.* What `load()` returns is represented by the set of committed writes it
reflects. "The artifact is out of date" is then: a write that was applied to the
slot is missing from the set. One slot value of the artifact is one such set.

| Code | Action |
|---|---|
| trigger and commit | `Commit` |
| notifyChange / invalidateDepKey | `Invalidate` |
| notifyDelete / tombstoneDependentRoutes | `TombstoneDependents` |
| watcherTick / fetchStaleSlots | `ClaimStale` |
| refreshRegisteredLoaders, await by await | `RunLoader`, `LoaderThrows`, `ReadSnapshot`, `MarkFresh`, `MarkFails`, `WriteSnapshot`, `RefreshFails` |
| page handler, await by await | `Arrive`, `CheckDormant`, `AnswerJson` (the JSON fast path), `FetchSlotVersions`, `VersionsFail`, `LoadPageProps`, `Bake`, `UpsertSlot` |
| patchBakedFiles / patchJsonField | `WriteBackReads`, `WriteBackWrites`, `WriteBackLost` |
| invalidateActor / KilnCache.delete | `DeleteArtifact` |
| columns that depend on the clock | `ActiveWindowLapses`, `RevalidateTimerLapses`, `ClaimExpires` |
| process restart | `Restart` |

Left out: the debounce of invalidations (it only delays `Invalidate`), owner scoping
(one user key), purgeInactiveRoutes, rows with a SQL query of their own (no renderer
registers one), the Redis mirror, and what `PageServe` has: layouts, purity, variants,
the pair of files. Whether an HTML request
that finds a good artifact is served from it depends on whether this process has
registered a live *list* of the route (`hasRegisteredRoute` looks at nothing else);
`CheckDormant` leaves that open (`kind`), so a page of scalar fields alone, which
renders in full on every HTML hit, and a page that has a list too are both covered.

Two switches name assumptions rather than code. `Overlap = FALSE` lets a tick, a
request or a deletion begin only when no other is in progress; `SlowStreams = FALSE`
makes streams write back before the next one begins. The code guarantees neither:
with either of them lifted the freshness of the artifact fails (section 5 says how to
see it). What holds without them -
that no stale flag is cleared over an invalidation the data lacks - is checked and
proved with both lifted.

### PageServe

`buildPageHandler`, cut at its `await`s, for any number of processes, pages, users and
layouts; around it actions, deploys, crashes, purges and `deleteLayout`. `html`, `json` and
`layout` are what the cache holds. A key is a route and, for `bake = 'user'`, a user;
users are ids that `safeVariant` keeps apart. `req[r]` holds the local variables of one
`handle()`.

*Data.* A render is reduced to the writes it reflects (`data`), the users whose identity it
shows (`for`) and, for a layout, the release that rendered it (`by`). "A response shows
somebody else's data" is then a set that is not empty. `varies` says which loaders read
more than their cache key just now: it changes with the data (`Change`), so that a page
that was pure may become impure in one process while another has its artifact.

| Code | Action |
|---|---|
| handle(): request; getHtml, getJson | `Arrive`; `ReadShell`, `ReadSnapshot` |
| materializeBakedShell, layout signature, build id | `Check` |
| cache.delete of what may not be served | `Drop` |
| hasRegisteredRoute, and the answer from the cache | `Serve` |
| load() under the tracker, its errors and redirects; a write that throws | `LoadPage`, `Throws` |
| getLayoutHtml; a layout's load(), setLayoutHtml or deleteLayout | `ReuseLayout`; `BakeLayout`, `StoreLayout` |
| Promise.all, assemble | `Assemble` |
| purity demotion and the decision to bake | `Demote` |
| computeLayoutSignature, setJson, setHtml | `Sign`, `StoreSnapshot`, `StoreShell` |
| registerLiveList, list by list, and its failure; the answer | `Register`, `RegisterFails`, `Registered`; `Respond` |
| buildActionHandler | `RunAction`, `InvalidateActor`, `ActionFails` |
| cache.deleteLayout, cache.delete, store.tombstone | `DeleteLayout`, `Purge`, `Tombstone` |
| a new release, a process that dies | `Deploy`, `Crash` |

With `faults`, an unlink fails and is swallowed (`Left`: either file of an artifact may stay), a
write of the artifact throws, and the queries of a registration fail: that is logged, and the
page is answered all the same (`missed`). Lists are registered one by one, while one registered
list of a page is all `hasRegisteredRoute` asks for. Only the application calls
`store.tombstone`; a tombstoned page is rendered, and neither baked nor registered.

`regime` says what may happen together in one behaviour: every combination of features
at once is out of TLC's reach, and what `deleteLayout` promises can only be said where
requests for one artifact do not overlap. Two histories carry the promises. `owed` are the
writes whose authors have been answered with a promise that can be kept (`Promised`): their
artifact is gone, the deletion not having failed, and no request under way has in hand what is
older than the write. `ordered` is the release whose layouts the last `deleteLayout` asked for.
A request remembers on arrival what it is owed (`floor`, `since`).

The dormant rebuild and the JSON fast path are in `Freshness`. The cache is one store here, so
that a Redis mirror that disagrees with the disk is not modelled. The lists of a layout have a
route of their own and are left out.

### EventPipeline

One event per committed write, named by its id in `kiln_fsr_events`. Each process
boots (`Boot`, catch-up, `Started`), listens (`Connect`, which starts a catch-up of its
own), handles notifications concurrently (`Deliver`, `Handle`), raises its marks
(`UpdateCursor`), flushes them (`FlushTimer`, `FlushLands`) and catches up statement by
statement (`ReadCursor`, then either `ReadHead` and `AdoptHead`, or `FetchEvents`,
`ReplayEvent` and `FinishReplay`). Faults are `Drop` (the connection), `Stop` (flush or
crash), and the failure of a handler's, a flush's or a catch-up's statement.
Applying an event is idempotent and stands for the statements of both its keys.

Three switches name assumptions. `CommitInOrder`: transactions commit in the order
in which their ids were drawn. `PromptRead`: a catch-up reads the cursor before a
notification that follows its LISTEN is handled. `Retained`: the retention of the
log outlasts the gap between a catch-up's read of the cursor and its fetch. Without
the first two `NothingMissed` fails in a few steps; they are hazards of the code,
recorded as such. `FirstBoot` only chooses the initial state: no cursor was ever
stored (then a process adopts the head of the log and everything up to it counts as
settled, `floor`), or one was.

### Admission

`createRedisAdmission` call by call: ZREMRANGEBYSCORE, ZADD, ZCARD and ZREM are steps
of their own, between those of other processes. A score is only compared with the
staleness limit, so the sorted set is its members and its stale members. A failed
call sends the connection to the process's own counter. `Heartbeat` stays enabled
until the timers are cleared, after release() has returned, as in the code.

### HubStream

One `fsrHubStream` and the page at its other end. The generator is a sequence of
steps from one suspension (a yield, or the promise it waits on) to the next; the
listener and the timers are callbacks between them. `Drain` is the inner loop, which
does not look at `over`, `lagged` or `keepalive` until the queue is empty. Patches are numbered in
the order of their emission (`sent`), so that one that is repeated, overtaken or forgotten
shows; the code looks at no number. `lost` is the newest patch of a slot that was given up: it
was emitted while the page had no stream, or by a stream that has ended since.

`SlotDelivery` says what a page may rely on, with no queue, no timer and no generator: patches
emitted while a stream is open are on their way, and the page applies them oldest first, each
once. A stream may drop some, but then it is `lagging` until it ends and never rests, and a
stream that rests has nothing on its way. `HubStream` implements it (`DeliversLatest`): `open`
is a generator that has not closed, `coming` the queue and what the consumer has in hand,
`lagging` a stream that has overflowed or tells so, `idle` one that waits on its promise.

### ListPatches and ListReconcile

`Reconcile` is `reconcileListRows` with its four passes (`Removals`, `Insertions`, `Moves` over
the virtual order, `Orders`, `Replacements`); `ApplyToRows` is `applyListPatchToRows`,
`ApplyToDom` is `_patchList`. `ListReconcile` takes any two lists and delivers the patches one
by one to both kinds of readers, then again, in any order, to the reader of rows, as a replayed
log or a reconnect may. "fields" and "replace-row" are one op: both give the row its new content
(the watcher turns the first into the second before it sends it). Fields are compared with
`Object.is`, and the rows of last time come back from JSONB: a content with an object, an array
or a Date in a field (`Nested`) is never equal to what it was, so that its row is sent again
with every diff (`Unchanged`). The loops that carry an order are recursive functions of the
position, and `filter` and `push` are `FlattenSeq` of what each position yields, so that what a
loop does can be proved of its steps. `LiveList` calls `Reconcile` through a table of the
results of its query (`Diff`).

### LiveList

One list of one page in the process that watches it. `row` is its row of
`kiln_fsr_lists`; `shell` and `json` are the artifact, where `json` has the three places the
rows are kept in (`data`, `lists`, `pageData`); `tick` is `revalidateLiveList` between its
awaits; `req` a full render; `page` a browser that follows the list.

| Code | Action |
|---|---|
| HTML hit, navigation away | `Hit`, `Close` |
| commit; notifyChange, notifyDelete | `Write`; `Changed`, `Deleted` |
| idle eviction | `Purge` |
| page handler: cold or unregistered, rejected artifact | `Miss`, `Reject` |
| load, setJson, setHtml | `Load`, `BakeJson`, `BakeHtml` |
| registerLiveList: getSnapshot and diff, upsertSnapshot and patches | `ReadSnapshot`, `Register` |
| columns that depend on the clock | `TimerElapses`, `ClaimExpires` |
| fetchStaleLists and processStaleLists | `Claim` |
| revalidateLiveList, await by await | `Query`, `ReadJson`, `WriteJson`, `MarkFresh`, `Emit` |
| its catch, with a rollback that may fail | `Fail` |
| process restart | `Restart` |

Abstractions: a page is loaded and subscribed in one step and gets patches in order
(what a stream loses is HubStream's subject); only the artifact on disk; the patch mode
is the default 'json'; no debounce; one list, one page, one render and one tick at a time.

Three of its variables are history. `page.steady` says that the page was opened with the
stored rows, and that nothing has happened since that the code does not carry over to
it. `cut` says that a tick stopped between its writes in a way its catch does not
repair: a crash, a rollback that failed, a list removed under it. `rebaked` says that
the artifact was baked over a list that is stored already: the render stores its rows
in the file and, by `upsertSnapshot`, not in the row. The properties claim nothing
where one of them says so, and each of them is a hazard in `PROJECT.json`.

### LiveHubs

The live connections of Silcrow in one browser page. `page` holds the module-level maps of
silcrow.js: `conn` is `liveConnections`, `states` the sets of `liveConnectionsByUrl`, `reg`
`sseHubs` and `wsHubs`, `hubs` the hub objects that are registered, referred to by a
state or still called back by a socket or a timer. The functions of the source are
operators that map a page or a hub to a new one (`Subscribed`, `unsubscribe`, `removeHub`,
`connectSseHub`, `connectWsHub`, `pauseLiveState`, ...), and an action is one entry into the code.

| Code | Action |
|---|---|
| `Silcrow.live`, `s-sse`, `s-ws`, headers, `finalizeNavigation` | `OpenSse`, `OpenWs` |
| MutationObserver | `cleanupLiveNode` |
| `Silcrow.disconnect`, `reconnect` with an element or a path | `Disconnect`, `Reconnect` |
| `destroy` / destroyAllLive | `Destroy` |
| es.onerror; socket.onclose of the hub's socket, of one it lost | `SseError`; `WsClosed`, `WsLost`, `StrayClosed` |
| the reconnect timer | `TimerFires` |

A hub's sockets are counted by what the hub knows of them: the one it refers to (`link`), those
it has lost while they run (`strays`) or close (`closing`); so are its timers (`timer`,
`loose`), because a second error overwrites the handle of the first one's timer. An EventSource
is closed by `close()`, a WebSocket only when its `onclose` runs. Left out: delays and
backoff (a timer fires at any later time), the content of messages, `state.paused`,
which is written and never read, and calls after `destroy`. `asked` is history: the URLs
the application has paused itself.

### Navigation

What the page reads: `navigate()` cut where it awaits (the response with its text; the route
handler of the application and the frame of the view transition), preloads, `prefetch()` and
`submit()`, which share the response cache and the memoized promises. Reads and mutations are
under way together, in any number and order. What is fetched is the number of mutations the
server had committed when it answered, so "stale" is a number that is too small. A URL stands for
the cache key made from it.

| Code | Action |
|---|---|
| a click, a form, popstate, `Silcrow.go`, a header | `navigate` |
| the server; headers and text are in | `ServerAnswers`; `ReadArrives`, `MutationArrives`, `FullReload` |
| the route handler or silcrow:before-swap ends it | `Declines` |
| the callback: promise mirror, silcrow-navigate | `Paint` |
| network, timeout, abort, an error answer | `Rejects` |
| preload | `startPreload`, `PreloadAnswered`, `PreloadEnds` |
| prefetch(), its eviction | `prefetchRoute`, `PrefetchAnswered`, `PrefetchEnds`, `evictPrefetch` |
| submit() | `submitAction`, `SubmitCommits`, `SubmitEnds`, `SubmitThrows` |
| CACHE_TTL | `EntryAges` |
| other pages | `OthersMutate` |

`late` is history. It marks what a read got that the server had answered and that had not come
to its end when the answer of a newer mutation came: `bustCacheOnMutation` empties what is
stored by then, and cannot empty what is stored later. It stays with the data where that is
stored.

Left out: targets and the swap, the history and the address bar, and the AbortController of a
target. Whether a newer navigation aborts an older one decides nothing here, because any request
may be rejected while it is under way; section 5 says what goes wrong with them. Also
`destroy()`, and GETs of `submit()`, which are not cached.

### Optimistic

One page's atoms, the elements bound to them and the live nodes, for scopes of one field.
What is shown of a scope is the edit that wrote it last. An edit is published, submitted
and confirmed by its echo or reverted; the server decides about it at any time while it is
submitted and even after the connection is lost; messages of three kinds arrive, each with
its own rules for pending edits.

| Code | Action |
|---|---|
| useSilcrowMutation: mutate() with publishOptimistic; reset() | `mutate`; `reset` |
| submit() resolves; fails or rejects, with revertOptimistic | `Succeeds`; `Fails` |
| the server | `Commit`, `Refuse` |
| onmessage of an SSE hub, a patch over a WebSocket | `applyLivePatchPayload` |
| the SSE events "patch" and "live" | `onPatchEvent`, `onLiveEvent` |
| destroyAllLive | `destroyAllLive` |

`exposed` is history: the edits that may outlive their failure. They are those that were under
way when another one of their scope began, since that one's snapshot holds them; those that
began on an atom without data, since a revert to "nothing" tells no subscriber; and those pending
when `destroyAllLive` forgot their snapshots. The code prevents none of the three (section 5).

## 3. What each run checks

| Run | Instance | Shows |
|---|---|---|
| `FreshnessOverlap` | 1 slot, 2 writes (one a DELETE), 2 processes, 1 request, new and old page, everything interleaved, 1 loader failure, 1 crash or failed statement | `VersionGuardsRead`: a version a tick or a render carries, if it still matches the row, is a valid promise about the data loaded after it. `NoSwallowedInvalidation`: no flag is cleared over an invalidation the data lacks |
| `FreshnessSerial` | 2 slots, 2 writes (one on both slots), 1 process, 1 request, 1 patch in a stream, 1 loader failure; no overlap | `NoSilentStaleness`, `CorrectOnNextRead`, `ReloadNeverGoesBack`, and under fairness `ActiveSlotsRefresh` |
| `EventPipeline` | 2 events, 2 processes, first boot, up to 2 faults (at most one drop, one stop, one failed statement) | `LostOnlyBelowCursor`, `NothingMissed`, `CursorNeverRewinds` |
| `Admission` | 3 connections on 2 processes, limit 1, any number of crashes, 1 late heartbeat, 2 failed calls (two, so that one process can fall back twice) | `NeverOvershoots`, `OrphansReclaimed` |
| `HubStream` | 2 slots, 4 patches and any foreign ones, queue of 3 | `DeliversLatest` (it implements `SlotDelivery`), `NothingLostSilently`, and under fairness `PatchesArrive`, `OverEnds` |
| `ListReconcile` | every pair of lists of up to 4 keys with 2 contents, one flat and one nested, up to the names of keys; every re-delivery | `DiffIsSound`, `NoPatchIsWasted` |
| `LiveList` | a list of at most 2 rows with 3 results, 1 write, 2 renders, 1 purge, failure or crash | `PageInStep`, `ArtifactInStep`, and under fairness `ListCatchesUp` |
| `LiveHubs` | 2 elements, 2 EventSource URLs and a WebSocket URL, 3 hubs, 2 sockets or timers when a caller adds one | `OneStreamPerUrl`, `PausedIsSilent`, `NeverStranded` |
| `PageServe` | 1 process, 2 requests, a page with 2 lists and a page per user under 1 layout, 1 user and anonymous readers; overlapping requests with 1 change of a loader, with 1 action and faults, or with a tombstone and faults; or, of requests one at a time, 2 releases with 1 crash and purges, or 2 releases with 1 change of a loader | `CachedForAll`: what is cached under a key shows nobody but the user of the key. `ActorSeesOwnWrite`, for writes that are `owed`. `ChromeIsCurrent`: `deleteLayout` alone reaches every page. `ListIsLive`: no answer leaves a process that has not taken up each of its lists |
| `Navigation` | 2 navigations, 1 prefetch, 1 submit and a preload, at most three of these under way; 2 URLs, one of them of JSON and preloaded; a cache of 1 entry, 2 mutations of this page or others | `ReadYourWrites`: once a mutation's answer is in, what the page is given is no older, unless it is `late`. `MemoizedIsLive`: no promise of a request that failed is handed out again |
| `Optimistic` | 2 scopes, one of a stream with 2 edits and 1 of another session, and one with 1 edit; atoms with data or without; 1 message on its way | `WithdrawnIsGone`: a failed edit that is not `exposed` is in no atom, element or node |
| `PageServeDeploy` | as `PageServe`, with deploys only | the disagreement of section 5 |

*Why the bounds are enough.* The races of `Freshness` are between two readers and a
write: two processes (or a process and a request) and two writes give every order of
"load before, load after, clear before, clear after"; a second slot matters only for
what one tick does to several, which the serial run has. `MaxVersion` bounds how often a
slot is claimed (twice in the overlapping run: a refresh and the refresh of what came
during it), `MaxTimerVersion` how often its timer lapses; in the serial run `MaxVersion` is
out of reach, so that no liveness is lost or gained by it. In `EventPipeline` an event is
lost if a cursor passes it; two events give the one below and the one above, and two
processes the one that writes the cursor and the one that reads it. In `Admission` a third
connection is what a race between two cannot show: a member that holds a slot while
two others race. In `HubStream` a queue of three holds two slots' patches and one that
is filtered out, and overflows; of four patches one slot has several, on both sides of a
reconnect. A move in a list is of one key past others: four keys have every way of two rows
that stay, one that goes and one that comes, and cycles of moves.
In `LiveList` one write is enough for what races with a tick (before the query, between
query and markFresh, after), two renders for one that registers and one that finds the
list registered; its three results insert, remove and replace. Without the liveness
property the same model was also checked with two writes (4.8 million states).
In `LiveHubs` two elements are one that stays and one that comes, goes or moves; with two
sockets or timers a connection and a loose timer, or two sockets, meet in one hub; the
WebSocket URL shares its path with an EventSource URL, so that `disconnect(path)` chooses.

In `PageServe` two requests are the two that race for one artifact, and one process is the
harder case for all but `knownImpure` and `registered`, which a crash empties: a process that
has forgotten is a second process that never knew. Where actions run, the requests are for the
page per user, and where pages are tombstoned, for the shared one (`WhatMatters`): the other page
has no promise to break there. Where requests overlap, `deleteLayout` comes while one is under way
(`NoPromise`), which then finds what it would have found had it come before. Two lists are enough
for one that is registered and one that is not, in the order in which `load()` returns them.
The proofs of section 4 cover any number. In `Navigation` a mutation races with a read that will
be stored, and a third request stores, evicts or mutates between; one cache entry makes every
second response evict the first; of two mutations one is answered before the other, or not. In
`Optimistic` two edits of one scope follow one another or overlap, a third runs beside them in
a scope of the other kind, and another session's comes between; one message on its way makes
an echo late.

Every run has also been tried with each property's mutant, a version of one definition
that a plausible mistake in the code would give, and every property is violated by its own.

*Symmetry* is used where the property is a safety property and the values are alike in
the configuration (requests of `PageServe`, navigations, the two edits of one scope, keys of
`ListReconcile` and elements of `LiveHubs`, processes); runs with a liveness property have none.

`CHECK_DEADLOCK FALSE` is set wherever the bounded supply of writes, connections, edits or
faults may be used up and the system come to rest. `PageServe` and `Navigation` are checked for
deadlock: a request or a navigation can always arrive, and none ever gets stuck.

*Fairness.* `Freshness`: notifications are applied, claims expire with the clock, ticks recur on
a supervised timer, requests and streams are driven by the event loop; no write, request,
subscription, deletion or fault is ever obliged to happen. `ActiveSlotsRefresh` rests on the
bound of loader failures: a loader that always throws is never refreshed, in the code either.
`Admission`: Redis answers, time passes, a stream ends at its TTL at the latest, clients that
were refused come back. Heartbeats and crashes are not fair. `HubStream`: promises resolve, the
consumer pulls and the browser reconnects; with `Settles`, patches stop at some point, without
which a producer faster than its consumer keeps a stream in its inner loop past its TTL.
`LiveList`: notices are handled, the claim and the revalidate timer run with the clock, the tick
recurs; renders, failures and restarts are not obliged to happen. The timer's fairness says that
the list has a revalidate interval above zero, which is the default: with `revalidate: false` an
invalidation that `markFresh` clears is lost for good. The other modules have no liveness
property: `EventPipeline` speaks of quiet states instead, `PageServe` of what is answered,
`Navigation` and `Optimistic` of what is given and shown, if it is.

## 4. What is proved

| Module | Theorem | Establishes |
|---|---|---|
| `FreshnessProofs` | `TypeCorrect` | `Spec => []TypeOK` |
| | `VersionGuardSound` | `Spec => []VersionGuardsRead` |
| | `NothingSwallowed` | `Spec => NoSwallowedInvalidation` |
| `EventPipelineProofs` | `TypeCorrect` | `Spec => []TypeOK` |
| | `CursorsMoveForward` | `Spec => CursorNeverRewinds` |
| | `LostOnlyBelow` | `Spec => []LostOnlyBelowCursor` |
| `PageServeProofs` | `TypeCorrect` | `Spec => []TypeOK` |
| | `CacheIsShared` | `Spec => []CachedForAll` |
| | `ActorsSeeTheirWrites` | `Spec => []ActorSeesOwnWrite` |
| | `AnswersAreLive` | `Spec => []ListIsLive` |
| | `DeleteLayoutReachesEveryPage` | with a build id, or layouts that stay pure, `Spec => []ChromeIsCurrent` |
| `HubProofs`, of `Admission` | `AdmissionTypeCorrect` | `AdmissionSpec => []AdmissionTypeOK` |
| | `LimitHolds` | `AdmissionSpec => []NeverOvershoots` |
| `HubProofs`, of `HubStream` | `TypeCorrect` | `Spec => []TypeOK` |
| | `SilenceIsComplete` | `Spec => []NothingLostSilently` |
| | `StreamDelivers` | `Spec => DeliversLatest`, the refinement of `SlotDelivery` |
| `ListProofs`, of `ListPatches` | `ReconcileLeads` | for any two lists, `Leads(previous, Reconcile(previous, next), next)` |
| `ListProofs`, of `ListReconcile` | `DiffsAreSound` | `DeliverySpec => []DiffIsSound` |
| | `NoPatchesAreWasted` | `DeliverySpec => []NoPatchIsWasted` |
| `ListProofs`, of `LiveList` | `LiveListTypes` | `Spec => []TypeOK` |
| | `PageStaysInStep` | `Spec => []PageInStep` |
| | `ArtifactStaysInStep` | `Spec => []ArtifactInStep` |
| `LiveHubsProofs` | `TypeCorrect` | `Spec => []TypeOK` |
| | `OneStream` | `Spec => []OneStreamPerUrl` |
| | `SilenceHolds` | `Spec => []PausedIsSilent` |
| | `NobodyStranded` | `Spec => []NeverStranded` |
| `NavigationProofs` | `TypeCorrect` | `Spec => []TypeOK` |
| | `WritesAreRead` | `Spec => []ReadYourWrites` |
| | `FailuresAreForgotten` | `Spec => []MemoizedIsLive` |
| `OptimisticProofs` | `TypeCorrect` | `Spec => []TypeOK` |
| | `FailedEditsAreGone` | `Spec => []WithdrawnIsGone` |

They hold for every value of the constants that meets the named assumptions of their module: any
number of slots, writes, events, processes, requests, catch-ups, connections, pages, layouts,
lists, users, navigations, mutations and edits, any capacity of the queue and size of the cache,
any bounds, with ticks and requests overlapping or not, and whatever `Regimes` allow together.
One has a hypothesis besides, `DeleteLayoutReachesEveryPage`, and it is about the configuration
of the application; section 5 says what fails without it. Those of `ListProofs` are for lists of
any length over any keys and contents, nested or not, and for any set of lists as the results of
the query. Those of `LiveHubsProofs` are for any elements, paths and URLs and any bounds, from
`HubsAssumption` and `NoneAssumption`: the bounds only say when a caller comes.

*Freshness.* `VersionGuardsRead` is not inductive as it stands: it says that if the version a
reader holds still equals the row's then the data it loaded covers what has been applied, but a
step that moves a row's version could bring it back to the value some reader holds. The
inductive invariant adds `VersionsBehind`, that no reader holds a version greater than its row's
- versions only grow, and every invalidation moves them, so a version that has been left behind
is never met again - and `StaleRowsExist`, that only a row that exists is stale, so that an
INSERT clears nothing. Each action then either leaves the rows' versions and the applied writes
alone, or moves a version past every reader, or loads data that covers everything committed.
`NothingSwallowed` follows from the invariant one clearing step at a time: `FreshRow` and
`UpsertedRow` clear only on equal versions.

What a reader gets is another matter: the flag says that a value was computed, not that it
reached the artifact. `NoSilentStaleness`, `CorrectOnNextRead` and `ReloadNeverGoesBack` say
that it did; they are true only where ticks, requests, deletions and streams take turns, which
the code does not see to, and so TLC checks them of that schedule and no theorem states them.

*EventPipeline.* `Inv` says that whatever a process holds, on its connection, in a handler, a
flush or a catch-up, is an id of the log or none, and that only what the cursor has reached was
pruned. From it each cursor moves forward, step by step. `LostOnlyBelow` accounts for an event
that is not applied (`Accounted`); a step that makes a process forget it either leaves the
process where a catch-up will look for it, or the event is below a cursor. For this a process
must not connect without a mark (`HeadOK`): a catch-up that finds no cursor adopts the head of
the log, which a process with a connection could have been told of. It takes no assumption on
the order of commits, on how soon a catch-up reads or how long the log is kept. `NothingMissed`
takes all three, and stays with TLC.

*Admission* (in `HubProofs`). The invariant behind `LimitHolds` is `Accounted`: as long as no
heartbeat was late and no call failed, every connection that is counting, handing back or open
is a member of the set and is not stale, so that nobody's prune removes it. The step to "open"
then compares the limit with a set that contains every open connection and the newcomer.

*PageServe.* A request lives through a dozen steps while the cache changes under it, so the
invariant says of each request in hand what it has made sure of (`RequestOK`), and of the
cache that it is `Kept`: what is cached reflects every write its reader is owed. First
(`Made`, `Attributed`), the page a request has loaded is for its own user, if for anybody, and a
layout it holds that shows somebody is still to be written back or has been counted as
impure; so what `ShouldBake` lets through is for the key's reader only, whoever's
request runs in between. Second (`Seen`), whatever it has read or loaded so far reflects what
it is owed, because a write is owed only when both its files are gone and every request under
way for them reflects it (`Promised`). Third (`Listed`), the lists a request has yet to register
and those that were attempted in its process are together all the lists of its page; `OneForAll`
says what makes the cached answer right, that where one list of a page is registered all were
attempted or are about to be. That needs that no request is lost between the first list and the
last one except with its process, or by an error, which `Throws` counts as `missed`. Every action
is either a step of one request, for which `Stepped` and `Turned` reduce the invariant to that
request, or a step around all of them.

`ChromeIsCurrent` speaks of requests that do not overlap, and its invariant, `Current`, of the
layouts: none in the cache is older than the last `deleteLayout` of all of them; a shell and a
snapshot that are both cached were made of one set of layouts, or of one release that could not
tell (`SnapshotsSigned`); and what a request has composed, found or signed agrees with the cache
it will be compared with. The signature of a layout that is missing is 'MISSING', whoever
deleted it, so the agreement breaks where a render that found a layout to be specific to
somebody deletes it before another signs; the build id then tells the releases apart. Hence the
hypothesis: a build id, or no loader that turns impure.

*HubStream.* What is on its way is the queue and what the consumer has in hand. `QueueInv`: it is
in the order of emission (`Sorted`), newer than what the page shows, and the patch in hand is
older than the queue. `OwedInv`: unless the stream has lagged, the newest value of a slot that
the page does not show is on its way; a stream that waits has an empty queue and has not lagged;
one that has ended owes nothing. Then each step is shown to be a step of `SlotDelivery` or a
stutter: a listener's call is an `Emit` that keeps what was coming or lags (`PushStep`), an
`Arrive` is the page's applying the oldest patch, and the steps that end the stream are one
`End`, in which `Forsake` gives up what is still coming.

*Navigation.* `IInv` says of everything that is kept or on its way to the page what
`ReadYourWrites` says of what is given: it is late, or as new as the newest mutation confirmed
(`Current`). What was sent and not answered needs nothing, because its answer will have the
server's count, which no confirmed mutation exceeds (`CountsOK`, `NavOK`). The answer of a
mutation raises the bar: what is stored is gone with the caches, and what is under way becomes
late or is as new (`ConfirmedHolds`). A memoized request is under way (`PromiseOK`), so that the
promise it becomes is current when it ends; that is also `MemoizedIsLive`.

*Optimistic.* `Clean` says of each edit that the server does not have and that is not exposed:
it is shown only while it is under way, and by the element only if the atom shows it too or has
no data (`ShownOK`); no snapshot holds it, and its own entry has something to go back to
(`PendingOK`). A snapshot is taken by `mutate`, which exposes whatever edit of the scope is then
under way, and what is shown and not under way is settled, so the new snapshot holds nothing
that may still be withdrawn. `FeedOK`: a message carries only what was committed. `Counted` and
`Placed` are about counts and scopes. An edit that fails though the server commits it later is
settled at that moment, and the claim exempts it from then on.

*ListPatches and ListReconcile.* What the diff computes for lists of any length takes an
induction over their positions. The induction theorems of the library take an operator, which
the provers cannot be given; its theorem that a non-empty set of numbers has a least element
does not, and gives an induction over sets (`UpTo`: a set of numbers with 0 and, with i - 1,
also i is all of them) and from it a function for each loop (`Recursion`), whose value at i is
what the loop has made after i rounds. `Leads(l, s, m)` says that the patches s take the list l
to the list m, each *fitting* the list it is for (an insert brings what is not there, any other
patch names what is); it holds of one patch, of patches that lead on, and so of a loop whose
every round leads on (`LeadsLoop`). Each pass is such a loop, with an invariant of its own: the
removals keep the rows passed and have the rest still before them (`RestSteps`); after i
insertions the list holds the rows that stay, in their old order, and the new ones as far as i
(`Mixed`), and once all are in, each key of `next` is there; after i moves the first i rows are
where `next` has them, and any two that the moves turned round had to be (`Sorted`,
`NotInPlace`); after i replacements the rows up to i are those of `next` (`Pending`). The order
the code keeps of keys is that of the rows (`InsertingOrders`, `MovingOrders`), so its positions
are right. That the page ends up the same follows, because on a list without a key twice a patch
that fits does to the page what it does to the array (`SameOnLists`). `DeliveryInv` is then that
both readers are at the list to which the patches delivered so far lead. A patch delivered again
changes nothing because it says what is so in `next` (`Sent`, `Settled`); the same description
gives the second half of `NoPatchIsWasted`, and fitting the first.

*LiveList.* Both invariants speak of two places that are written one after the other. The
inductive invariant says what a tick in each of its states knows: `TickHasDiff`, its patches are
those from the rows it claimed to those it queried; `TickFollowsRow`, unless cut, the row still
holds what it claimed until `MarkFresh`, and what it queried afterwards, because
`upsertSnapshot` leaves the rows of a list it knows; `SteadyPage`, a steady page shows the row,
or what the row was before the patches still to be sent; `FileFollowsRow`, the file and the copy
kept for the rollback hold the row's rows; `RenderFollowsFile`, a render that has baked over no
stored list will store what it baked. That the patches take the one to the other (`TickLeads`)
is the theorem about the diff, applied as a whole by `patches.reduce` and by the calls of
`_patchList` (`RowsApplied`, `DomApplied`). The types (`TInv`) rest on that invariant and on two
facts it does not need: a patch of any diff leaves a list a list, whichever version of the file
it is applied to (`StaysList`), and no more notices are owed than there were writes
(`CountsTyped`).

*LiveHubs.* The invariant is of a page, `Sound(page)`, because one step of the code is a
chain of functions that each map a page to a page: every function is shown to keep it
(`UnsubscribeSound`, `CreateSound`, `RemoveSound`, ...) and an action follows by
composing them. It adds to the properties `Referred` (what a state or an entry refers to
exists and is of its URL, a connected element is a subscriber), `SseStatesRegistered` (the
hub of an EventSource state is the registered one, so that a removal, which goes by URL,
takes away the hub it means) and `RemovedHubsClosed` (a hub that is no longer
registered has no subscriber and no stream, so that a late timer finds nothing to
connect). Neither of the last two holds of WebSockets, and `OneStreamPerUrl` claims
nothing of them.

Only model-checked, and why:

- Liveness and ENABLED, which are out of the prover's reach: `ActiveSlotsRefresh`,
  `OrphansReclaimed`, `PatchesArrive`, `OverEnds`, `ListCatchesUp`.
- `NoSilentStaleness`, `CorrectOnNextRead` and `ReloadNeverGoesBack` of `Freshness` and
  `NothingMissed` of `EventPipeline`: they hold under assumptions that the code does not make
  true, and a theorem with those as hypotheses would say little of it.
- The properties of section 5, which the code does not have.

Every other invariant and action property of a passing run is a theorem, and so is the
refinement of `SlotDelivery`.

## 5. Disagreements between the code and what it says

**Layouts outlive a deploy** (run `PageServeDeploy`). `baking.ts:35-37` says of `fsr.buildId`
that a mismatch invalidates the artifact and "deploys stop requiring a manual flush". The page's
artifact is dropped and the page rendered again, but inside the layouts the cache has, which
carry no build id: until `deleteLayout` is called every rebuilt page embeds the chrome of the
release that baked the layout.

These have no run of their own but are a few changes of a configuration away:

| What happens | Checked by | Change |
|---|---|---|
| *An older render overwrites newer data.* `expectedVersion` protects the flag, not the file: a render that loaded before a write bakes after the tick that loaded after it and cleared the flag (`store.ts:155-161` calls both directions safe) | `Freshness`, `NoSilentStaleness` | `FreshnessSerial.cfg` with `Overlap = TRUE`, one slot, two requests, `Touches <- TouchesAll`, `MaxStreamed = 0`, `MaxVersion = 4`, `MaxTimerVersion = 1`, `MaxLoadFailures = 0` |
| *A slow stream writes an old patch back* over a newer artifact | `Freshness`, `CorrectOnNextRead` | `FreshnessSerial.cfg` with `SlowStreams = TRUE` |
| *The cursor passes handlers still running*: handlers are concurrent and the cursor a maximum, so a stop loses the slower one's event (`db-notify.ts:55-57` says it cannot) | `EventPipeline`, `NothingMissedAcrossRestarts` | `Procs = {p1}`, `Replays = {k1, k2}`, `FirstBoot = FALSE`, `MaxDrops = 0`, `MaxFailures = 0`, `MaxFaults = 1` |
| *A late commit or an early notification is passed by* | `EventPipeline`, `NothingMissed` | `CommitInOrder = FALSE`, or `PromptRead = FALSE` |
| *An old layout passes for a new one.* The signature of a missing layout is 'MISSING' (`page-render.ts:137`). A render finds the shared layout specific to its reader and deletes it (523) between another's assembling and signing; after a deploy and a `deleteLayout` 'MISSING' equals 'MISSING', and the old release's shell is served | `PageServe`, `ChromeIsCurrent` | `HasBuildId = FALSE` |
| *One artifact, three lists*: a tick patches `data` and `lists` of the JSON, not `pageData`, and materializing the shell inserts, removes and moves no row (`watcher.ts:1011-1013`: "must stay in lockstep") | `LiveList`, `ReadersAgree` | `MaxWrites = 2`, `MaxRenders = 1`, `MaxUpsets = 0` |
| *An element takes the connection with it*: when an element with `s-sse` leaves the page, the observer pauses the hub its other subscribers share and leaves it subscribed; what a navigation puts in its place is never connected (`silcrow.js:2113-2114` says it is) | `LiveHubs`, `NewOnesConnected` | none |
| *A failed edit stays on screen* if the atom had no data: reverting to "nothing" tells no subscriber (`silcrow.js:480-481`; `FSR_IMPLEMENTATION_PLAN.md:556` promises the revert) | `Optimistic`, `WithdrawnIsGone` | say `Edits` for `Edits \ exposed`, with one edit |
| *Overlapping edits revert to each other's snapshots* | `Optimistic`, `WithdrawnIsGone` | say `Edits` for `Edits \ exposed`, with atoms that have data |
| *A stale response is cached*: a GET, a preload or a promise that the server answered before a mutation is stored after the caches were emptied, and is given for up to five minutes (`silcrow.js:1914-1915` empties them so that later calls see fresh data) | `Navigation`, `ReadYourWrites` | drop the `late` disjuncts |

Others were met while modelling and lie outside what a property here says.

*Server.*
- A DELETE clears the stale flag of the slot rows and unlinks nothing, since only slot rows
  have a `depends_on`: the page with the deleted row counts as fresh.
- The first render of a page starts out fresh whatever happened since its `load()`.
- The signature is computed when the artifact is written, of the layouts that are cached then and
  not of those that were embedded; two layouts that are both missing have equal signatures.
- Shell and snapshot are two writes and two reads: the comment at `page-render.ts:635-641`, that
  they can never diverge, does not hold across requests or a crash.
- In a rolling deploy processes of two releases bake layouts for each other's pages.
- `hasRegisteredRoute` looks at list targets only, so a page of scalar fields alone runs `load()` on
  every HTML hit (`page-render.ts:380` speaks of one full render per process).
- The live fields of a layout that comes from the cache are not registered for the page, and after
  a restart its `Live.list` is not registered again as long as the layout is cached.
- An action that throws after it has committed does not invalidate its actor's page. One whose
  deletion fails does not either: the error is swallowed (`boot.ts:73`), and the actor is given
  the old page.
- A page with several lists is served from the cache once one of them is registered: a list whose
  registration failed stays without refresh until the next full render or restart.
- An unlink that fails leaves the old shell where it was; if the next render then dies between its
  two writes, the new snapshot vouches for it. What `deleteLayout` promises is therefore for
  deletions that succeed.
- A Redis failure in the middle of a write leaves the two tiers of the cache disagreeing.
- Nothing calls `unregisterRoute`.
- An invalidation whose statement fails is logged and the cursor advances past it
  (`watcher.ts:309`); a catch-up that fails waits for the next reconnect or boot (506).
- A DELETE on a table a list depends on removes the list's row (`list-store.ts:149`), not rows
  of the list: open pages are told nothing, and the list is dead until a full render.
- Redis failing half-way through `admit` (`hub.ts:182`) leaves a member that nobody heartbeats in
  the set until it ages out.
- The artifact is read before the dormant check and served after it (`page-render.ts:360`).

*Live client.*
- A resync reconnects and refetches nothing (`hub.ts:284-287` says it will).
- A list rendered without rows has no container: the first insert reloads the page, once
  (`live-client-script.ts:75`). The DOM path inserts without looking for the key (99), so a page
  that gets an insert twice shows the row twice. What is emitted between two connections of an
  EventSource is for nobody (195).
- After `destroy()` the `onclose` of a WebSocket, whose hub keeps its subscribers, sets a timer
  that connects again; `disconnect()` does nothing to a WebSocket.

*Live lists.*
- `docs/agents/live-and-islands.md:82` says that changing one row of a thousand sends one patch.
  Of rows with a nested value or a Date all are sent, whichever changed: `diffShallowFields`
  compares them with `Object.is`, and what they were comes back from JSONB.

*Navigation.*
- The `finally` of a navigation deletes the controller of its target, whoever's it is
  (`silcrow.js:2403-2407`): after three clicks, or two of which one is answered with
  silcrow-navigate, an overtaken GET is not aborted and swaps.
- The address may not be that of the body: a click with `s-skip-history` swaps the body and pushes
  nothing, a GET into an element pushes its URL, a popstate changes the address while a response
  waits for its handler, and one that is redirected keeps the old URL. A preload that was
  redirected is cached under the URL it asked for.
- A GET whose response retargets it leaves its controller registered under the first target, and
  that target marked as loading.
- The key of a memoized promise has no query.
- A click on an element with a verb looks preloads up by URL alone and so never finds one; a boosted
  link waits for a preload, and nothing ends a preload's fetch.
- The cache key lacks the representation asked for.
- `navigate()` empties the caches only when a mutation's response is ok; `submit()` always does.
- A header navigation served from the cache, in a browser without view transitions, pushes its
  URL before its parent's.

*Optimistic edits.*
- `reset()` clears `pending` while submissions run (`hooks.ts:317-321`), and the next `mutate`
  does not raise it again.
- A late echo patches over a newer pending edit (1018); the SSE event "patch" and bare messages
  neither ask for pending edits nor confirm one (1232-1256); the guard of the event "live"
  compares the name of a field with that of a scope (1305); a stream's atom is patched whatever
  the guard says (1219-1226).
- No server code of the repository echoes `mutation_id`, so nothing confirms an edit.
- `destroyAllLive` forgets the snapshots of edits that are still submitted (1444-1446).
- A patch from the server does not update the scope's atom, so a revert may show what is older
  than it.
- A `mutationId` that is used twice overwrites the first snapshot.

## 6. Not modelled

- The snapshot endpoint, routing, core, CLI, the project template and the example application
  keep no state that a property could relate, or only transform text.
- The templating of baking and assembling, DOM patching, templates, sanitising and toasts are
  functions of a document; where one of them loses something a property needs (the rows a shell
  cannot be given, the container of an empty list), it is in the module that needs it.
- The list chunk cache is a bounded map, planned as a small module; the broadcast passes through.
- The Redis mirror of the artifact cache: every module has one store.
- The list log and its replay into an island (`useLiveList`, `islands.js`).
- The browser's targets, swap, history and abort controllers (section 5 says what was met there).

## 7. Plan

Done: `Freshness`, `PageServe`, `EventPipeline`, `Admission`, `HubStream` with `SlotDelivery`,
`ListPatches`, `ListReconcile`, `LiveList`, `LiveHubs`, `Navigation`, `Optimistic`, with the
proofs above. In order of importance:

1. `Freshness` without turn-taking: which readers are given what when ticks and renders overlap, as
   a property of what the code does ensure, with its proof.
2. Abstract specifications: `AtLeastOnce` (a set of owed events that only shrinks), implemented by
   `EventPipeline` above its cursors; a followed list (the page shows some earlier rows of
   the store, and moves forward), implemented by `LiveList`.
3. The address bar, targets and abort controllers of Silcrow, from the failures of section 5.
4. The list log of 200 patches and its replay into an island that hydrates late.
5. Small ones: the chunk cache's LRU against an abstract recency order, pattern precedence
   against a reference definition.
