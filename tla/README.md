# CachePredict (package precog): a TLA+ model

CachePredict is a Go HTTP middleware that caches responses, coalesces concurrent
misses, learns navigation patterns and warms the cache with what a client is
likely to ask for next. These modules model its concurrent core, the TLC
configurations check it on small instances, and the `*Proofs` modules hold
theorems that TLAPS checks for every value of the constants. `PROJECT.json` lists
runs, properties, the source lines behind every definition, the hazards that
guided the choice of properties, and the places where code and documents disagree.

## 1. The system

| Component | Source | State | Operations | What makes it correct |
|---|---|---|---|---|
| In-flight coalescer | `coalesce.go` | per shard: mutex, map key -> call; per call: `entry`, `err`, `done` channel | `Do`, `DoContext` | one execution per key, one result for all who share it, never rewritten once readable, waiters always released |
| HTTP middleware | `middleware.go` | none of its own: locals of the request's goroutine, plus the store, coalescer, predictor and queue | the handler function: bypass, lookup, hit, flight, direct path, record, submit | no response crosses users, no wrong variant, client directives respected, one handler run per request and per crowd |
| Prefetcher | `prefetcher.go` | `jobChan`, workers, `quit`, context | `Submit`, `worker`, `execute`, `Close` | never blocks a request, never caches what may not be shared, `Close` ends and leaves nothing running |
| Engine | `precog.go` | the parts and the configuration | `New`, `Close`, accessors | closes the parts in the right order |
| Response writer | `response_writer.go` | buffer, status, `streaming`, `overflow`, `headerWritten` | `WriteHeader`, `Write`, `Flush`, `Hijack` | bytes reach the client once and in order; buffered or streamed, not both |
| Store contract, `MemoryStore` | `store.go` | a locked map | `Get`, `Set`, `Del`, `Close` | a map that may forget |
| Tiered store | `store_tier.go` | 256 atomic L1 slots over an L2 store | the same | right key, not expired, not older than what was written |
| Sharded store | `sharded_store.go` | per shard: byte ring, index hash -> offset, `closed` | the same | offsets mean whole records; bounded memory |
| Predictors | `predictor.go`, `predictor_dense.go` | sessions; transition counters and row totals, under a lock or by single atomic accesses | `Record`, `Predict`, `ResetSession`, `SeedTransition` | every navigation counted once for its own route, rows that add up, bounded sessions, predictions named rightly |
| Endpoint registry | `endpoint_index.go` | copy-on-write map and reverse table, count, mutex | `GetOrRegister`, `Lookup`, `Pattern`, `Count` | an ID means one pattern, for good, also when the table is full |
| Telemetry | `telemetry.go` | four atomic counters | `Record*`, `Stats` | hits never exceed requests |
| Browser client | `precog.js` | `precogCache`, CacheStorage, last route, fallback table | fetch interceptor, prefetch, `clearCache`, `reset` | nothing of a user survives `reset`; the SDK uses the cache the name stands for |
| Rest | `normalizer.go`, `client.go`, `store_ristretto.go`, `cmd/`, `scripts/`, `wasm_exec.js` | | | pure functions, static files, adapters, demonstrations |

**Interaction.** A request's goroutine reads the store (primary key, then the
variant's key), may enter the coalescer with a key made of the resource and, for a
user of `CoalesceAuthenticated`, the session; the leader reads the store again, runs
the application's handler on a capturing writer, may write the store under one or
two keys, and returns an entry or a sentinel error to its waiters. Afterwards the
goroutine records the navigation, asks the predictor for at most three predictions
and offers them to the prefetcher's queue. Workers take jobs from the queue and do
the same inside *the same* coalescer and store, with the credentials of the request
that predicted them. `Engine.Close` stops the workers, then closes the store. The
predictor is called by all these goroutines at once; it keeps its matrix by the IDs
the registry gives to routes. In the browser, `precog.js` does for one page what the
engine does for a server: it records navigations, prefetches into CacheStorage and
answers `fetch` from it, as tasks that interleave at every `await`.

**What is hard.** Waiters, leaders and workers wait for each other across
requests; clients go away in the middle; handlers panic, stream, or are cut short;
entries are evicted, expire or are replaced between any two steps; L1, the registry
and the matrix are lock-free; a handler may write, flush and hijack in any order;
`Close` and `reset` may come at any time. All of it is in the runs below.

## 2. The modules

| Module | What it models |
|---|---|
| `SingleFlight` | Abstract: what a coalescer promises, without locks or channels |
| `InflightGroup` | `coalesce.go`, one action per section under the mutex and per access outside it |
| `Middleware` | EXTENDS `InflightGroup`: `Engine.Middleware`, per request, over a store known by its contract |
| `Prefetcher` | EXTENDS `Middleware`: queue, workers, `execute`, `Engine.Close`: the whole engine |
| `LossyMap` | Abstract: a map that may forget, what the middleware asks of any `Store` |
| `TieredStore` | `store_tier.go`, one action per atomic access and per L2 call |
| `ShardedStore` | `sharded_store.go`: rings by the records laid out in them, index by offsets |
| `EndpointRegistry` | `endpoint_index.go`, one action per atomic store and per section that nothing can interrupt |
| `MarkovPredictor` | Abstract for the next one, and `predictor.go` itself: the predictor under one lock |
| `DensePredictor` | EXTENDS `EndpointRegistry`: `predictor_dense.go`, one action per atomic access and locked section |
| `ResponseWriter` | `response_writer.go` under a handler, and what the middleware does with it at the end |
| `BrowserCache` | `precog.js`, one action per stretch between two awaits |
| `MC*` | sets, kinds of requests and responses and symmetry for TLC (`InflightGroup` and `ResponseWriter` need none) |
| `*Proofs` | theorems about `InflightGroup`, `Middleware`, `Prefetcher`, `TieredStore`, `ShardedStore`, `DensePredictor` (with `EndpointRegistry`), `ResponseWriter`, `BrowserCache` |

### Reading a module next to the code

*InflightGroup.* `stage[c]` is where call `c` is in `DoContext`; an
`inflightCall` is named by the caller that created it, so `result[c]` is its `entry`
and `err` and `c \in done` says that its channel is closed. The 64 shards only split
one map. `Lead`/`Join` are the first locked section, `FnReturns`/`FnPanics`/
`FnExits` the three ways `fn` may end, `Unregister` the second locked section,
`Close` the error of a panic, the channel and the return (one step: nobody may read
`err` before the channel is closed), `Wake`/`Abandon` the two arms of the waiter's
`select`. A caller outside of `Cancellable` is one of `Do`.

*Middleware.* `at[c]` is the place in the function. Each lookup, each flight step and
each queue send (with its look at `closed`) is a step of its own, and so is the second
`Set` of a response that varies; a handler run and the first `Set` of what it wrote are
one (`LeadUpstream`, `DirectUpstream`, `Warm`), since a run touches nothing shared. A client's request is a record
(`KindType`) of what the code looks at; a response (`ResponseType`) likewise. A
response is named by the caller whose handler run wrote it, so `got[c]`, `stored[k]`
and a flight's result say *whose* response someone holds. `Found`/`Put` are
`Store.Get`/`Set` by contract: anything once set under the key may be found, or
nothing; with `Reliable` the last one is found. `FnExits` of the coalescer is not
used here: `net/http` handlers that end their goroutine are outside this model.

*Prefetcher.* A job is a further caller; `ready`, `exited` and the running jobs are
the worker pool. A job's `kind` is that of the request that predicted it with the
predicted resource and no client directives, as `triggerPrefetch` copies headers
and cookies.

*TieredStore.* Each operation `o` is one call. Entries and L1 items are named by the
call that created them; a slot's item is complete before the slot points to it
(`SlotsFilled`). `gone`, `before` and `since` are history variables for the
properties and guard nothing. `Serial` and `MayOverlap` say which keys' calls clients
keep apart; with `Serial = {}` every overlap is allowed. L2 is any store: it may
refuse and evict when `MayLose`.

*ShardedStore.* A record has its byte offset `at`; sizes are bytes; `Word16` and
`Word32` stand for 2^16 and 2^32, and every cast of the code is a `%`. `Get` is an
operator, since it changes nothing. `Garbled` is what is read from an offset where no
record begins, or with a truncated length. A `Set` may have read the clock at any
earlier time because it waits for the lock afterwards.

*EndpointRegistry.* `patterns` and `reverse` are the two published tables, `None` for
what is not in them. `Ask` is the lock-free fast path; `Register` is the locked
section up to `count++` (with the lock held nobody else writes), and the two stores
of the copies are a step each, since lookups and `Pattern` do not take the lock.

*DensePredictor.* `pc[t]` and `job[t]` are where a goroutine is in `Record`,
`rescaleRow` or `Predict`, and its locals. `BeginRecord` and `Registering` run the
registry. `MoveSession` is the section under the shard's lock, `AddCell` and `AddTotal`
the two atomic additions, `RescaleLoad`/`RescaleStore`/`RescaleTotal` the loop, and
`LoadTotal`, `LoadCount`, `Scan`, `Rank`, `Name` the reads of a prediction. `raced` and
`disturbed` are history: which rows a rescaling has shared with other writers, which
predictions had their row written under them.

*ResponseWriter.* Bytes are numbered in the order the handler writes them, so loss,
repetition and reordering show. `wire`, `wireStatus` and `heads` are what the server
sent. `eventStream` stands for a streaming content type or an `Upgrade` header.
`plain` is the code `net/http` itself would have latched; `rewritten` and `late` mark
the handlers that the properties exempt, and say why in their comments.

*BrowserCache.* Caches are numbered: `caches.delete` takes the name off a cache, and a
task that holds the object goes on using it. `job[t].from` is the object a task has
awaited an answer of, `cache` is `precogCache`, read anew after each await as the code
does. `Record` starts a prefetch inside the step that calls it. `carried` and `swept`
are history: who was on the network when a reset ended, and for whom it swept.

Operators whose comment begins with "Fault:" are not part of any specification. Each
is a definition with a plausible bug in it, and records which property notices: see
"mutants" in `PROJECT.json`.

### Assumptions and abstractions

- Equal 64-bit key hashes are equal keys (the code assumes so too).
- Entries are immutable once stored. They are not quite: see the hazards at
  `sharded_store.go:219`.
- Clocks are monotone; a step reads one clock. In `TieredStore` an entry has one
  expiration: that `ShardedStore.SetByHash` stamps `ExpiresAt` a second time, a moment
  later, is left out. So are a `Set` without time to live of an entry that brings an
  `ExpiresAt` along (L2 keeps it, L1 does not; no caller in the repository does this) and
  one entry stored under two keys (the middleware does, with one time to live).
- A client goes away while its request waits on a flight: nothing else in the modelled
  code looks at the context, so an earlier departure is one at the first wait. What a
  handler makes of a context that ends is in its response (`whole`), which `DirectUpstream`
  allows for every `Cancellable` request; only `PartialWarmed`, of a job, has such responses.
- `FieldsFit` of `ShardedStore`: shards below 2 GB, responses below 4 GB, content
  types below 64 KB. The code checks none of the three.
- Keys, headers and bodies are values the properties can tell apart; the normalizer
  and header parsing are not modelled.
- In `Middleware` and `Prefetcher` the predictor may return any set of at most three
  predictable resources; `DensePredictor` is not composed with them.
- Of a session's history only the last step is ever read, so it is all that is kept;
  `Sessions` are those of one shard. `hydrateCall` and `reconstructCall`, which put ids
  and queries into a predicted call, are not modelled.
- JavaScript is one thread: what a task awaits takes effect in the step in which the
  task goes on. Deletions nobody awaits (`precog.js:185`) take effect later.
- A reset begun before the first `caches.open` has answered does nothing, in the code
  and in the model; it does not count as one that swept.

## 3. The runs

| Run | Instance | Shows |
|---|---|---|
| `Inflight` | 3 callers, 2 keys, all may panic, exit or hang, two may be cancelled and one calls `Do` | `OneFlightPerKey`, `SharedResult`, `PublishedResultStable`; refinement of `SingleFlight`; `EveryCallReturns`, `CancelledWaiterReturns` |
| `Middleware` | 3 requests, 2 users and strangers, plain and public routes, 2 variants, 8 kinds of requests, 3 of responses (plain, public and varying, streamed), panics, clients that leave, per-user flights | `Isolation`, `LookupsMatchVary`, `NoCacheRunsFresh`, `OncePerRequest` |
| `EngineClose` | 2 requests, 2 jobs, 1 worker, panics, clients that leave, a store that keeps what it is given, `Close` at any time | the pool and the queue, `QuietAfterClose`, `Isolation` through prefetches, `OneRunPerResource`, `CloseReturns`, `EveryRequestAnswered` |
| `Tiered` | 4 calls, 2 keys in one slot, expiry, eviction, refusal, `Close` | types and `SlotsFilled`; `RightKey`, `NeverExpired`, `FreshWhenSerial`, `DelSparesOthers` |
| `Sharded` | 3 keys, 2 shards, 3 sizes, expiry, `Close` | `RingBounded`, `IndexSound`, refinement of `LossyMap` |
| `Dense` | 2 goroutines, 5 records, 1 prediction, 3 routes for 2 IDs, 2 sessions for 1 place, rescaling at 2 | `IdsAgree`, `IdsStable`, `RightNames`, `RowsAddUp`, `PredictsExactly`; refinement of `MarkovPredictor` but for rescaling |
| `Writer` | 2 codes, writes of 1, 2 and 4 bytes up to 6, a limit of 3, flushes, hijacks granted or refused | `NothingLost`, `StatusKept`, `EntryWhole` |
| `Browser` | 1 fetch, 2 prefetches, 2 resets, 3 users in turn, an earlier page's entry | `UsesNamedCache`, `OnlyInFlightSurvives` |

Why these bounds: the coalescer's hazards need a leader, a waiter and a later caller
of the same key (three calls), and a second key to be kept apart from. Misdelivery in
the middleware needs a producer and a receiver (two), and a third request that fills
the cache or leads another flight between their steps. A job and a request suffice
for waiting on each other; the second job is the one left in the queue when `Close`
comes. A resurrection in the tiered store takes a Set, a Del and two Gets (four
calls); slots are only interesting when two keys collide. A shard of two small
records or one medium one fills, resets and refuses within three Sets. For the
predictor, one route more than IDs and one session more than places make both bounds
bite; five records bring a row to `RescaleAt` twice, so that two rescalings overlap,
and the prediction may run beside any of it (1.1 million states). There the registry
has as many IDs as the matrix has rows; a valid ID beyond the matrix, and the clamp of
the scan at `maxRoutes`, are covered by the theorems only, which leave the two apart. Six bytes cross the
writer's limit by one byte, by several, and after a full buffer (5,000 states). In the
browser a leak takes a prefetch, a reset and a change of user; the second prefetch and
the second reset race the first ones, the fetch reads what is left (1.7 million).

`Cancellable`, `MayPanic`, `MayClose`, `CoalesceAuthenticated`, `MaxTime`, `QueueCap`
and `Workers` are set in each `.cfg`. Symmetry is used in safety runs only, over calls
and requests that nothing distinguishes. `CHECK_DEADLOCK FALSE` stands in every
configuration because every one ends when its calls are made.

**Fairness.** `FairInflightSpec` assumes only the Go scheduler: a goroutine of the
group that can go on does so. That `fn` ends is *not* assumed, so `EveryCallReturns`
starts where the leader's `fn` is over, and `CancelledWaiterReturns` holds with
leaders that hang. `EngineFairSpec` assumes besides that handlers end and that
workers and `Close` run; it does not assume that jobs are taken from the queue
(`Dequeue` is not fair: a worker's `select` may prefer `quit`), that anything
arrives, or that clients go away. A handler that hangs keeps `Close` waiting, in the
model as in the code.

### Where code and documents disagree

Each of these runs checks one statement of a document, comment or test, and TLC
finds a behaviour of the code that contradicts it.

| Run | Statement | What happens |
|---|---|---|
| `FollowerVariant` | `security_and_correctness_test.go:166` | a waiter is given the leader's variant |
| `PartialWarmed` | `README.md:68` | a prefetch stores what a panicking handler had written, as a 200 |
| `TieredDel` | `store_tier.go:109` | a Get that began before a Del puts the deleted entry back into L1 |
| `ResetLeak` | `README.md:161` | a speculative response under way during `reset()` is stored after it, and answers the next user |

Seen on the way, without a run of their own: a `no-store` request is answered from the
cache (`middleware.go:85` says otherwise); with `CoalesceAuthenticated` a `no-cache`
request shares a flight (against `README.md:71`; `NoCacheRunsFresh` leaves these out);
`Stats` is no snapshot (`telemetry.go:42`); a prediction raced by records can report a
probability above 1 (`predictor.go:17`); the code of a handler whose `Hijack` was
refused and that writes no body is never sent.

## 4. The theorems

All hold for every value of the constants that satisfies the modules' assumptions.

- **`InflightGroupProofs`.** `OneFlightPerKey` and `SharedResult` are not inductive.
  `IInv` adds that the map names exactly the calls whose leaders are between their
  two locked sections, that a held call has a leader of the same key, and that a
  channel is closed last. From it: types, `OneFlightPerKey`, `SharedResult`, the action
  property `PublishedResultStable`, and `Refinement`: every step is a step of
  `SingleFlight` or a stutter, with a flight's outcome settled when its key leaves
  the map.
- **`MiddlewareProofs`.** Lemma `Composition`: every behaviour of the middleware is one of
  the coalescer, so whatever is proved of `InflightSpec` holds of the requests that go
  through it. The four properties of what clients receive are not inductive: an answer
  is as good as the entry or the flight it comes from. `MInv` therefore says of every
  entry of the store that it is finished and fit for its resource (`StoredFit`), and of
  every caller, place by place, what it has looked up, what its flight's result may be
  shared with, what it was given, whether its handler has run, and that `no-cache` keeps
  it out of the cache (`CallerInv`). `CallerInv(c)` reads only what is `c`'s and the
  responses of callers that are finished, so one lemma (`Framed`) shows that a step of
  another caller keeps it, and each action has to be examined for its own caller alone.
  From it: `AnswersIsolated` (`Isolation`), `VariantsMatch` (`LookupsMatchVary`),
  `NoCacheFresh` (`NoCacheRunsFresh`), `HandlerRunsOnce` (`OncePerRequest`). `Isolation`
  of waiters is where the coalescer's own invariant is needed: a waiter's flight has its
  leader's key, and the key says whom the result may be shared with.
- **`PrefetcherProofs`.** A job is one more caller, its steps obey the same frame, and
  all of the above holds of the engine again (`Engine...`), prefetches included. `Pool`
  counts the workers: those waiting, those that have exited and the running jobs
  are all of them, so when `Close` returns none is left for a job (`CloseLeavesQuiet`;
  the counting uses the library's cardinality theorems). `OneSharedRun`: one
  flight of a resource at most makes a response to share. The invariant `Sole` says
  that while a leader who made one is in the books its entry is in the store and no
  other leader of that key makes one or is still about to run: a response is stored
  before its key is given back, and the next leader's double-check finds it. It has
  three hypotheses, each of which the run's instance meets and each of which is needed;
  without one of them TLC shows how a second flight runs the handler:
  - `Reliable`: a store that forgets makes the next leader run again;
  - `~CoalesceAuthenticated`: a user's flight and the anonymous one are apart, and the
    anonymous page, not marked public, that replaces the user's public one is no answer
    for the user who leads next;
  - `Unnegotiated`: a waiter whose client has left runs the handler outside of any
    flight, and its negotiated page of another variant replaces the primary entry.
- **`TieredStoreProofs`.** `RightKey` and `NeverExpired` speak of what Gets returned;
  `IInv` says the same of every slot, every L2 entry and every call about to promote,
  and that an item carries its entry's own expiration. `SerialFresh` (`FreshWhenSerial`)
  needs `FreshInv` besides: calls on a serial key, and `Close`, are under way one at a
  time; neither tier holds what is gone under such a key; and between its steps a call
  can rely on what only others on its key could spoil: a Set that L2 holds its own entry
  or none, a Del that the slot, once swapped, has no item of its key again, a `Close` that
  the slots behind it have no serial key. `OwnStep` is the frame: a call on another key
  only takes an item out of the shared slot. `DelKeepsOthers` (`DelSparesOthers`) says that
  a `Del` does not even do that: what it has loaded is an item of its key, items never
  change once a slot points to them, and the swap is for that item alone.
- **`ShardedStoreProofs`.** `IInv` joins types, the memory bound, records that do not
  overlap, an index that points at records of its own keys, and untruncated lengths.
  The key lemma `SetEffect` shows, from `FieldsFit`, that the modular arithmetic is
  exact, so an append goes behind all records or into an empty ring. `GetReads` then
  makes a Get the one record at the key's offset, and `Refinement` follows step by
  step: the store is a `LossyMap` under the mapping `content[h] = Get(h)`.
- **`DensePredictorProofs`.** Of the registry: `IdsAgree` needs `LockInv` (the mutex names the one
  thread between its counting and its last store, and what that thread has published
  so far) and `AskedInv` (where a thread is says what it asked and was given). Then an
  ID that map and table hold is unique and never changes: `OneIdEach`, `IdsKept`.
  Of the predictor: lemma `UsesRegistry` shows that the predictor's behaviours are
  the registry's, so its IDs inherit both theorems. `DenseInv` adds what a goroutine
  knows at each place (its ID is within the matrix, its loop within its bound), which
  gives `DenseTypes`, the bounds of counters and of sessions among them, and
  `NamesRight`: a route never answers under another one's ID.

  What the counters hold needs sums over a row. `SumUpTo` is a recursive function, so
  its facts (`Sums`, `SumsGrow`, `SumsChange`) are proved without an induction
  theorem: a set of numbers that were not closed under successor would have a least
  member outside (`Least`, from the library's `WFMin`). Arithmetic is that of the code, modulo
  `Word`; the lemmas of `Same` say what additions keep. `CountInv` is the invariant:
  - `Locals` and `Used`: where a goroutine is, its variables name registered routes, and
    whatever is not zero in the matrix is in the row and column of one;
  - `Rows` (gives `RowsSum`, `RowsAddUp` for any width and any number of records): a
    row no two writers have raced for adds up, or one rescaling is alone with it and its
    sum is that of the columns its loop has passed;
  - `Scans`: a scan nobody disturbed has read the row as it still is, and beyond the
    number of routes it goes up to the row is empty;
  - `Bounded`: there is a history of transitions counted, none twice, that bounds every
    counter; a rescaling leaves at most half of it in the total, so a total is at most
    half of that plus the records begun.

  `PredictionsExact` (`PredictsExactly`) and `LockFreeAsLocked` (`ImplementsMarkov`) have
  the hypothesis `Unwrapped`, 3 * `MaxRecords` < 2 * `Word`: fewer than 2.8 billion
  calls of `Record`, a third more than it takes a row to be rescaled at 2^31 - 1. Without it
  goroutines may add to a row while its rescaling stands still until the counter goes
  round, in the code as in the model. The instance of `Dense` satisfies it (15 < 32) and rescales.
  `LockFreeAsLocked` follows by cases: the step in which a session moves is the
  locked predictor's `Record` and pushes out the same session; the two additions move a
  count that the mapping showed before; a route that enters the registry brings a row
  and a column of zeros (`MarkEnters`, from `Used`); rescaling is `Rescales`.
- **`ResponseWriterProofs`.** The invariant adds the recorder's modes to the properties:
  the header is committed before any byte, what overflowed streams, the recorded code
  is the one `net/http` would have latched. The lemmas on sequences say that chunks in
  order make the whole; `BytesKept`, `CodeKept` and `EntriesWhole` hold for any limit.
- **`BrowserCacheProofs`.** `OnlyInFlightSurvives` is not inductive: `BInv` adds, for
  each task, whose response it waits for and which cache object it holds, for each
  reset half done, what it may adopt from another one, and that caches not yet made
  are empty. That there are numbers enough follows from counting the resets that have
  deleted (`Numbered`, with the library's cardinality theorems).

**Model-checked only.** Liveness (`EveryCallReturns`, `CancelledWaiterReturns`,
`CloseReturns`, `EveryRequestAnswered`), which the prover does not reach: it has no
`ENABLED`. Every safety property, action property and refinement of a passing run is
the statement of a theorem.

## 5. Plan

Done, in this order: the coalescer and its abstract specification; the middleware; the
prefetcher and the engine; the tiered store; the sharded store and `LossyMap`; the
endpoint registry, the dense predictor and the Markov predictor it implements; the
response writer; the browser client.

Then the theorems, in the same order, down to the middleware's isolation, the engine's
single shared run, the tiered store's freshness and the predictor's counts.

Worth adding: a bound on a row's total when the scheduler lets every rescaling finish,
in place of `Unwrapped`. A refinement of `LossyMap` by the two-tier store would add
nothing: `LossyMap` lets any value be set at any time, and `FreshWhenSerial` says more.

## 6. Not modelled

| Part | Why |
|---|---|
| `normalizer.go`, `hydrateCall`, `reconstructCall`, the URL rules of `execute` | functions on strings without state; the models begin where their results, patterns and resources, are compared |
| `telemetry.go` | four counters nobody else reads; see the hazard at `telemetry.go:45` |
| which URLs `precog.js` predicts, and when | the fallback table, the loading of the WASM module and the hover timer only choose among what `BrowserCache` allows anyway; speculation rules are output |
| `client.go`, `cmd/wasm`, `wasm_exec.js` | static files, a bridge one goroutine uses, Go's own glue |
| `store_ristretto.go` | forwards to a third-party cache, again a map that may forget |
| `encodeHeaders`, `decodeHeaders`, `WriteResponse`, header copying | formatting; `ShardedStore` takes the two codecs as inverse within the widths of `FieldsFit` |
| the map of headers as shared memory (`sharded_store.go:219`) | a data race whose outcome is a runtime abort, not a state |
| `cmd/testserver`, `scripts` | a demonstration and a smoke test |
