# A formal model of node-vtex-api

`@vtex/api` is the runtime of the Node services of VTEX IO: a cluster of worker
processes with HTTP, GraphQL and event routes, and an HTTP client (single flight,
memoization, caches, retries, cancellation) through which every handler talks to
the platform. This directory holds TLA+ modules of the parts whose behaviour
depends on interleaving, failure and time, the TLC configurations that check them
on small instances, and theorems that TLAPS proves for every instance.

Paths below are relative to `src/src/` unless they begin with `src/`.

To repeat a check: `tlc -config Retry.cfg MCRetry`; to repeat a proof:
`tlapm ClusterProofs.tla`. `PROJECT.json` lists the runs with their modules and
configurations, the faulty variant each property rejects, the source lines behind
each definition, the hazards, the findings and the theorems.

Contents

1. Inventory of the system
2. Modules, and how they correspond to the code
3. Runs, bounds and what they show
4. Fairness
5. Proofs
6. Disagreements between the code and what is said of it
7. What is not modelled
8. Plan

## 1. Inventory of the system

### Processes

A *master* (`service/master.ts`) forks the *workers* and replaces those that die.
A worker (`service/worker/index.ts`) loads the app once, builds its routes and
serves requests on one event loop. Everything below lives in a worker, so "shared"
means shared by the requests of one worker; nothing but messages and signals
crosses processes.

| Component | State it keeps | Operations | Hard part | Correct when |
|---|---|---|---|---|
| Cluster (`service/master.ts`, `worker/listeners.ts`) | workers, online count, handled signal, timers | fork, online, exit, disconnect, signal, timeout | two events per death, in either order; deaths during shutdown | full strength is kept, the first worker announces, a signal always ends the service |
| Rate limits (`rateLimit.ts`, `tokenBucket.ts`) | counters and buckets per process and route | enter, reject, admit, leave, refill | rejection, failure and abort between two counters | counters are exact, limits hold, only admitted requests pay |
| Single flight (`middlewares/inflight.ts`) | module-wide map from key to promise | lead, follow, settle | requests of different clients meet; failures | one fetch per key, everyone on it gets its outcome |
| Cancellation (`cancellationToken.ts`, `requestStats.ts`) | per incoming request: cancelable, source | ask, abort, write | abort racing a write, or a shared flight | an abort cancels only its own calls, and none after a write |
| Memoization (`memoization.ts`) | per incoming request: key to promise | hit, fill | an answer in flight is a hit too | reads repeat within a request |
| Recorder (`middlewares/recorder.ts`, `utils/recorder.ts`) | per incoming request: metadata by path | record, flush, clear | answers got from a memo or a flight | every answer used is recorded |
| Response cache (`middlewares/cache.ts`) | storage layers | look up, revalidate, store | 304s through two layers, variants by segment, stale data | entries reach their audience only, and are fresh |
| Disk LRU (`caches/LRUDiskCache.ts`) | index in memory, files, locks, key to be deleted | get, set, dispose | removals queued behind later writes; failures; restart | the last write is read, live files stay |
| Attempts (`request/index.ts`, `setupAxios/`, `utils/retry.ts`) | slots, retry counts | attempt, back off, give up | answers lost after execution; queues | slots come back, writes are not repeated blindly |
| GraphQL route (`service/worker/runtime/graphql/`) | executable schema, document cache | update schema, extract, execute, respond | version compared before an await; shared cache control | nobody runs on an older schema without cause; answers cached no wider than allowed |
| Request pipeline (`runtime/http/`, `runtime/events/`, `runtime/builtIn/`) | context of each request; gauge and statistics of the worker | arrive, wait, handle, fail, unwind, respond, close | errors, rejections and aborts between middlewares; a connection closed before, with or after its pipeline | gauges come back to what is under way; headers agree with how the request ended |
| Clients (`clients/`) | none, but keys into shared maps | one request per method | two methods whose keys collide | whoever fetched it, an answer is of what was asked for |
| Metadata of apps (`clients/infra/Apps.ts`) | a list on disk, refreshed while it is served | read, refresh, record | `ignoreRecorder` through a shared memo; lists kept in memory for each locale, under one copy for all | what is answered is recorded; a copy goes back for a known cause only |
| App versions (`utils/appsStaleIfError.ts`) | saved version of each app | save | concurrent saves, version ranges | a version is lowered by overlap only |
| VBase conflicts (`MineWinsConflictsResolver.ts`, `VBase.ts`) | none; the conflict of a file and the list of conflicts, memoized or kept | read, resolve, patch | someone else resolves it meanwhile; answers older than the read; a side without content | the merge keeps mine; a read fails for a known cause only |
| Metrics (`metrics/`, `service/metrics/`) | gauges, statistics to flush | observe, flush | the end of a request is seen twice | nothing counted twice or lost |
| Telemetry (`service/telemetry/client.ts`) | clients, promise of initialisation | initialise | none: awaited once before anything else | - |
| Messages loader, logger, tracing, utilities | little or none | pure functions, output | data, not order | - |

### How they interact

```
client -> worker -> [replica limit, route limits, context, ...] -> handler
                                                                     |
                                     the HttpClient of the request <-+
                                                  |
     memoization -> recorder -> cancellationToken -> singleFlight
                                                  |
     memory cache -> disk cache -> slots and retries -> origin
```

The maps of memoization and of cancellation belong to one incoming request; the
table of flights, the caches, the slots, the limits and the GraphQL schema belong
to the process, and that is where requests meet. An incoming request can end in
four ways that touch this state: an answer, an error, a rejection by a limit, and
the abort of its client.

The interleavings are those of one event loop: a handler runs without
interruption from one `await` of I/O to the next. An action is such a run; a
second action begins where another request, a timer or an answer may come first.

## 2. Modules, and how they correspond to the code

An `MC` module gives a component its small instance. Operators with an underscore
(`Settle_NoReject`, `Size_WholeRate`) are faulty variants, each named for what it
gets wrong; no specification uses them.

### FlightTable, SingleFlight

`FlightTable` is the abstract promise of request coalescing: a key has at most one
flight, calls board it while it is in the air, and landing gives all of them one
outcome. `SingleFlight` is the code of `inflight.ts` and `cancellationToken.ts`.

| Model | Code |
|---|---|
| `inflight`, `promise` | the module's map and the promises in it, named by the call that made them |
| `Call` = `Solo`, `Lead`, `Follow` | the three ways through `singleFlightMiddleware` up to its first await |
| `AskCancellation`, `DropToken` | the token the call is given, and `cancelToken = undefined` on a shared flight |
| `Settle` | resolve or reject, with the deletion of the key in `finally` |
| `Return`, `SoloReturns` | the continuation of a follower or leader, and of a call without key |
| `ClientAborts` | `requestAborted` of `requestStats.ts` and the token of its request |
| `OriginAnswers`, `FetchFails`, `FetchAborted`, `OriginUpdates` | what lies below, external |

The refinement mapping takes `aboard[k]` to the calls whose flight is the promise
under `k`, and `verdict[c]` to the state of that promise.

### MemoizedClient

Extends SingleFlight with the chain above it: `memoization.ts` and `recorder.ts`.
`Descend` misses the memo and stores a promise, `Hit` finds one, `Ascend` is the
way back through the recorder, which settles the memo, and `Resume` is the
continuation of those that waited for it. A memo lives as long as the clients of
one incoming request. All calls of SingleFlight go through it.

### ClientRequests, SharedAnswers

`ClientRequests` is the catalogue of the requests that the methods of
`clients/infra`, `clients/apps`, `clients/janus` and `clients/external` make, with
no state: for each the client and its base, the URL in parts, the parameters, the
verb, the form of the answer, the flight key (`ByUrl` for `inflightURL`, `ByQuery`
for `inflightUrlWithQuery`), where it may be cached, whether it is memoized, whether
a 404 is null and whether conflicts are detected. `CacheKey` and `FlightKey` are
`cacheKey` of `cache.ts` and `inflight.ts`; `Resource` is what an answer is about.

`SharedAnswers` runs any of them, on behalf of incoming requests of any context,
through everything that may answer one call with what another fetched: the memo
(`Memoized`), the table of flights (`InFlight`), the memory and the disk layer
(`FromMemory`, `FromDisk`), the origin. The layers themselves are those of
MemoizedClient and HttpCache in less detail: freshness and expiry are choices here.

### InfraCalls, AppsStale

`InfraCalls` names what both models of one infra client share: the calls of a
method, and the incoming request each is made for, whose client and memo it uses.

`AppsStale` is what the Apps client keeps by itself. `Read` is `getAppsMetaInfos` up to its first
await after the disk: a call that finds a copy answers with it and asks again all
the same, with `ignoreRecorder`. Its request goes through the memo, single flight
and the memory cache of the client, if it has one (`HttpClient.ts:113`): `Started`
is what memory says, for the key of the locale, to the leader of a flight;
`ArriveFromMemory` ends a flight it answered, `Serve`, `Arrive` and `Fail` one that
was sent. Each landing settles memos, records and stores. `Expire` is the end of an
entry's freshness as well as its eviction, at any moment; a stale entry confirmed
by a 304 is as good as a new answer, so that none is kept. Which answers memory
keeps is a choice of `Arrive`, for their headers decide. The key on disk
(`Apps.ts:457`) has no locale. `SaveStarts` and `SaveEnds` are
the two halves of `saveVersion`, with the await between read and comparison.
Things worth knowing that the model shows: calls answered by a memo store what it
holds again, so the copy may go back long after; so may a call of one locale with
the older list that memory still keeps for it, over what a call of another locale
has stored; comparing with a saved `"N.x"`
throws in a promise that nobody waits for; and `getAppFile` returns its promise
inside `try` without `await`, so that its fallback never runs and saved versions
are only ever written.

### VBaseConflicts

`getRawJSON` and `MineWinsConflictsResolver`: a read that meets a conflict
(`GetRawJSON`), the list of conflicts, the merge and its PATCH (`Resolve`), which is
not awaited (`ResolutionLands`),
and saves and deletions in the workspace and in the master at any moment.
The read shares the single flight of its URL with other incoming requests
(`VBase.ts:99`), so that a 409 may be older than the first read of its request:
`asked` is that flight, which `ReadArrives`, `ReadFails` or, where memory holds an
answer for the locale, `ReadFromMemory` ends for all who wait (`Settle`). The list of
conflicts has no flight key, but a memo and the memory cache, so that it may be
older than the conflict. `Merge` is the merge
of the code, for objects of scalars and lists and for lists of objects compared by
their item keys, with what is peculiar to it: a falsy value of mine is dropped,
a scalar updated only in the master loses to the untouched one of mine, two
items that both lack a comparable key count as alike, and of equal items of a list
only as many go as the base has, one for each (`Occurrences`), so that mine may keep
an item the master deleted. `InOrder` says the rest stays where it was: it is
embedded in the merged list, in order, with nothing new before its last item. The list of conflicts is
memoized per incoming request, and so is the 409 that a second read then meets.
A side that was deleted, or whose content was omitted (`Bare`), is parsed as `{}`
(`Parsed`): for a file that is a list the merge then throws (`Throws`) and the read
fails with a TypeError, unless it is the master's side, where a list becomes an object (`Indexed`).
Where the resolution is expected is the `data` of `getConflicts`, whose shape is
VBase's.

Left out: what a read without conflict returns; objects within objects
(`MineWinsConflictsResolver.ts:130-136`); contents that are not JSON, which are
replaced whole. It is assumed that VBase gives each side of a conflict as an object,
with the type `application/json`. That the list of
conflicts is not found says that there are none: a 404 takes the same path as an
empty list (`VBase.ts:122`). Asking for the list is one step, as nothing is read
before it that is used after, but the memo of the request. Segments, and layers
below memory, are in HttpCache.

### RateLimiter

One worker's view of `concurrentRateLimiter`, `perMinuteRateLimiter` and the
bucket hierarchy of `tokenBucket.ts`. A request goes through `Enter` (replica), `RejectConcurrent`,
`RejectPerMinute` or `Admit` (route), `Finish`, `LeaveRoute` and `Leave`, each of
them what the code does between two awaits, with its `finally`. `Abandon` is the
cancellation of the request. Buckets are kept in credits, `Minute` to a token, so
that continuous refill is exact in integers. It is checked below RequestPipeline.

### RequestPipeline

The middlewares of `startWorker` around and below those limiters, for public and
private routes, events and built-in handlers.

| Model | Code |
|---|---|
| `Arrive` | everything synchronous: metrics, the limits of the replica, recorder, routers, context, token, `requestStats`, vary |
| `AwaitFails`, `Start` | the awaits before the handler: settings, or the body of an event |
| `Unrouted`, `BuiltIn`, `TurnAway`, `Skip` | requests that end before a handler of the app: no route, a built-in handler, a limit, a cancellation seen by `compose` |
| `Read`, `Write`, `TakeBody`, `HandlerEnds` | what a handler of the app does that the worker can tell |
| `Returned`, `Failed` in `Unwind` and the actions above | the way back: `removeSetCookie` and the recorder's flush, or `error` |
| `Respond`, `Sent`, `ClientAborts` | the end of the pipeline, and the two ways its connection closes |

What the code does, and the model keeps: a request limited or cancelled only gets
its status, and keeps the headers it had; any other error loses metadata and etag,
and is public for two seconds in production, not cached elsewhere (`"short"`
stands for both); `removeSetCookie` and the flush of the recorder come after an
`await next()` without `finally`, so an error answer may keep a cookie; the tokens
`vary` deletes from the headers are still in `ctx.vtex`; a handler without
`ctx.vtex` makes the error middleware fail itself, and koa answers; Node closes an
incoming request once its body is read (Node 16 and later), so that
`incomingRequestStats.closed` counts it while it is still handled. Left out:
`aborted` (a subset of `closed`), the deterministic variant of vary, timings, the
broadcast of status tracking. `addOtelRequestMetrics` keeps the same books as
`addRequestMetricsMiddleware`, after a wait for instruments that is over before
the first request. Interleaving is restricted by `Running`: a request that awaits
nothing runs on.

### HttpCache

A call walks down the layers of its client, reads each (`Lookup`, `Hit`, `Pass`),
reaches the origin, and walks up again, writing each (`Ascend`). The model keeps
all the header logic of `cache.ts`: `Fresh`, `Revalidated`, `Lifetime`,
`Forbidden`, `AgeOf`, `ExpirationOf`, `SlotOf`. An etag identifies a body and is
represented by it. `notFound.ts` is `Accepts`. `Evict` stands for lru-cache. After a
304 a layer takes the data to be of age 0 (`cache.ts:210`), whatever age it came
with: an entry with an etag may live longer than its data by that age, which is
`AgeForgotten` in `FreshEnough`.

### LRUDiskCache

`get`, `set` and `deleteFile` of `LRUDiskCache.ts`, cut at their awaits:
`GetMisses`, `GetFinds`, `GetReturns`, `SetStarts`, `SetResumes`, and one action
for each job that holds a lock (`ReadFile`, `WriteFile`, `WriteFails`,
`RemoveFile`). The index is the lru-cache package, a sequence of keys in order of
use; a lock is its queue. `Restart` forgets memory and keeps files.

### Cluster

`startMaster`, `onOnline`, `onExit`, `handleSignal` with its timeout, and the
workers' own `handleSignal`. A death is two events for the master, exit and
disconnect, in either order; only after both does the worker leave
`cluster.workers`. `worker.kill` sends the signal and no more, as in Node 16 and
later (the repository is published with 22); with an older Node
`exitedAfterDisconnect` would be set and `onExit` would not fork.

### Retry

`requestMiddleware` with the limit of the client (p-limit), the interceptor of
`exponentialBackoff.ts` and the conditions of `utils/retry.ts`. A slot is held
from the first attempt to the end of the last, backoffs included. The origin may
execute an attempt before the client gives up on it (`OriginExecutes`) or after
(`OriginExecutesLate`), or never.

### GraphqlService

The GraphQL route. `Arrive` compares versions and may go to fetch a schema;
`Updated` and `UpdateFails` come back from there; `ExtractQuery` reads, finds or
validates the document and starts executing it with the schema there is then;
`Resolve` is one field, directive and resolver; `Respond` is `graphqlError` and
`response` on the way back. `rivals` is a history variable: who was still fetching
a schema when this request had its own. An error of one resolver among many is
part of a response whose headers the others have set; `Settled` is what
`graphqlError` makes of them.

## 3. Runs, bounds and what they show

Every property of a passing run is violated by a faulty variant of the code under
the bounds of that run, so the bounds do reach the cases the property is about.

| Run | Instance | States | Shows |
|---|---|---|---|
| `memoized_client` | 4 calls of 2 incoming requests, 1 flight key, 1 update of the origin | 83 thousand | repeatable reads, complete records, one flight per key, refinement of `FlightTable`, cancellation confined and ended by writes, every call returns |
| `client_requests` | 2 calls of any methods of all clients, 2 incoming requests, 2 accounts, 2 locales, symmetric incoming requests | 1.27 million | answers are of what was asked for; forms mixed only among readers of files; writes and streams never shared; what is kept is kept for its locale |
| `apps_stale` | 4 reads of 3 incoming requests of 2 locales, one refusing copies, memory cache, 1 change; 3 saves of 2 versions and `"N.x"` | 2.5 million | answers are recorded; a copy goes back only by a memo, or by memory of another locale; a version is lowered only by overlap |
| `vbase_conflicts` | 3 reads of 2 incoming requests of a locale, memory cache, all triples of 4 objects and of 5 lists and of none, 2 saves or deletions | 3.88 million | what a merge keeps; a read fails for its conflict only if the list of conflicts is of another state, and for the merge just when a list has no base or no mine |
| `request_pipeline` | 5 requests on a public route with settings and both limits, a private one, an event and a built-in one; minute of 2 ticks, 2 ticks | 886 thousand | exact counters, limits, tokens only for the admitted, bound on a minute; gauge and statistics exact; headers agree with the end |
| `http_cache` | 3 calls of 2 segments, memory or memory over disk, 4 header policies (one with age and etag), 1 update, 3 moments | 2.4 million | audience of entries in every chain; freshness and monotony of answers for one layer |
| `http_cache_not_modified` | 2 calls, memory over disk | violation | a 304 is stored as data (section 6) |
| `lru_disk_cache` | 1 get, 3 sets, 2 keys, capacity 1, 1 fault (a restart or a failing removal; reads and writes may always fail), 3 moments | 927 thousand | the last write is read, indexed keys have files, files without owner only by overlap, operations end |
| `cluster` | 2 workers or a linked one, 1 crash, 1 signal, 5 forks, 1 request | 83 thousand | full strength, shutdown ends with no worker left, recovery |
| `cluster_in_flight` | deployed, 1 signal | violation | requests are cut by shutdown (section 6) |
| `retry` | 3 calls, 1 slot, 1 retry | 59 thousand | slots, repeated writes, every call ends |
| `graphql_service` | 2 requests, 4 versions of 2 majors, one broken, 5 kinds of request | 97 thousand | whose schema is executed, validation, cache control, errors, answers |

Why these bounds are enough.

* `memoized_client`: two calls of one request and two of another are the fewest in
  which a flight has members of both and a memo of each is in use; a version
  updated once suffices to tell two answers apart.
* `client_requests`: a key collides between two calls or not at all, so every pair
  of methods is enough; longer chains of followers are covered by the proof.
* `apps_stale`: two reads of one incoming request, so that one is answered
  by a memo another call has led while other requests are on their own flights; one
  read of each of two more, of either locale, so that memory answers a request that
  has no memo with what one of its locale fetched before another stored a newer
  list; one change tells two lists apart. Three saves are the fewest of which one overlaps two.
* `vbase_conflicts`: scalars falsy and of two truthy values, objects with and without
  a list, lists with items of the first key, the second, and of one never compared,
  and two equal ones, and a side without content. What saves bring is one content
  (`Saved`) or a deletion, and there are two of them (`MaxChanges`), as the triples
  the file begins with are all there are; resolutions come on top. One change is a
  resolution by someone else between two answers; two reach a list older than the
  conflict. Longer lists, and more locales, are covered by the proof. A second read
  of one incoming request meets the memoized conflict; the third rides its flight, or
  finds what it left in memory.
* `request_pipeline`: limits of one and two and two requests of the limited route
  fill every counter and let a rejected, a failed and an aborted request overlap
  with an admitted one, next to routes that only count in the replica. A minute of
  two ticks has a beginning, a middle and an end. Styles of one handler suffice:
  it sets an etag, a public cache control and a cookie, all that an error or a public
  answer must lose.
* `http_cache`: a stale entry needs one update; a race between two writers needs
  two calls, and a third to read what they left. `FreshEnough` and
  `ReturnsWhatItHeard` are stated for one layer: with two, an inner layer restarts
  the age of what the outer one gets, by design of the code.
* `lru_disk_cache`: capacity one makes every second set evict; two sets of one key
  and one of another are the fewest that evict a key between the two steps of a set.
* `cluster`: 2 workers, 1 crash and 1 signal make at most 2 + 1 + 2 forks before
  the timeout, so the bound on forks never stops `onExit`.
* `retry`: one slot and three calls have a queue of two behind a retry; one retry is
  the shortest path with a backoff, and its last attempt is also its second.
* `graphql_service`: two requests are the fewest that race; the order of versions of
  one major is a chain of three. Chains of rivals among more requests are covered
  by the proof, which has no bound.

Cfg files with `CHECK_DEADLOCK FALSE` are of systems that stop when their bounded
number of calls has ended.

## 4. Fairness

Fairness is asked only of what the program or its platform is bound to do; nobody
is obliged to call, to abort, to update data, to crash or to send a signal.

* Continuations (`Settle`, `Return`, `SetResumes`, `Respond`...): an event loop runs
  what is ready. Weak fairness per call or request.
* Fetches: axios is always given a timeout (`request/index.ts`), so an attempt is
  answered or fails. Weak fairness on the disjunction of both, never on success.
* Disk jobs: the file system answers, with an error perhaps.
* Backoffs and the shutdown timeout: timers fire.
* Workers: a forked process comes online, and gets the signals it is sent.
* GraphQL: the resolvers are the app's; that they end is an assumption, which the
  timeouts of the clients they call justify.

Under these, TLC checks `EveryCallReturns`, `EveryOpEnds`, `EveryCallEnds`,
`EveryRequestAnswered`, `ShutdownEnds` and `Recovers`. Liveness is not proved.

## 5. Proofs

TLAPS checks the following for every value of the constants that meets the named
assumption of the module. Each rests on an inductive invariant; the properties
themselves were model-checked on the instances first.

| Module | Of | Assumes | Properties proved |
|---|---|---|---|
| `MemoizedClientProofs` | SingleFlight, MemoizedClient | `CallsAssumption`, `MemoAssumption` | `OneFlightPerKey`, `CancellationStaysHome`, `NoCancelAfterWrite`, `Coalesces`, `RepeatableReads`, `EveryAnswerRecorded` |
| `RequestPipelineProofs` | RateLimiter, RequestPipeline | `LimitsAssumption`, `PipelineAssumption` | `CountersExact`, `LimitsHold`, `TokensForAdmitted`, `MinuteBounded`, `GaugesExact`, `AnswersAgree` |
| `ClientsProofs` | SharedAnswers, AppsStale, VBaseConflicts | `InfraCallsAssumption`, `StaleAssumption`, `VBaseAssumption` | `AnswersItsResource`, `MixedOnlyAmongFiles`, `NeverShared`, `KeptApart`, `AnswerRecorded`, `BackOnlyByCopy`, `LoweredOnlyByOverlap`, `FailsForCause`, `MineWins` |
| `HttpCacheProofs` | HttpCache | `CacheAssumption` | `AudienceRespected`, `FreshEnough`, `ReturnsWhatItHeard` |
| `LRUDiskCacheProofs` | LRUDiskCache | `DiskAssumption` | `ReadsLast`, `EntriesOnDisk`, `OrphansOnlyByOverlap` |
| `RetryProofs` | Retry | `RetryAssumption` | `SlotsInUse`, `WritesRepeatOnlyUnanswered` |
| `ClusterProofs` | Cluster | `ClusterAssumption` | `FullStrength` |
| `GraphqlServiceProofs` | GraphqlService | `GraphqlAssumption` | `ServedByNewest`, `RunsOnlyValidated`, `NoWiderThanFields`, `ErrorsDoNotStay` |

The arguments, and why the invariants are what they are:

**SingleFlight** (first part of `MemoizedClientProofs`). `IInv` is `TypeOK`, `MapInv`
(what the map holds are promises of calls still fetching), `FlightInv` (a member of
a flight leads it or waits for it), `CallInv` (what each phase of a call implies),
`AbortInv` and `WriteInv` (who may still be cancelled). One flight per key is not
inductive alone: it needs to know that a leader under way is the one the map names,
which is `MapInv` and `FlightInv` together. The refinement `Coalescing` shows that a
settling promise lands exactly the calls aboard.

**MemoizedClient** (second part). The client implements SingleFlight step by step,
so the theorems above hold of it; then `ReadsRepeat` and `AnswersRecorded` from
`MemoIInv`: `IInv`, `MemoTyped`, `StageInv` (which stage of a call goes with which
of its flight), `StoreInv` (a memo is the promise of its first reader) and
`RecordInv` (what is settled is recorded).

**RateLimiter** (first part of `RequestPipelineProofs`), for any number of requests
and routes. `IInv` is `TypeOK`, `ReplicaInv` and `RouteInv` (a counter is the
cardinality of the requests between its ends), `PaidInv` and `WindowInv` (what a
bucket holds, plus what it let through since the mark, is at most its size plus
what it has earned).

**RequestPipeline** (second part). `WorkerImplementsLimiters`: every step of a worker
is one of RateLimiter or leaves its variables alone, so that `CountersExact` is
inherited (`WorkerCountersCorrect`); `GaugesCorrect` and `AnswersCorrect` rest on
an invariant of its own. The gauge is not inductive alone: it needs what each stage
of a request says of its connection and of whether it is tracked, and that a finite
set loses one member when one request ends. A step of the run waits until `Running`
is empty; the proof does not use that, and so holds for any interleaving.

**SharedAnswers** (first part of `ClientsProofs`). Each theorem says what follows,
for any number of calls in any order, from what the keys of the requests have in
common: `ResourcesCorrect` from `KeysAgree` (requests with one key ask for one
thing), `FormsKept` from `FormsAgree` (requests with one key read the answer alike,
or both read files), `ExchangesOwn` from `NothingKept` (writes and streams have no
key), `LocalesKeptApart` from nothing. The invariant follows the chain from a call
to the one it waits behind. The premises are facts of finite data: with the
catalogue of `MCSharedAnswers`, TLC evaluates `KeysAgree`, `FormsAgree` and
`NothingKept` to TRUE. They are not a property of a run, which shows the conclusions
themselves for two calls of any two methods whose keys could collide.

**AppsStale** (second part), for any number of reads, incoming requests, saves and
changes. `RecordInv`: what a settled memo holds is recorded unless a call that
refuses to record led it, and then that call found a copy, whose metadata it has
recorded. `OrderInv`: at most one flight is under way (`OneFlightInv`); what memory
holds is the last fetched for its locale (`FetchedInv`); and what the disk or a
settled memo has, some locale fetched (`Known`). A flight the origin answers brings
what is as new as any of these; one that memory answers, what its locale fetched last
(`FlightOrder`), as nobody fetches while it is under way. A list therefore goes back
only when a call stores what an older memo holds, or a flight ends that memory
answered, after another locale fetched a list as new as the disk's: `BackByCopy`.
`LoweredByOverlap` needs types only: the comparison of `saveVersion` is with what it
read, so a lower version replaces one that was not there when it read.

**VBaseConflicts** (third part). `MergesWin` says of a merge of any three contents,
with lists of any length and any comparable keys, what the run shows of short ones.
The merge folds over lists, so this is an induction over data. No induction theorem
of the library can be used, as each takes an operator as a parameter; but that
inclusion of finite sets is well founded is stated of plain sets, and from it follow
`LeastNumber` (a set of numbers has a least one) and `Upwards` (what holds of 0 and
of each next number holds of all up to n). With these, `FoldExists` and `FoldRuns`
turn a fold whose steps keep a type into the list of what it has come to after each
item (`RemovalRuns`, `AdditionRuns`), and `RemovalWins` and `AdditionWins` go along
it: each removal and each addition keeps `InOrder`
(`OrderKeptByRemoval`, `OrderKeptByAddition`), and an item that is to go occurs as
often as in mine, less its occurrences in the base so far (`OneFewer`, `OneMore`).
That what stays of mine is a prefix of the merged list would be too much to
ask: it fails if mine has an item more often than the base, for which the run
has a list with equal items. `MergeWins` puts lists and objects together, and
`FileInv` says that all a read ever merges are contents of the file, those of
resolutions included, as a merge of contents is one.

For the reads, `ConflictInv` speaks of every answer to a read, memoized or in
flight, and of every list of conflicts, memoized or in memory, with the count of
changes it was made at: one made at the present count says what is so now
(`TellKnown`, `ListKnown`), and a conflict and a list made at one count agree
(`Agree`). The list of a request is made after its conflict, unless it is from memory
(`RequestKnown`); a result is that of the list of its request (`ResultKnown`).
`FailsByCause` follows. `ThrowsWhen` and `EmptyList` say when a merge throws: an
empty list of the master's beside a mine without content would let it
pass, but then the base has an item that must go, or there is no conflict.

**HttpCache**, for any calls, segments, stacks of layers, headers and bounds.
`TypeInv` adds to the types where a call may be in its stack. `AudienceKept` rests on
`AudienceInv`, for any stack: a response is for whom its vary header says (`Fits`),
and a stored one is under the key of that audience (`Kept`); the two together are
needed since a 304 takes its headers from one response and its data from another.
`HeardIsReturned` rests on `OneLayerInv`: in a client's only layer what is stored is
whole (`Whole`), and a 304 confirms the very entry its call has read (`Asked`,
`Answered`). `FreshnessKept` adds `FreshInv`: an entry's data was current when its
lifetime began, but for the age a 304 forgot (`Lived`), and what is on its way up
was current as long ago as its age says (`Recent`).

`FreshThroughStack` is the bound for a stack of layers, which no run states: each
layer keeps for a lifetime of its own what the next one had kept for its own, since
an answer out of a cache carries no new age, so that data is returned that was
replaced up to a lifetime per layer ago. `StackInv` says so of every layer (`Lasts`:
an entry ends at most one lifetime, for each layer from its own inwards, after its
data was current) and of every answer on its way up (`Carried`). It supposes that a
stack has a layer once and that answers have no etag. The second is not for the
proof's sake: where memory and disk hold stale entries, memory of the variant of the
segment and both of the shared one, a 304 about the shared one can be stored on disk
as an answer (section 6); a call that finds it there takes it for the confirmation
of what its memory holds, and memory gives that out for a lifetime again, however
old it is.

**LRUDiskCache**, for any operations, keys, capacity and faults. `TypeInv` says that a
lock queues operations of its own key, each once. `ReadsTheLast` rests on
`HistoryInv` (who was over when an operation began) and `FilesCurrent` (no file
holds a value that was over when a set that has written its key began): a lock
makes writes of one key follow each other, but not in the order the sets began.
`EntriesStay` rests on `EntryInv`: an indexed key has a file that no queued removal
follows, or a write to come that none follows, or its write has failed (`Kept`).
`OrphansExplained` rests on `OrphanInv`: a key out of the index has no file, or a
removal to come behind every write, or was dropped by an operation that overlapped
the set of that file (`Gone`, `Lost`, `RemovedAfter`). The last two are for caches
built without `stale`, as the properties are: with it, only one key waits to be
deleted.

**Retry**. `SlotsInUse` is inductive with `QueueInv`, the queue holds each waiting
call once, so that the slot given back goes to someone who needs it. Executions are
bounded by `Spent`: those executed, those given up on and the one under way are at
most one more than the retries counted.

**Cluster**, for any number of workers. `Strength` counts the workers alive and those
whose exit is unhandled; `Announced` ties the online count to the one worker that
was told.

**GraphqlService**. The comparison made before an await says nothing after it; what
is inductive is `Shielded`: the schema of the service *and every one still being
fetched* is as new as a served request asked for, or that request has an older
rival. A newcomer keeps it because it fetches only what is newer than the schema,
which was covered already. For the headers it is `Narrowing`: the hints of a request
are no wider than each field resolved so far, whichever was first, and an answer
reflects its hints after errors have settled them.

Only model-checked: all liveness (`EveryCallReturns`, `EveryOpEnds`, `EveryCallEnds`,
`EveryRequestAnswered`, `ShutdownEnds`, `Recovers`), as the prover reaches neither
ENABLED nor fairness. Every other property of a passing run is stated by a theorem.

Type invariants are proved in the modules of proofs (but for VBaseConflicts, whose
`ConflictInv` types what it needs) and are not properties of the runs; a run's
properties are what could go wrong. The inductive invariants were model-checked on
the instances of the runs before they were proved.

The assumptions type the constants and keep model values apart, and TLC evaluates
each in the runs.

## 6. Disagreements between the code and what is said of it

| Run | Source | What happens |
|---|---|---|
| `http_cache_not_modified` | `HttpClient/middlewares/cache.ts:172` | memory misses its freshness but holds an etag, disk misses altogether, and the 304 meant for memory is stored on disk as an answer, though 304 is not among `cacheableStatusCodes` |
| `cluster_in_flight` | `service/master.ts:63` | "Let's wait for all in-flight requests finish": the workers got the signal before, and exit at once |

Five more follow from properties that hold, and need no run of their own:

* a full bucket of half the rate and a minute's refill let up to one and a half
  times the rate through, which is the bound `MinuteBounded` proves, where
  `rateLimit.test.ts:41` says the size is halved "in order to not overflow amount
  of requests in 1 minute" (`runtime/utils/tokenBucket.ts:7`);
* a set that waits for the removal of an evicted file can be evicted meanwhile: its
  file is removed before it is written and stays for ever, so that files outnumber
  the `max` of `typings.ts:37`; `OrphansOnlyByOverlap` says how and no otherwise
  (`caches/LRUDiskCache.ts:107`);
* a conflict over a list that was deleted, or too large to be given, in the
  workspace or in the base cannot be resolved: the merge throws a TypeError that the
  read throws again (`VBase.ts:135`), and a list that was so in the master becomes an
  object, although `VBaseConflict` has the fields `deleted` and `contentOmitted`
  (`VBase.ts:264`) for a resolver to look at; `FailsForCause` and `MineWins` say just
  when;
* the copy of the list of the apps has no locale in its key, while what it is
  refreshed from has (`cache.ts:16`): a call of one locale may put an older list over
  the newer one of another, by `BackOnlyByCopy` only so or from a memo;
* the flag "to kill the master process after all workers have died" of
  `service/master.ts:60` is never acted on, as every worker that dies is replaced
  until the timeout; `ShutdownEnds` holds by the timeout alone.

Two behaviours that nothing in the repository contradicts, and that properties
state as they are: a GraphQL error is kept two seconds in production even when a
field said `maxAge: 0`, and a request may be executed with an older schema than it
named when an older update overlapped its own.

## 7. What is not modelled

* Telemetry: initialised and awaited once before workers start; nothing calls its
  reset.
* Accumulated metrics (`MetricsAccumulator`, `DiagnosticsMetrics`): synchronous
  additions to what a status request takes whole; nothing interleaves with them.
  The labels the clients' metrics choose are data.
* `MultilayeredCache` with several layers: the repository itself uses it with one
  (`LRUCache.getOrSet`, in GraphqlService); its promotion between layers is planned.
  `DiskCache`, which is the reads and writes of LRUDiskCache without its index.
* The messages loader: the requests it makes are in the catalogue, its sorting and
  batching are an algorithm over one array. Directives other than the cache
  control wrap one resolver call each.
* Start-up, routing tables, app loading: executed once, before requests exist.
* Status tracking and log messages between master and workers; tracing, logging,
  formatting of errors, typings: they observe the program or describe it, and no
  property of its behaviour depends on them.
* The headers of the metadata are one flag in RequestPipeline. `error.ts:112` removes
  `x-vtex-meta` alone, which differs only for a handler that sets the bucket's
  header by itself. Of the fallback that `getAppFile` never runs, and of files that
  a restart leaves without an index, no property says more than what sections 2 and 5
  do.
* External parts, seen only through what the code uses of them: axios, p-limit,
  tokenbucket, lru-cache, read-write locks, the file system, Node's cluster, koa,
  the graphql package, the VTEX router, VBase and the origins.

## 8. Plan

1. Done: SingleFlight, MemoizedClient, RateLimiter, RequestPipeline, HttpCache,
   LRUDiskCache, Cluster, Retry, GraphqlService, ClientRequests with SharedAnswers,
   AppsStale, VBaseConflicts; proofs about all of them.
2. `MultilayeredCache`: promotion and lost lifetimes over two layers, against a cache
   as a map whose entries only ever grow stale, which LRUDiskCache should implement.
3. `MessagesLoader`: sort, batch and put back in order against a reference definition.
4. Status tracking between master and workers, in Cluster.
5. Proofs to add: of what 2 to 4 bring, and what a stack of layers keeps to when
   answers have etags.

Runs are kept few: a new component brings one, and runs that only show a
disagreement give way once a property that holds states the behaviour.
