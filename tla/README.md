# Verification of the rate limiter

The repository implements one design twice: a token-bucket rate limiter with
three modes of operation, in NestJS (`src/backend`) and in Go
(`src/go-throttle`). In **REDIS** mode every request runs a Lua script on a bucket
shared by all nodes; when Redis fails, a node turns to **PEER** mode, where each
node charges a bucket in its own memory and the nodes gossip their buckets every
100ms; when the peers fail too, **LOCAL** mode gives each node its share of the
limit and persists the buckets to MySQL. A guard in front turns denials into
429 with Retry-After. This directory holds the TLA+ modules of that machinery,
the TLC configurations that check them, and the TLAPS proofs of the invariants
that hold for every value of the constants. `PROJECT.json` maps every
definition to the lines it models, and lists runs, mutants, findings, hazards
and theorems.

Check a configuration with `tlc -config Bucket.cfg MCRedisTokenBucket.tla`, a
proof module with `tlapm RedisTokenBucketProofs.tla`.

## Inventory

| Component | State | Operations | What is hard |
|---|---|---|---|
| Circuit breaker (`circuit-breaker.service.ts`, `circuit_breaker.go`) | state, failureCount, time of the last failure | `state` (turns OPEN to HALF_OPEN), `recordSuccess`, `recordFailure`, `reset` | Calls of many requests interleave: an outcome is recorded long after the state that let the call through was read |
| Go manager (`manager.go`) | mode (RWMutex), peerFailures (atomic), breaker, flusher | `Check`, peer callbacks, `probeRedis`, `warmUpRedis`, `transitionTo` | The mode is read and changed in separate critical sections, over network calls, by requests, sync goroutine and probe |
| NestJS manager (`throttle-manager.service.ts`) | mode, peerFailures, breaker | `check`, `probeRedisHealth`, `warmUpRedis` | Everything between two awaits; probes overlap |
| Redis bucket (`token-bucket.strategy.ts`, `token_bucket_redis.go`) | a hash per entity with tokens and last_refill | the Lua script, `ping`, `seedFromSnapshot` | The caller's clock, reordered and resent calls, expiry and eviction, seeding by several nodes |
| Local bucket (`local-bucket.fallback.ts`, `local_bucket.go`) | a map of tokens and lastRefill | `consume`, `getSnapshot` (evicts), `mergePeerSnapshot` | Merges of stale values, eviction, changing limits |
| Peer sync (`peer-sync.service.ts`, `peer_sync.go`) | none of its own | `syncWithPeers`, the handler | Lost and late calls, late bodies, overlapping syncs; merge and snapshot are two critical sections in Go |
| MySQL flush (`mysql-flush.service.ts`, `mysql_flush.go`) | timer or goroutine, rows of the fallback table | `startFlush`, `stopFlush`, `flush`, `seedFromMySQL` | Go reads its stop channel outside the mutex; both servers write one row; upserts overlap and fail; restarts |
| Guard, facade, demo (`entity-throttle.guard.ts`, `throttle.service.ts`, `demo.controller.ts`) | none | `canActivate`, `check`, the peek | Two roundings of Retry-After across an await, isolation while modes change |
| Sliding window (`sliding-window.strategy.ts`) | a sorted set per entity | the Lua script, `consume` | Trimming at callers' clocks, expiry, resent calls. Registered, but called by nobody |
| HTTP layer of Go (`throttle_handler.go`, `main.go`) | none | middleware, sync handler, shutdown | The sync handler |
| Configuration, modules, bootstrap, infrastructure | none | | no coordination |

What makes them correct: mode, breaker, flusher and the limits charged agree
whatever interleaves; no token is granted twice; the quota holds; a mode ends
when its reason ends; gossip converges and never adds tokens; a restart forgets
no more than the table does; a client that obeys Retry-After is served unless
somebody took from its bucket; one entity's load is not another's denial;
goroutines end.

The components interact by calls (guard to facade to manager, manager to
breaker, flusher, buckets), by callbacks (peer sync to `recordPeerFailure` /
`recordPeerSuccess`, in Go), by shared state (the mode, the counter of misses,
the local bucket that requests, sync, handler, flush and warm-up all use) and by
messages (the scripts, the seeds, the sync calls, the upserts). The hazards,
each at its line and with the properties aimed at it, are in `PROJECT.json`.

## Modules

| Module | Models | State and actions |
|---|---|---|
| `CircuitBreaker` | the breaker of both services | One action per method. `failureCount` saturates at the threshold, `sinceFailure` is the age of the last failure, saturated at the timeout: the code only compares them |
| `ThrottleManager` | `manager.go` on one node, EXTENDS `CircuitBreaker` | Every goroutine has a program counter: a request per `Request`, the sync goroutine, the probe. An action is one critical section or one atomic operation, so everything the locks permit happens between two of them. `limit` is what the request charges, fixed when it read the mode. `redisUp`/`peerUp` flip at any time |
| `NestManager` | one NestJS node, EXTENDS `CircuitBreaker` | The code between two awaits is a step. Requests await Redis; several probes may be under way, each in ping, jitter or seeding |
| `MySQLFlusher` | `Start`, `Stop`, `loop` of `mysql_flush.go` | Channels are the numbers of the Starts; loop `l` was spawned by Start `l`; `watched` is the channel its select has evaluated, which need not be the one it was spawned with. `Stop` and `Start` are atomic (`f.mu`), the loop's read is not under it |
| `RedisTokenBucket` | the Lua script, `consume`, `seedFromSnapshot` | A call is sent with its node's clock, evaluated later, in any order, possibly twice, or fails; so is the seed of a node that warms Redis up, with a view taken any time ago. The key may be lost |
| `LocalBucket` | `local-bucket.fallback.ts`: `Node` owns one bucket each | `Consume`, `Snapshot`/`View`, `MergePeer`, one step each; `Seed` overwrites a bucket with tokens counted elsewhere, which `EntityGuard` needs for the warm-up of Redis. Extended by the three modules below; `forgiven` is the ledger of exactly what was missing from entries when they were lost, as a lost entry comes back full, and of what a seed put in |
| `TokenQuota` | nothing: the abstract specification of token buckets | `Earn` refills every bucket with every tick, `Spend` takes what is granted and maybe more, `Forgive` puts back what it writes down |
| `PeerGossip` | `peer-sync.service.ts`, EXTENDS `LocalBucket` | Every node's sync: snapshot, one call per peer, merge on the callee, its answer, merge of the answer. A call may be given up at any point while the link is down; its request, or in NestJS the body of its answer, may still arrive (`late`) |
| `GossipAudit` | nothing: a ledger beside `PeerGossip` | The most granted from the begin of one complete sync to the end of the next, to state the documented overshoot window |
| `MySQLFallback` | `mysql-flush.service.ts` and `mysql_flush.go`, EXTENDS `LocalBucket` | Servers consume, flush, crash and restart. A flush takes its snapshot (`Flush`), then reads the minute and sends its upsert (`Send`): in Go, the only service that seeds, requests are served and minutes turn in between. Upserts are under way (`upserts`) until they land in the one row of the current minute or fail. A snapshot carries, as history, whose it is and what its bucket had granted by then; an upsert what it had granted when the minute was read (`stamped`) |
| `EntityGuard` | `entity-throttle.guard.ts` and what it calls, EXTENDS `LocalBucket` | A bucket per entity in Redis and in the memory of each server. `Check` is `canActivate` up to its await, `Respond` the rest on a denial, `Peek` the demo's free check; the bucket and the limit of each are chosen anew every time (`Route`), by balancer and manager. What else writes the buckets: `Expire`, `Merge` of a peer's view, `WarmUp` with a server's snapshot, `Resend` of a call that Redis charges for nothing. `taken` is the history of who took from a client's bucket since its last request |
| `SlidingWindow` | `sliding-window.strategy.ts` | Calls as in `RedisTokenBucket`, evaluated any time later; the sorted set is a set of (score, member), the key expires a second after the window. `ordered`, `ahead`, `behind` are the history of how far the timestamps could be trusted |
| `WindowLimiter` | nothing: the abstract specification of a sliding window | `Allow`, `Deny`, `Forgive` over a memory of all grants; exact for requests in the order of timestamps that can be trusted, free after one that cannot |
| `MC...` | instances | the clients and their clocks, symmetry |
| `...Proofs` | theorems about the module named | |

Tokens are counted in fractions (`Unit` of them to a token) where a refill of
part of a token per tick matters; floating point and its rounding are
abstracted, the explicit `Math.floor` and `Math.ceil` are not. Clocks are
ticks. Time in `ThrottleManager` and `NestManager` is only the age of the last
failure.

`LocalBucket` is the shared component. Its properties are stated once, proved against
`Consume`, `Snapshot` and `MergePeer` (`LocalBucketProofs`) and kept by the steps that
gossip, guard and MySQL fallback add, with `Seed` for the guard: the ledger `NodeGrantsCovered`, the step-by-step
refinement `ImplementsQuota` of `TokenQuota` (a node's abstract credit is what it would
find in its bucket now, `Filled`), and `EvictionIsFree`. Where one
bucket per entity suffices, one entity stands for all, because entities never
touch each other's entries. `EntityGuard` has any number of entities in its
theorems; its run follows two clients of one entity.

## Runs

| Run | Expected | Question |
|---|---|---|
| `Manager` | pass | Do mode, breaker, flusher, limits and counter of a Go node stay consistent, and does it leave a mode whose reason is gone? |
| `Nest` | pass | Do mode and breaker of a NestJS node change together; does it leave and return to Redis? |
| `Bucket` | pass | Do script and seeds grant a token twice? Does the quota hold when timestamps arrive in order? |
| `Gossip` | pass | Does a merge ever add tokens? Is a bucket refilled on demand a token bucket? Do the buckets converge? |
| `Fallback` | pass | What can a restart forget? |
| `Guard` | pass | Is Retry-After long enough? What can deny a client within the refill rate? Does an eviction give tokens away? |
| `Window` | pass | How many grants may a window hold? When does the script decide as a limiter with a perfect memory would? |
| `Flusher` | pass | Does every flush loop stay within reach of Stop, and end? |
| `BucketSkewed` | violation | `src/README.md:153`: clock skew is dealt with in Redis |
| `OvershootWindow` | violation | `peer-sync.service.ts:13`: the overshoot is at most 100ms of requests |
| `NestNeverLocal` | violation | `throttle-manager.service.ts:14`: PEER turns into LOCAL |
| `NestOverlappingProbes` | violation | `throttle-manager.service.ts:141`: Redis is seeded on recovery |

What the passing runs show:

* `Manager`: the breaker is away from CLOSED exactly when the threshold is
  reached, and one failure in HALF_OPEN opens it again, however late outcomes
  arrive; the flusher runs exactly in LOCAL mode; after the switch to LOCAL only
  requests already in flight charge the undivided limit; a probe seeds Redis only
  outside REDIS mode; LOCAL needs the full number of unanswered peer calls; Redis
  back for good leads back to REDIS again and again; an outage of Redis and all
  peers ends PEER; answering peers end LOCAL.
* `Nest`: REDIS mode means a CLOSED breaker (HALF_OPEN, though written in the
  code, is unreachable), and both recoveries happen in spite of overlapping
  probes and pipelines that fail without an error.
* `Bucket`: what was granted and is held never exceeds the bucket, one more per
  loss of the key, what seeds wrote, and the refill for the time the evaluations
  saw pass, on any network; from that, the quota follows when `now` never moves
  back. A warm-up may overwrite younger charges, but only by what it writes.
* `Gossip`: what a node granted and could grant now is covered by a full bucket, the
  refill until now and what was missing from its evicted entries, so no snapshot, however
  stale, puts tokens into a bucket; every step of the gossiping buckets is one of the
  abstract `TokenQuota` or changes nothing it sees (`ImplementsQuota`); once clients
  are quiet and calls succeed, buckets agree for good.
* `Fallback`: a restart gives a server back its own grants since the snapshot of
  the row, or what the other server left in it, never more (a start without a row
  forgives exactly what was missing from the bucket). Of earlier minutes a seed
  forgets only what was granted while the flush that wrote its row was between
  its snapshot and the reading of the minute: the row of a minute is of a flush
  that read the clock in it, however late an upsert lands. In the NestJS service
  nothing is granted between the two.
* `Guard`: a client that waits its Retry-After finds a token in the bucket that
  denied it, with either limit, unless that bucket was taken from meanwhile: by
  another client's grant, a resent call, a peer's view or a seed. That holds
  through both roundings and however late the guard resumes. A client within the
  refill rate is denied only by a bucket that was taken from since its last
  request, whoever peeks and wherever it was charged before. And an evicted entry was
  full by then, so that its return as a new one gives nothing away.
* `Window`: as long as calls come in the order of their timestamps and these stray from
  real time by no more than the second the EXPIRE adds, no window at all holds more than
  the limit, and the script decides every request exactly as one that remembers all
  grants (`ImplementsLimiter`): resent and denied calls, trimming, and the EXPIRE that only
  grants renew never change a decision. Out of order, within that second, the window that ends at the newest
  timestamp still holds no more than the limit; older windows may (see below).
* `Flusher`: no loop ever waits on a channel nobody will close, the loop of the
  last Start is alive while the flusher runs, and after the last Stop all loops end.

The four runs that end in a violation each state one sentence of the
repository that the code does not keep; `PROJECT.json` "findings" explains the
counterexample of each.

### Bounds, and why they are enough

* `Manager`: two requests, one peer, a breaker threshold of 2 and 3 peer misses,
  one tick of reset timeout. Two requests are the least that race for the mode,
  against the sync goroutine and the probe; a threshold of 2 lets one request
  fail before and one at it, and the misses may be spread over several syncs.
  Nothing bounds the length of a behaviour, as counters and ages saturate. No
  symmetry, because of the liveness properties.
* `Nest`: three requests, two probes (the least that overlap), thresholds of 2, so
  that one request fails before, one at and one after the breaker opens.
  Its environment may flip at any time, without bound.
* `Bucket`: a client on one node and one on another whose clock is one tick
  ahead, `Limit` 2, half a token of refill per tick, costs 0 and 1 (the script
  accepts both), two ticks, one loss of the key, four evaluations, two seeds of
  one token under way at once: enough for a resent call or seed, a reordered
  call, two nodes warming up with charges in between, a full, an empty and a
  fractional bucket. `BucketSkewed` needs a longer behaviour and a larger skew, and gets six
  evaluations, no resends, losses or seeds.
* `Gossip`: two nodes, `GlobalLimit` 2, both limits callers pass (2 and its share
  1), one tick, an eviction possible after it, one late view. The merges are of
  two values, so two nodes make every conflict; three nodes did not fit.
  `OvershootWindow` has no time, so the refill plays no part in the overshoot it shows,
  and a limit of 3, so that the two nodes forget one grant with each of several syncs.
* `Fallback`: two servers and one turn of the minute (one tick to the minute), so that
  requests, snapshots, upserts and restarts fall before and after it; two upserts under
  way (the least that overtake each other), one restart. One upsert under way is enough for a
  grant and the turn of the minute between its snapshot and its minute. No entry becomes
  stale (`StaleAge` 2): the run leaves eviction, which takes an hour where a minute turns,
  to `Gossip` and `Guard`. A bucket above the share, which is flushed as unused, needs a
  larger limit than fits the run. The proofs cover both, and any number of minutes.
* `Guard`: two clients of one entity, one on a refill-rate pace and one without any, a
  bucket in Redis and one on a server, half a token per tick and two ticks to the
  second, so that whole and half seconds and tokens meet; four ticks. One write by others
  (peek, view, seed or resent call) at any moment; a view or seed of half a token is the
  one that denies without emptying, a seed of a full bucket does what the loss of a
  key does. The proofs allow any number. An empty bucket refills in exactly the `StaleAge`
  of 4, the least for which `EvictionIsFree` promises anything. Other entities and servers
  touch none of this entity's buckets and would only multiply the states.
* `Window`: two calls on either of two nodes with clocks one second apart, a
  window of two seconds, a limit of two, and the code's margin of one second; nothing
  bounds how late a call is evaluated but the end of the run after three seconds, so that
  calls overtake each other, keys expire under them, and grants leave the window. Real windows
  are longer by the factor of the unit alone.
* `Flusher`: three Starts: a loop that misses its own stop, then the next, with
  a third loop beside it. `MaxStarts` bounds the model only.

`CHECK_DEADLOCK FALSE` is set for the flusher, which rests after its last Stop,
and for the window, whose calls are each made once and whose clock stops at `MaxTime`.
In all other runs something can always move (a peek, a request, the
environment), so the check for deadlock says little there; the liveness
properties say more.

### Fairness

* `ThrottleManager`: weak fairness of each request's step, of the sync
  goroutine, of the probe and of the clock: tickers fire, a Redis call ends with
  the client library's default timeouts at the latest, a peer call after 50ms
  (`peer_sync.go:45`), and the Go scheduler runs what can run. No fairness makes
  a request arrive or Redis or a peer come back; the properties assume that in
  their premises.
* `MySQLFlusher`: strong fairness of leaving through a closed channel, because
  the ticker may be ready at each select too, and Go chooses among ready cases at random;
  weak fairness of reaching the select and of a flush ending.
* `PeerGossip`: weak fairness of each node's sync. A late view need never arrive
  and the link need not come up.
* `NestManager`: weak fairness of each awaited call, of each probe, of the sync
  interval and of the clock.

The other specifications state safety only and assume no fairness.

## Proofs

TLAPS checks, for every value of the constants that satisfies the modules'
named assumptions (`CircuitAssumption`, `BucketAssumption`, and so on: natural
numbers, positive thresholds, limits at most the global one):

* `GoNodeProofs`, the Go node and its flusher. Of the node: type correctness and the six
  safety properties of `Manager` for any number of requests, peers and any thresholds.
  Each property concerns one corner of the state, so a lemma first abstracts all steps of
  `Next` to that corner (`CircuitSteps`, `ModeSteps`, `ChargeSteps`, `MissSteps`)
  and the invariant is proved on the abstraction. `LocalAfterMisses` needs the
  strengthening `MissesCounted`: the shared counter never runs ahead of the
  calls missed since the last answer, and once the callback has seen it at the
  limit, no answer comes in before the callback is over. Of the flusher: type
  correctness (also: `Stop` never closes a channel that does not exist), `NoOrphanLoop`,
  `RunningHasLoop`. The inductive invariant adds that the current channel of a running
  flusher is the only one still open, and that a loop waits on a channel no older than its
  own, so the loop of the current Start cannot leave while the flusher runs.
* `NestManagerProofs`: type correctness and `RedisModeIsClosed`, for any number of requests and overlapping probes.
* `RedisTokenBucketProofs`: type correctness, `GrantsAreCovered`, `QuotaInOrder`, and
  `BurstsBounded`, the quota of every interval. `Stamped` says that a key remembers the
  `now` of the last evaluation or seed. From it every step conserves (`Conserves`): what is
  granted and held grows by no more than the `Allowance`, which is a full bucket per
  loss of the key, what seeds wrote and the refill for the time the evaluations saw. Both
  bounds follow, from the start and from any other moment. `TimeIsReal` (no timestamp is
  more than `MaxSkew` ahead of real time) turns the time the evaluations saw into real
  time for `QuotaInOrder`. In real time there is no bound for intervals: the calls on their
  way at its beginning may carry timestamps of long before.
* `LocalBucketProofs`: lemmas only: each operation of a bucket, `Seed` included, for any cost, limit and
  view, keeps it typed, never gains (what was granted and could be granted grows by the
  refill and what is forgiven, `NeverGains`), and is a step of `TokenQuota`
  (`QuotaSteps`). They need that no bucket was refilled in the future. An entry that may be evicted
  is full if a bucket refills within `StaleAge` (`StaleIsFull`).
* `PeerGossipProofs`: type correctness, `NodeGrantsCovered`, `ImplementsQuota`,
  `BurstsBounded` and `EvictionIsFree`, for any number of nodes and any limits. The steps of
  the gossip are abstracted to the steps of the buckets, to which the lemmas of
  `LocalBucketProofs` apply. `BurstsBounded` says more than `NodeGrantsCovered`: from any
  moment on, and not only from the start, a node grants at most a full bucket beyond
  the refill since and what is forgiven since.
* `EntityGuardProofs`: type correctness, `RetryAfterSuffices`, `DeniedOnlyWhenTaken`,
  `ImplementsQuota`, `BurstsBounded`, `EvictionIsFree`, for any servers, clients, entities,
  paces, limits and rates and any number of views, seeds and resent calls. Both promises of
  the guard are about a later moment, and neither is
  inductive. `Ready(b, t)` strengthens them: by time `t` a call finds a token in
  bucket `b`, which lasts until something is taken from it (`KeepsReady`), whoever refills,
  peeks, is denied or finds the bucket evicted meanwhile; that every step which takes
  is written down in `taken` is a lemma of its own (`TakingIsSeen`). A denied client's bucket
  is ready by the reset it was told (`RetryInv`), the buckets of a paced client by the
  time of its next request (`PacedInv`). That the two roundings up lose nothing is a
  lemma about `Ceil` (`CeilCovers`), for any rate and any length of the second. In the
  refinement a seed is a `Spend` or a `Forgive` of what it puts in beyond what was there.
* `MySQLFallbackProofs`: type correctness, `RestartsAreCovered`, `BurstsBounded`,
  `SeedsRememberPastMinutes`, for any number of servers, upserts and restarts. The
  ledger alone is not inductive: a seed restores tokens from the past, so
  `CoveredSince` says of the row and of every upsert that what its writer had
  granted at its snapshot, plus what the row leaves (`Leaves`), is covered, from the start
  and from any other moment. `MinuteInv` says that an upsert stamped with the current minute
  was stamped after all that was granted before the minute.
* `SlidingWindowProofs`: type correctness, `WindowQuota`, `NewestWindowQuota`, and the
  refinement `ImplementsLimiter`, for any skews and delays. The strengthening `KeyRemembers`
  says that while timestamps stray by no more than the margin, every grant in the window
  that ends at the newest timestamp is stored under a key that outlives it; when the calls
  also come in order, that window is the one the script counts.

Only model-checked: the liveness properties (`RedisRecovers`, `OutageEndsPeerMode`,
`PeersEndLocalMode`, `LoopsEnd`, `BucketsConverge`, `OutageLeavesRedis`), which
depend on fairness and are out of the prover's reach. Every safety property and
refinement that a passing run checks is also a theorem. `EvictionIsFree` and
`ImplementsQuota` are stated in `LocalBucket`, each run on one of the two modules for
which it is proved.

Not stated, and why:

* The documented sum over all nodes (N times the limit in PEER mode, the limit in LOCAL
  mode). It follows from the bound of each node by a sum over `Node`, and a sum over a set
  of any size is an induction over data.
* `ImplementsQuota` for `MySQLFallback` and `RedisTokenBucket`. A restart that is seeded from
  the row may at once lose tokens of the bucket and get back older ones, while the ledger counts
  what the restart lets the server grant again, not each difference; and the Redis bucket's clock is the
  one its evaluations carry, which may step back.

## Observations without a run

* `circuit_breaker.go:15` says that HALF_OPEN allows one test request; `State`
  answers HALF_OPEN to every caller until the first outcome is recorded, and
  `checkRedis` lets them all through.
* `recordPeerFailure` of `manager.go:195` reads the mode under one lock and changes it
  under another: when the probe returns the node to REDIS in between, the node goes from
  REDIS straight to LOCAL with Redis healthy, until the next answer of a peer or probe.
* `mysql_flush.go:68` evaluates `f.stopCh` at every turn: a loop that is flushing during
  `Stop` and `Start` goes on with the new channel, beside the new loop. `LoopsEnd`
  shows that this ends with the next Stop.
* `local_bucket.go:97` reports tokens as of the last `Consume`, and `MergePeer`
  (`:109`) leaves `lastRefill` alone, so a merge can take back refill that a node had credited.
* `main.ts` sets the global prefix `api`, while `peer-sync.service.ts:47` calls
  `/internal/throttle-sync` without it.
* `recordPeerFailure`, `recordPeerSuccess`, `seedFromMySQL` and
  `SlidingWindowStrategy.consume` have no caller in the NestJS service.
* Both servers write one row, so a restart may be seeded from what the other one used.
  The query's filter on `updatedAt` (`mysql-flush.service.ts:54`) excludes nothing that the
  window has not excluded already.
* `token-bucket.strategy.ts:99` overwrites the bucket in Redis with a server's snapshot and
  refills it from then on. With a share of one token the snapshot of a client on pace shows
  zero, so its next request may be denied, as after a peer's older view
  (`local-bucket.fallback.ts:82`) or a resent call. `k6/throttle-load-test.js` expects
  `entity_003_blocked_MUST_BE_ZERO`: what is checked is that nothing else denies such a client.
* `sliding-window.strategy.ts:34` trims at the caller's clock. With node a's clock a second
  ahead of b's, a window of two seconds and a limit of two, calls of a at 0s, of b at 1s, and of
  a, then b at 2s are all granted, and three of them carry timestamps of one window: "exact sliding window semantics" (`:9`) need calls in the order
  of their timestamps.
* Retry-After is about the bucket that denied. A client that retries in another mode or on
  another server may find that bucket empty.
* A call to the sliding window whose reply was lost may be charged and, resent, be told
  that it is denied.
* `X-RateLimit-Reset` is the time to a full bucket in Redis and on a local grant, and the
  time to one token on a local denial. When the guard resumes after the reset,
  Retry-After is zero or negative.
* `k6/throttle-load-test.js:92` expects entity_001 at 20 req/s to fit a limit of 100/min;
  with the default refill of 10/s it is throttled once its burst is used up.

## Not modelled

* Informational headers, key check, configuration, dependency injection, logging, metrics and
  the infrastructure files: no coordination of their own.
* Go's Retry-After (`throttle_handler.go:29`), which truncates to seconds and adds one: the
  guard's is modelled in `EntityGuard`.
* A local wall clock that steps back (`local-bucket.fallback.ts:46` clamps the elapsed time
  and moves `lastRefill` back): the models' local clock is monotonic, as Go's is.
* Graceful shutdown (`main.go`): the process ends with its goroutines and holds no promise of state.
* Peer failures in the NestJS manager, which nothing reports.
* Costs above one on the local path, which no caller asks for.

## Further work

* Three nodes in `PeerGossip` as a run: the theorems hold for any number, convergence is
  checked for two.
* The sum of all nodes' grants in LOCAL mode, checked on an instance.
