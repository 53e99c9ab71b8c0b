# TLA+ verification of readonly-db-mcp

This directory holds TLA+ models of the parts of `readonly-db-mcp` in which
order, concurrency, failure or a limit decide whether the server is correct, the
TLC configurations that check them on small instances, and TLAPS proofs of what
matters most for every instance.  `PROJECT.json` is the machine-readable index:
components, runs, the source lines behind every definition, mutants, findings,
hazards and theorems.

Contents: [1 the system](#1-the-system), [2 modules](#2-modules),
[3 admission](#3-admission), [4 Elasticsearch cursors](#4-elasticsearch-cursors),
[5 metadata cache](#5-metadata-cache), [6 targets and their proofs](#6-targets-and-their-proofs),
[7 Elasticsearch transport](#7-elasticsearch-transport),
[8 findings and observations](#8-findings-and-observations),
[9 what is proved](#9-what-is-proved), [10 what is not modelled](#10-what-is-not-modelled),
[11 how to run](#11-how-to-run).

## 1 The system

`readonly-db-mcp` is one Go process that serves MCP tools to its sessions
over stdio.  A tool call names a configured *target*, a database of one of
ten dialects, and must only read.  A call passes, in this order: the MCP handler
(`internal/mcpserver`) checks and converts its arguments; the registry
(`internal/registry`) finds the target by its exact alias; the target checks that
it is healthy, parses the request and refuses what its policy does not allow; it
may answer from a cache; otherwise it acquires a permit from the process-wide
admission controller (`internal/admission`), runs the request under a deadline on
its own connection pool, bounds the response and releases the permit.  In the
background every target rechecks its privileges or topology, and Elasticsearch
targets also clean up the server-side contexts their clients left behind.

### Components

| Part | State | Operations | Shared with |
| --- | --- | --- | --- |
| Admission (`internal/admission`) | FIFO per class, `active`, `byTarget`, `byClass`, round-robin position, one mutex | `Acquire`, cancel on `ctx.Done` or timer, `Release`, `dispatchLocked` | every call and every background check of every target |
| ES cursors (`cursor_registry.go`, `cursor.go`, `sql_cursor.go`, `pit_batch.go`) | registry of `ownedCursor`, one gate each; process-wide cursor memory and slots | open, next, close, PIT batch, SQL read, reaper, session sweep, shutdown sweep, background recovery, retirement timer | admission, ES authority (epoch), MCP sessions, the native server |
| Metadata caches (`mysql`, `postgresql`, `sqlserver`) | LRU list, map, byte count, in-flight reads, refresh cooldowns | `get`, `lead`, `leadRefresh`, `finish`, `clear` | `ListTables`, `DescribeTable`, admission |
| ES authority (`target.go`, `authority*.go`, `remote_topology.go`) | `healthy`, `checked`, hash, epoch | `refresh`, `maintain`, `attest`, `invalidateAuthority`, `ready` | every ES request and cursor |
| ES transport (`transport.go`) | socket slots, leased connections, lifetime timers | dial, get and put idle, expire, `requestWith` | every ES request |
| ES queries and batches (`query.go`, `batch.go`, ...) | memory lease of a request | lease, source resolution, execute, verify sources | transport, authority, admission |
| ES scope, DSL and language checks | none | pure checks on parsed requests | queries and cursors |
| SQL targets (`mysql`, `postgresql`, `sqlserver`) | `healthy`, last check, gate, policy snapshot, result cache | `Query`, `BatchQuery`, recheck, `Close` | admission, caches |
| Redis (`redis`) | client, topology revision, two freshness clocks | `RedisCommand`, maintenance, Sentinel and Cluster attestation | admission |
| MongoDB, Qdrant, Neo4j | `checked` timestamp and its proof | request, maintenance, `prove` | admission |
| SQLite, DuckDB | closed flag; DuckDB one sandboxed worker process per call | query, batch | admission |
| MCP server, registry, config, audit, metrics, core | tool table; target map; counters | argument conversion, open and close, `Add`, `flush` | all |

### What is hard, and what correct means

* **Admission.**  A grant races with the caller's cancellation, and cancelled
  waiters stay in the queue.  Correct: capacity is neither leaked nor handed out
  twice; ceilings hold; no waiter is lost; waiting is bounded; reservations leave
  no capacity idle; the order within a class and target is kept; every call
  returns.
* **ES cursors.**  The answer to a request that created a server-side context may
  be lost, delayed or malformed, and six kinds of actors clean up.  Correct: no
  context outlives the slot that pays for it; budgets add up; a client that goes
  on gets the next page, never skips one; every slot comes back.
* **Metadata cache.**  Leaders fail, followers wait, entries expire and are
  evicted.  Correct: one reader per key, nobody waits forever, limits hold, a
  client never sees metadata go backwards.
* **ES authority and the SQL rechecks.**  A request reads health before it waits
  and uses it afterwards; a recheck stores several fields one by one.  Correct: no
  request starts after a failed check was published, and what a request relies on
  is never older than the windows allow, whichever check wrote last.
* **Redis topology.**  Evidence from several nodes, gathered one after the other,
  must describe one topology.  Correct: quorum agreement, full slot coverage, and
  freshness counted from the evidence.
* **Transport.**  Timer, pool and requests close and hand on connections.  Correct:
  sockets never exceed the slots and every slot is returned once.

The hazards this list comes from are in `PROJECT.json` ("hazards"), each at its
line, with the properties that would catch it or the reason none does.

## 2 Modules

Most important first: what every call depends on, then the protocol with the most
actors and failures, then the caches, then the proofs that requests rely on.

| Module | Models | Properties and theorems |
| --- | --- | --- |
| `Permits` | what `Acquire` and `Release` promise, without queues and counters | the abstract specification |
| `Admission` | the controller | safety, action properties, liveness; implements `Permits` |
| `AdmissionService` | history variable over `Admission` | how often a class is passed over |
| `Contexts` | what the cursor registry promises, without gates, leases, timers and sweeps | the abstract specification |
| `EsCursor` | cursor registry | orphans, budgets, continuity, leases; every slot returned; implements `Contexts` |
| `MetadataCache` | cache, `ListTables`, `DescribeTable` | single flight, limits and byte accounting, monotonic reads |
| `SqlTarget` | health, gate, recheck, result cache and `Close` of the MySQL, PostgreSQL and SQL Server targets | no query on refuted or old privileges; every call and `Close` return |
| `ProofClock` | the proof of MongoDB, Qdrant and Neo4j, renewed by requests and by maintenance | age of what a read relies on; Neo4j refuses until proved |
| `RedisTarget` | commands against maintenance, which probes, rebuilds and replaces the client | one client and policy per command, age of attestation and topology |
| `EsAuthority` | `refresh`, `maintain`, `attest`, `ready`, `invalidateAuthority`, the epoch of a cursor | age of the authority a request is dispatched under; a lapse that no refresh under way renews ends cursors |
| `EsWire` | socket slots, leased connections, lifetime timer, net/http's pool | one slot per socket |
| `MC...` | instances for TLC; `MCTargets` runs the four target modules and `EsWire` side by side | |

Every component has a module of proofs, `AdmissionProofs` (over `AdmissionService`),
`EsCursorProofs`, `MetadataCacheProofs`, `SqlTargetProofs`, `ProofClockProofs`,
`RedisTargetProofs`, `EsAuthorityProofs` and `EsWireProofs`: every safety invariant and
action property of a passing run, and the refinements of `Permits` and of `Contexts`, are
proved (section 9).

What could follow: a register per key that only grows, implemented by `MetadataCache`,
and the targets composed with `Admission` instead of a bound on their permits.

## 3 Admission

`Admission.tla` models `internal/admission/admission.go`.  A member of `Waiters`
is one call of `Acquire` from its start until its permit is released or its wait
given up, after which it stands for another call once no queue holds it.

| Model | Code |
| --- | --- |
| `queues`, `active`, `byTarget`, `byClass`, `next` | the fields of `Controller` |
| `mutex` | the call that is inside `Controller.mu` |
| `target`, `class`, `ready`, `canceled` | the fields of `waiter`; `ready`: the channel is closed |
| `AcquireQueue`, `AcquireReject` | `Acquire` up to its `select` |
| `Admit`, `GiveUp` | the arms of the `select`; `GiveUp` may win although `ready` is closed |
| `cancel`, `Release` | `cancel`, `Permit.Release` (its second call does nothing) |
| `DispatchGrant`, `DispatchReturn` | one iteration of the outer loop of `dispatchLocked`; its end and the unlock |
| `canRunLocked`, `hasRunnableLocked`, `totalQueuedLocked`, `order`, `Pruned`, `Without` | the helpers and the queue surgery |

Each grant is a step of its own, because a parked caller sees its channel closed
while the dispatcher is still granting others.  `record` and `Stats` only read.

`Permits.tla` is the abstract specification: a call is in one of three states,
waits among at most `MaxQueued`, is granted within limits counted on the calls
themselves, and withdraws or returns once.  The refinement mapping (`CallState`,
`Asked`) says what a caller has at each moment: a waiter whose channel is closed has
a permit even while it is still parked, or after its deadline has won the `select`
and before `cancel` has given the grant back.  `ImplementsPermits` is checked by
`admission_safety` and proved.

`AdmissionService.tla` adds the history variable `passedOver`: how many grants in a
row went to other classes while a class had a waiter below all its ceilings.  A grant
made while all waiters of the class are at a ceiling ends the row: those grants do not
pass the class over, and the round robin may go round in between.

| Run | Bounds | Shows |
| --- | --- | --- |
| `admission_safety` | 4 calls, 2 targets, all 4 classes, `Global` 2, `PerTarget` 1, queue 2, reserve 1 | all safety invariants, `ReserveKept`, `FifoPerTarget`, `ImplementsPermits` |
| `admission_service` | 3 calls, 4 classes, `Global` 1, no reserve | every call returns, under fairness; metadata and interactive work are passed over at most 3 times, batch at most 5 times in a row |
| `admission_queue_length` | 4 calls, queue 2 | violation, see findings |

*Why the bounds are enough.*  Four calls with two slots give a holder, a waiter
blocked by its target, a waiter blocked by its class and a waiter that could run
behind a cancelled one, all at once; the queue limit is met; both rules of
`canRunLocked` hold somebody back.  The safety invariants are also proved without
bounds.

*Fairness.*  A goroutine inside the mutex goes on (WF of the dispatch steps).  The
queue timer fires (`admission.go:73-81`), so a parked call leaves its `select` (WF
of `Admit \/ GiveUp`).  `sync.Mutex` is starvation-free, so a call that wants it
gets it although others take it in between (SF of `cancel` and `Release`), and
every caller defers `Release`.  No fairness is assumed for new calls.

## 4 Elasticsearch cursors

`EsCursor.tla` models the contexts (PIT, scroll, SQL) that one target holds on the
server for its clients.

| Model | Code |
| --- | --- |
| `cur` | `ownedCursor`: state, kind, owner, epoch, `invalid`, `uncertain`, identifiers (0, 1, several), charge, deadlines and timer; a cursor exists before it is registered ("reserved") |
| `gate`, `cleaning` | who holds `ownedCursor.gate`; a holder waiting for the server in `cleanupCursor` |
| `memory`, `slots` | what `cursorMemory` and `cursorSlots` have handed out |
| `req`, `ctx` | where a handler is, and whether its context is alive |
| `net` | the native context, its position, requests on their way, the answer |
| `gone`, `epoch`, `closed` | disconnected owners, `authorityEpoch`, `Target.closed` |
| `Reserve`, `Publish`, `PublishRefused` | `reserveCursor` before and after the registry's mutex |
| `UpdateQuery`, `BeginDispatch`, `ReceiveReply`, `WireFails` | `updateCursorQuery`, `beginCursorDispatch`, the reading of an answer by `openPIT`, `cursorPage`, `sqlPage` |
| `AcceptPage`, `ServePage`, `ServeAggregation`, `Exhausted`, `DrainedSql`, `NextMember` | the ends of a page in `openCursor`, `nextCursor`, `pitBatch`, `executeSQL` and the SQL cursor |
| `Lookup`, `Lock`, `LockTimeout`, `Refuse`, `CloseCursor` | `lookupCursor`, `ownedCursor.lock`, next and close |
| `RecoverCursor`, `RecoveryRuns`, `RecoveryGivesUp` | `recoverCursor` and the goroutine it starts |
| `CleanupLocal`, `CleanupAnswered`, `Retire`, `TimerRuns` | `cleanupCursor`, `retireCursorAtLeaseEnd` and its timer's callback |
| `ReaperLocks`, `ReaperCleans`, `ReaperGivesUp`, `SweepCloses` | `reapCursors`, `closeOwnedCursors` for a session and for `Close` |
| `ServerProcesses` | external: Elasticsearch |

Times are kept as the time left and counted down by `Tick`, so a behaviour has no
absolute clock and the state space is finite.  Source proofs, size computations and
the wire format are outcomes: a check that can fail may fail.

*Assumptions about the server* (`ServerProcesses`): a request that was sent is
processed within `MaxTimeout` or never; a context lives for the longest keep-alive
it was given; identifiers that rotate name one context.  The transport never
resends a request by itself (`transport.go:167` disables retries).  The first two
are what the code's own accounting in `beginCursorDispatch` relies on.

`Contexts.tla` is the abstract specification.  A handle is unused, reserved, open or
released; its context on the server is not asked for yet, coming, there or gone; a
handle is given a slot and memory within the limits, counted on the handles themselves,
asks for a context once in its life, and gives the reservation back only by a step after
which the server has nothing of it and can create nothing.  Its client gets a page only
when the context has come to the page after the last one delivered.  The refinement mapping
(`States`, `Shares`, `Natives`, `Positions`) reads these off the registry and the server:
a context is coming while the request that creates it is under way, whether or not
anybody still waits for the answer.  `ImplementsContexts` says of all the paths that end
a cursor what `NoOrphan` says of a state, and more: that no handle gets a second context,
that nothing is returned twice, and that every page delivered is the next.

| Run | Bounds | Shows |
| --- | --- | --- |
| `es_cursor_calls` | 1 cursor, 2 calls, 3 kinds, 1 session, lifetime 2 | `ContinuesInStep`, `ImplementsContexts` with two calls on one gate, against all sweeps, the timer and lost answers |
| `es_cursor_leases` | 1 scroll cursor, 1 call, keep-alives 1 and 2, lifetime 3 | `NoOrphan`, `LeaseWithinHorizon` when leases shrink and grow and the timer is armed again; `EveryReservationReturned`, under fairness |
| `es_cursor_budget` | 2 cursors, 2 calls, charges 1 and 2, memory 3, 2 slots, 1 open context, 1 drift of the authority | `TypeOK`, `BudgetExact`, `ImplementsContexts` when every limit is met |
| `es_batch_cleanup_deadline` | 1 cursor, 1 call | violation, see findings |

*Why the bounds are enough.*  Cursors share nothing but the three limits, which
`es_cursor_budget` exercises with two of them (`BudgetExact` compares the two counters
with the set of reservations and the set of their memory units, and `ImplementsContexts`
keeps these sets within the limits); everything else happens around one gate, so one cursor with two calls, the reaper, the sweeps, the recovery and the
timer shows every pair of contenders.  A lifetime of three with leases of one and
two lets a lease be renewed, shortened and expire before the absolute end.
`MaxPages` 2 tells a skipped page from a served one.  A drift of the authority makes every cursor of the
old epoch unusable at once; `es_cursor_budget` has one, and with it next to all the rest
the proofs hold.

*Fairness.*  The clock advances, contexts have deadlines and end, handlers and the
server call of a cleanup are bounded by their context (WF); the timer's callback
gets the gate because a Go channel serves those waiting in turn (SF of
`TimerRuns`); the reaper, once it has the gate, goes on or gives up (WF).
Nothing is assumed of sweeps, the background recovery or the server: the
property shows that the retirement timer needs none of them.

## 5 Metadata cache

`MetadataCache.tla` models `internal/dialects/mysql/metadata_cache.go` with the
`ListTables` and `DescribeTable` that use it and the part of `Close` that clears
it.  The caches of `postgresql` and `sqlserver` have the same critical sections.

| Model | Code |
| --- | --- |
| `lru`, `entry`, `bytes` | `order`, `items`, `bytes` |
| `inflight`, `lastRefresh` | the channel of the read in progress (named by its leader), the refresh times as the cooldown left |
| `get`, `remove`, `store`, `Kept` | `get`, `remove`, the storing part of `finish`, its eviction loop; `bytes` is carried along as in the code, and `CacheBounded` compares it with `Total`, the bytes of what is listed |
| `wake` | `close(call)` in `finish` |
| `Begin`, `Get`, `Lead`, `Follow`, `Woken`, `Refused`, `Read`, `Fails`, `Finish` | the steps of `ListTables` and `DescribeTable` |
| `Close` | `Target.Close`: `metadata.clear` and closing the handle |
| `db`, `Alter`, `Read` | external: the schema, as a version per key that grows |
| `seen`, `call.floor`, `reread` | history, for the properties |

A disabled cache passes calls through and is left out.  The two queries of one
description are read as one version.

| Run | Bounds | Shows |
| --- | --- | --- |
| `metadata_cache` | 2 calls, 2 keys, 2 versions of 1 and 2 bytes, one of them negative, 2 entries, 3 bytes, lifetimes 2 and 1 | `CacheBounded`, `SingleFlight`, `MonotonicReads` |
| `metadata_stale_refresh` | 3 calls, 1 key | violation, see findings |

*Why the bounds are enough.*  Entries of two keys exceed the byte limit only
after both grew, so replacement, eviction by bytes and expiry all happen.  Two
calls are a leader and a follower of either kind; more calls are covered by the
proofs.  No liveness is checked here; `SingleFlight` says that nobody waits for a
leader that is gone, and every leader's query has a deadline.

## 6 Targets and their proofs

A target answers only while it can show that its identity may do no more than
read.  Four modules model how that proof ages, is renewed and is relied on.  In all
of them a time is an age that `Tick` lets grow (or a context that it runs down), a
goroutine that does not wait takes no time, and an age stops counting one past the
limit of the property about it, so the state space is finite.  What is read from a
server is an outcome: in order, excessive, or an error.  History variables
(`evidence`, `proofAge`, `redisEvidence`, `lastRead`, `refuted`, `excessive`, `drift`) date what the code's
timestamps only stand for: the reading itself, not its publication.

**`SqlTarget`** (`mysql`, `postgresql`, `sqlserver`: `target.go`, `batch.go`).

| Model | Code |
| --- | --- |
| `engine`, `Steps` | the dialect, and the order in which its `Query`, `Explain` and `BatchQuery` check health, load the policy, look into the cache, acquire, lock and run |
| `healthy`, `verified`, `policyAge` | `healthy`, `verifiedAt` or `lastAttested`, the snapshot in `policy` (PostgreSQL) |
| `readers`, `writer` | `gate`, a `sync.RWMutex` (PostgreSQL has none): a waiting writer blocks new readers |
| `permits`, `cache` | the permits of this target; the result cache's entry for one query |
| `Load`, `Check`, `Cached`, `Acquire`, `RLock`, `Run`, `Store` | the steps of a call |
| `CheckBegins` to `StoreHealth` | the goroutine of `startPrivilegeRecheck`; each of its stores is a step |
| `CloseStops`, `CloseReturns` | `Close` before and after `maintenanceWG.Wait` |

**`ProofClock`** (`mongodb/target.go`, `qdrant/target.go`, `neo4j/proof.go`,
`query.go`, `batch.go`, `explain.go`).  MongoDB and Qdrant requests and a
maintenance goroutine prove concurrently and write one timestamp; Neo4j proves on
demand under `Target.mu`.  `ReadBegins`, `ReadAcquires` and `ReadRuns` are a request, `Ready` is `ready` and `ensureProof`, `ProveLocks` to
`ProveStores` are `prove`, `MaintenanceBegins`, `MaintenanceFailed`,
`MaintenanceStops` the goroutine, `ProofCloses` is `Close`; `expiring` is Qdrant's token.

**`RedisTarget`** (`redis/target.go`, `batch.go`, `runtime.go`, `topology.go`).  A
topology is a number, a client is pinned to the one it was built for, and `Failover`
(external) moves the deployment to any other one, back to an earlier one too: the slots
of a cluster come back, and `sentinelTopologyRevision` hashes the selected replica,
which has no epoch.  Sentinel and Cluster are therefore alike in the model.
`CommandBegins` to `CommandRuns` are `RedisCommand`,
`RedisBatch` and `ValidateRedis`; `RedisCheckProbes` and `RedisCheckCompares` the topology probe,
`RedisCheckBuilds` and `RedisCheckEnds` `buildRuntime`, `Install`, `InstallFailure` and `Retire` the
replacement under `clientMu` and the closing of the old client.  `RedisInit` has the two
discoveries of `Open`, between which the topology may change.  A call holds `clientMu`
for as long as it likes: `ValidateRedis` sets no deadline, and `dataOptions` leaves
go-redis's `ContextTimeoutEnabled` unset, so an exchange that has begun ends with the
connection's timeouts and not with its context (taken from go-redis v9; the driver is
not part of the repository).  For the same reason a check may outlast its context by
one exchange (`IOTimeout`, `CheckLimit`).

**`EsAuthority`** (`elasticsearch/target.go`, `authority.go`, `query.go`, `cursor.go`,
`cursor_registry.go`).  A cursor keeps whether its epoch is still the target's.
`invalidateAuthority` is two steps, `healthy.Swap` and `authorityEpoch.Add` (`bump`).
`RefreshBegins` to `RefreshStores` are `refresh` and `attest`, which publishes hash,
epoch and health one by one.  `RequestBegins` to `Answered` are a request or the use of a
cursor.  `EsCursor` leaves the authority to a nondeterministic
epoch; here the cursor is reduced to its epoch instead.

`MCTargets` extends the four modules and `EsWire` and puts them in one state space:
`which`, chosen in `TargetsInit`, says which of them a behaviour is of, and the others
keep an initial state.

| Run | Bounds | Shows |
| --- | --- | --- |
| `targets` | 2 callers (Redis: 1 command), every dialect, Redis standalone and Sentinel (Cluster is the same in the model), 2 topologies, 2 authorities; intervals 1 to 3 | the properties below, and one slot per socket (section 7) |
| `sql_target_live` | MySQL and PostgreSQL, 2 calls, 2 permits | every call returns, `Close` returns |
| `redis_stale_topology` | all three modes, 2 topologies | violation, see findings |

* SQL: with a gate no query runs while the last reading is known to be excessive
  (`RunsUnrefuted`); without one none starts once that has been stored
  (`StartsUnrefuted`); what a query starts on was read at most two intervals and one
  check ago, however long it waited (`StartsProved`); a cached answer is older only
  by its query and its lifetime (`CachedProved`); a PostgreSQL batch is validated with
  a recent policy (`BatchPolicyRecent`).
* `ReadsProved` bounds the age of the reading behind a MongoDB, Qdrant or Neo4j
  read whichever proof wrote last; `RefusedUntilProved`: a refuted Neo4j target
  stays shut until a proof succeeds.
* Redis: a command runs on one matching, open pair of client and policy
  (`RunsOnPair`) and starts on an attestation no older than `command_catalog_max_age`
  and one check (`RunsAttested`); while the recorded revision is that of the client's
  own topology, it starts within the age of the topology and one check of the
  deployment leaving it, however the deployment goes back and forth
  (`TopologyFollowed`).  Neither counts the time that a finished build waits for
  `clientMu`, which the code does not bound (section 8), and a revision that is not the
  client's is the finding `redis_stale_topology`.
* Elasticsearch: a request goes out under an authority that was reported lately
  (`DispatchProved`).  A cursor counts as lapsed when it is open while the proof is as
  old as the recheck interval and no refresh that began before is under way, or when
  such a refresh has outlasted `ConnectTimeout`; it cannot be used again
  (`LapseClosesHandles`), except between the two steps of somebody's
  `invalidateAuthority`.  A cursor that is reserved and not yet dispatched (`Opening`)
  is not open in this sense: nobody has its handle, and the dispatch checks the proof.

*Why the bounds are enough.*  Every interval is small but larger than a step, and
checks may last longer than the interval between ticks, so ticks are lost, checks
overlap requests that began before and after them, and contexts end during each
wait.  Two callers are one that passed a check before a change and one after it, and
fill the gate with a reader while the other waits; a Redis command meets only the
maintenance goroutine, so one shows every order.

*Fairness* (`sql_target_live`).  Goroutines go on and contexts end (WF of the check,
of `Close` and of the clock); a `select` that `Close` has cancelled takes that arm
some day (SF of `CheckStops`); `sync.RWMutex` lets waiting readers in when a writer
leaves, so a call gets through the gate although the next recheck closes it again (SF
of a call's steps).

## 7 Elasticsearch transport

`EsWire.tla` models the socket budget of `transport.go`: `slots` is the channel
`wire.slots`, `Dial`, `GetsSlot`, `DialFails`, `DialDone` are `DialTLSContext`, `Close`,
`TimerFires`, `GotConn`, `PutIdleConn` are `leasedConn` and the trace callbacks that drive
it.  The pool is net/http's and external: `Ask` takes an idle connection or waits,
`PutIdle`, in `ReturnConn`, hands a connection to a waiter, refuses it or keeps it, `closeIdle` is the
flag that `CloseIdleConnections` sets and the next request clears.  A closer decides
in one step and closes in another; the pool returns a connection in one step and
reports it (`PutIdleConn`) in another, before it reads the next response.

`SocketsBounded`, checked by `targets` with one slot, two nodes and two requests (the
sizes of the repository's own `TestSharedSocketCeilingAcrossTLSOrigins`): no more
sockets than slots are dialed or open, and each holds exactly one, although pool,
timer and return may all close it.  The eviction of the least recently used of
several idle connections needs two slots and is in the model but not in that run.

## 8 Findings and observations

Each finding is a run in which TLC shows the code doing what a document says it
does not.

* `admission_queue_length`, `admission.go:139`.  Cancelled waiters are pruned only
  when `dispatchLocked` scans, which it does only below `Global`; the queue grows
  past `max_queued_requests` while all permits are taken.  `README.md:576`: "Queue
  length and wait time have hard limits".
* `es_batch_cleanup_deadline`, `pit_batch.go:33`.  The deferred `cancel` of a PIT
  batch runs before its deferred recovery, so a failed batch never cleans up
  within its own deadline.  `ARCHITECTURE.md:233`: "Normal cleanup uses the
  remaining caller deadline".
* `metadata_stale_refresh`, `mysql/target.go:545`.  A fresh call that followed a
  failed refresh answers with the entry cached before.  `RFC-0001:259`: "Refresh
  failure is returned to the caller and never silently falls back to stale
  metadata".
* `redis_stale_topology`, `redis/target.go:83`.  `Open` computes the revision after
  the client was built; a failover in between is taken for the client's own topology
  until `acl_recheck_interval`.
  `RFC-0004-redis-sentinel-cluster-modules.md:80-81`: "stale topology is never used for new
  requests".

Met while modelling, without a run of their own:

* `admission.go:188`: interactive callers that take turns keep a queued maintenance
  call waiting until its own timer; `RFC-0001:198` asks for bounded service of every
  class.  `AdmissionService` leaves maintenance out for that reason.
* `postgresql/target.go:365`: `Query` and `Explain` load the policy before they look at
  health, so no bound on its age holds for them; `BatchQuery` looks first.
* `mysql/target.go:307`: a query in flight when `Close` clears the result cache stores
  its result afterwards.  `mysql/target.go:698`: columns and indexes are read in two
  queries, so a description may never have existed.
* `metadata_cache.go:111`: a value too large for the cache leaves the older entry in
  place (section 9).
* MongoDB and Qdrant: of two concurrent proofs the last writer wins, also an older
  success over a newer failure; `ReadsProved` is what still holds.
* `neo4j/proof.go:37`: the wait for `Target.mu` has no deadline.
* `redis/target.go:366`: a check that got no permit leaves the target unhealthy until
  the next rebuild, since the checks in between find nothing changed.
* `redis/target.go:340`: the wait of the new client for `clientMu` has no bound.
  `ValidateRedis` (`target.go:187-203`) sets no deadline and the driver does not watch
  the one of a command (`runtime.go:58-63`), so its reads end with `read_timeout`, which
  is at least `max_timeout` (`config.go:859`).  The times stored after the wait
  (`target.go:350`) are too young by all of it; while it lasts no call gets the lock.
* `redis/topology.go:74-94`: with `read_role: replica` the revision hashes the selected
  replica without an epoch, so it can go A, B, A.  A build that finds B after its probe
  found A is recorded as A, and later probes of A find nothing changed, as after `Open`.
* `elasticsearch/target.go:81`: only a refresh that begins after the lapse starts a new
  epoch.  One that began before and ends up to `ConnectTimeout` after it renews the
  handles that were open in between, although `RFC-0006:451-452` says "Stale proof marks
  the target unhealthy, closes handles".
* `elasticsearch/target.go:101`: a denial between `attest` and `healthy.Store(true)` is
  overwritten; `authority.go:182`: the window between `Swap` and `Add` that
  `LapseClosesHandles` excepts.
* `transport.go:227`: the pool hands a connection on before it reports the return of
  the previous request, so `setActive(false)` may follow the next request's
  `setActive(true)`, and the end of the lifetime then closes a connection in use
  (`DialDone`, `GotConn`, `TimerFires`, `ReturnConn` to a waiter, its `GotConn`, the late
  `PutIdleConn`, `Close`).  `RFC-0006:637` asks for lifetimes "without interrupting
  active work"; the request fails with `transport_error`.
* `transport.go:121`: `CloseIdleConnections` makes room only until the next request
  clears the pool's flag; a connection that becomes idle after that keeps its slot
  while a dial to another node waits, until its context or the idle timeout ends.
* `cursor_registry.go:310`: the reaper holds a gate while it waits for a permit; both
  waits have deadlines.

## 9 What is proved

`AdmissionProofs.tla` proves `Spec => []IInv` for any finite set of calls, any set
of targets and any configuration that `config.validate` accepts
(`ConfigAssumption`), and from it `TypeCorrect`, `CapacitySafe`, `CeilingsSafe`,
`NoIdleCapacity`, `NoLostWaiter`, `NoLateGrant`, `WaitingIsBounded` and the refinement
`Refinement`.  `IInv` conjoins the safety invariants with
two that none of them can do without: `CallsConsistent` (who is inside the mutex,
and what a call's position says of its waiter) and `LiveWaits` (a live waiter in
a queue is a call that still waits, so granting it is granting somebody).
`CapacityAccounted` is what turns the test of a counter in `canRunLocked` into a
bound on the permits really held, and `WaitersQueuedOnce` is what makes removing
one position of one queue remove the waiter altogether.  The argument that no
capacity stays idle is the lemma `NobodyHeldBackForNobody`: when the dispatcher
stops with a free slot, no metadata waiter can run on its target (metadata is held
back by nothing but ceilings), hence no interactive waiter can either, hence no
waiter is held back for another.  The proof has a lemma per action (`GrantInv`,
`ReturnInv`, `AcquireInv`, `GiveBackInv`, `MarkCanceledInv`, `SelectInv`) over lemmas about
`Append`, `Without`, `Pruned` and counting.

`Refinement` is `Spec => ImplementsPermits`.  `AbstractSets` translates the abstract
sets of calls (granted, waiting, by target and class) into the controller's; that the
waiting calls are exactly the live waiters in the queues needs `WaitersQueuedOnce`,
`LiveWaits` and `CallsConsistent`.  Then each action implements one abstract action or
changes nothing a caller sees: `GrantImplements` (a grant respects the limits counted
on the calls, by `CapacityAccounted`), `AcquireImplements`, `FinishImplements`,
`SelectImplements`, `ReturnImplements`.

The action properties rest on the same invariant.  `ReserveHolds`: while a metadata
waiter is below its target's ceiling no other class is granted the last reserved
slots.  `FirstComeFirstServed`: of two live waiters of one class and target the later
is never granted first; the lemma `PrunedShape` says that pruning keeps the order of
what stays.  `ServiceIsWeighted` needs the invariant `Closer`: for a class that is
entitled to be served (metadata always, interactive and batch without a reserve) the
grants it was passed over plus the positions between `next` and its next turn are at
most the longest distance between two of its turns, so that every grant to another
class brings its turn nearer.  The proof attempt found that this fails when grants made
while the class was at a ceiling are not taken as the end of a row; TLC had not shown
it with one target.  `passedOver` now counts grants in a row.

**`EsCursorProofs`**, for any sets of handles, calls and sessions and any
limits that `ConfigAssumption` allows, proves `RegistryTypeCorrect`, `NoContextOrphaned`,
`NoPageSkipped`, `LeaseEndsFirst`, `ReservationsExact` and the refinement
`RegistryRefines`.  The invariant relates the
record of one cursor, its native context and the request that holds its gate
(`Sound`), so that a step has to be followed for one cursor only:

* `Horizon`: whatever the server holds, or a request still under way may yet create,
  ends no later than `serverUntil`, the retirement timer is armed, and while a request
  is under way the cursor is `uncertain`; a request that creates a context meets none
  that exists, and a cursor that was dispatched and has no identifier is `uncertain` or
  done, so that no later request of it is taken for a first one.  This is what makes it safe to give a slot
  back when the timer runs, whether or not an answer ever came.
* `Holding`: what each place in a handler knows.  A page that was read advances the
  position of the context by the one page the client is about to be given, so when
  the gate is free and the cursor usable, server and client agree.
* `Gates`: the gate, the request that believes it holds it, and the cleaner agree.
* `Budget`: the counters equal the reservations that exist.

`RegistryRefines` is `Spec => ImplementsContexts`.  `AbstractSets` turns the abstract sets
of handles and of memory units into the registry's counters, by `Budget`; `ViewStep` says
that a step on one cursor changes what `Contexts` sees at that cursor only.  The many ways
to end a cursor (close, recovery, drained SQL, reaper, sweeps, timer, the answer to a
cleanup) share one lemma, `KeptImplements`: each leaves a record that is released or still
says what it said (`Kept`), and by `Horizon` a released one has no context and none coming,
so the step is `Return`, `Lapse` or nothing.  `BeginDispatchImplements` needs that a cursor
without identifiers which may be dispatched is fresh, hence asks for the first time; this is
what the invariant had to be strengthened for.  A tick is a `Lapse` of all contexts that
expire in it and of all requests that are lost (`TickView`).

**`MetadataCacheProofs`**, for any calls, keys, versions and limits, proves
`CacheTypeCorrect`, `SingleFlightHolds`, `LimitsHold` and, under the premise `AllFit`,
`MonotonicReadsHold`.  For the last the inductive invariant is
`Types /\ SingleFlight /\ Coherent`: what the cache holds of a key and has not expired
is the newest version any call has returned, and a leader that has its answer holds
one at least as new.  Single flight is what makes this inductive: two leaders could
finish in the other order than they read.  `AllFit` (every version fits in the cache)
is needed: `finish` returns at `metadata_cache.go:111` without storing a value that is
too large, and leaves the older entry, which later calls are then answered with,
although `RFC-0001:256` says that a fresh read replaces the entry.  `LimitsHold` needs
`Listed`: a key is listed once and exactly when it has an entry, and `bytes` is the
size of what is listed.  The running count of the code (old size off, new size on,
each evicted size off) is compared with the cardinality of the set of single bytes,
since a recursive sum could not be reasoned about.

**`SqlTargetProofs`**, for any calls and any times of `SqlAssumption`, proves
`TargetTypeCorrect`, `GateExcludesRefuted`, `CachedAnswersAreRecent`,
`StartsBeforeTheFinding`, `StartsOnRecentProof` and `BatchesStartOnRecentPolicy`.
`Gate` says who is inside the gate and that a writer that holds it excludes readers;
`Refuted` that a finding is stored or about to be; the other parts bound an age by the
time that is left: what a context still has to run is what its evidence may still age
(`Timely`, `CheckTimely`, `ProofTimely`, `CacheTimely`).

**`ProofClockProofs`** proves `ReadsAreProved` from the same kind of bound for every
process (`Timely`, `Ages`), and `FailedProofBlocks` from `Exclusive`: Neo4j proves under
`Target.mu`, takes the last proof back first, and who holds the lock knows what was
read last.  `ClockTypeCorrect` needs both and nothing else.

**`RedisTargetProofs`** proves `RedisTypeCorrect`, `CommandsKeepTheirPair`,
`CommandsStartAttested` and `OwnTopologyIsFollowed`.  `Lock` and `Pair`: no client is
replaced under a command, and the installed one is open; `BuildTimely` and
`ProofTimely` bound ages by what is left of a check.  `Follows`: a probe that finds the
client's own topology finds no drift, and while the revision is the client's
(`OwnRevision`) the drift is never older than `lastTopology` by more than one check.
Nothing is assumed of the calls, which may hold `clientMu` forever, nor of the order in
which topologies come.

**`EsAuthorityProofs`** proves `RequestsAreProved` (the hash in force was reported no
earlier than one attestation before `checked`; a cursor of this epoch was opened under
that hash, but for the moment between the new hash and its epoch), `LapsedCursorsEnd`
and `AuthorityTypeCorrect`.  For the lapse `RefreshInTime` is needed: a refresh that
began under a valid proof ends, or has lost its context, within `ConnectTimeout` of the
lapse; with `LapsedEnds` a lapsed cursor of this epoch leaves only a healthy, idle target
whose next refresh begins with a new epoch, or an `Add` on its way.  The attempt to prove it
showed that a cursor that was reserved when the proof lapsed and not yet dispatched is
used later, under a renewed proof; the code means that (`beginCursorDispatch` checks
`ready` again), and the model now excepts it (`Opening`).

**`EsWireProofs`** proves `EverySocketHasASlot` and `WireTypeCorrect` for any number of
connections, requests, nodes and slots: the slots taken are as many as the sockets that
are dialed or open.  So the eviction that needs two slots, which the run leaves out, is
covered by the proof.

Assumptions on constants are named in the module that declares them and say what the
configuration validates (positive intervals, natural limits) and that the calls of
`Admission` and the connections of `EsWire` are finitely many; TLC evaluates each of them in the runs that extend the module.

Only model-checked: the liveness properties (`EveryCallReturns` of admission and of the
SQL targets, `CloseEnds`, `EveryReservationReturned`), since the prover handles neither
`ENABLED` nor fairness.  `MCTargets` runs five components side by side, each proved on its
own module.

## 10 What is not modelled

* *Size.*  Of the roughly 113,600 lines of implementation about 85,000 are ANTLR
  parsers generated for Elasticsearch's languages; of the 28,000 hand-written lines
  most are parsers, request policies and response conversion.  The models cover the
  parts in which several actors share state; the rest has no state to model, so the
  share of lines covered stays small.
* Parsers and policies (ES DSL, ES|QL, EQL, SQL, Redis commands, MySQL, PostgreSQL,
  SQL Server, MongoDB, Qdrant, Cypher): pure functions of large syntaxes; a model would
  restate their tables.  Their verdict is a nondeterministic outcome of the calls.
* What a proof looks at (grants, catalogs, API keys, remote clusters, Sentinel
  agreement, slot coverage, module attestation): the outcome of one reading.
* Elasticsearch source verification and memory charges: taken and returned by one
  goroutine in one `defer`.
* SQLite and DuckDB: one flag, and guarantees that are the engine's or the operating
  system's.  The registry: a map filled once and emptied under one lock.
* MCP tool declarations, configuration, audit, metrics, process start, generated
  code, build tools: no state that anything reads back.

## 11 How to run

In this directory: `tlc -workers 2 -config MCTargets.cfg MCTargets`, and likewise for
the other configurations; `PROJECT.json` names the module of each (`MCAdmissionQueue`
belongs to `MCAdmission`, the `MCEsCursor...` configurations to `MCEsCursor`,
`MCMetadataCacheStale` to `MCMetadataCache`, `MCSqlTargetLive` to `MCSqlTarget`,
`MCRedisStale` to `MCRedisTarget`).  The longest run takes about three minutes.
`tlapm AdmissionProofs.tla`, and likewise for the other modules named `...Proofs`, checks
the proofs; `EsCursorProofs` takes longest.  The operators commented "Mutant" are deliberate mistakes: replacing the definition named
in `PROJECT.json` by one of them makes the property named there fail.
