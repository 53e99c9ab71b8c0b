------------------------------ MODULE SqlTarget ------------------------------
(***************************************************************************)
(* The SQL targets: how a request and the periodic privilege recheck of a  *)
(* MySQL, PostgreSQL or SQL Server target share its health, its gate and   *)
(* its result cache (internal/dialects/{mysql,postgresql,sqlserver}).      *)
(*                                                                         *)
(* Times are ages that Tick lets grow and contexts that it runs down; a    *)
(* goroutine that is not waiting takes no time.                            *)
(***************************************************************************)
EXTENDS Integers, Sequences, FiniteSets

CONSTANTS
    Requests,       \* the calls of Query, Explain and BatchQuery in progress
    Engines,        \* the dialects to consider
    Interval,       \* privilege_recheck_interval
    CheckTimeout,   \* connect_timeout (read_timeout for SQL Server)
    MaxTimeout,     \* limits.max_timeout
    TTL,            \* result_cache.ttl
    PerTarget       \* admission: permits for this target

Op == {"query", "explain", "batch"}
Engine == {"mysql", "postgresql", "sqlserver"}

ASSUME SqlAssumption ==
    /\ Engines \subseteq Engine
    /\ Interval \in Nat \ {0} /\ CheckTimeout \in Nat /\ MaxTimeout \in Nat \ {0}
    /\ TTL \in Nat /\ PerTarget \in Nat \ {0}

VARIABLES
    engine,
    healthy, verified,  \* Target.healthy; the age of verifiedAt (lastAttested)
    policyAge,          \* age of the catalog behind Target.policy (PostgreSQL)
    readers, writer,    \* Target.gate: who holds RLock; "none", "waiting", "holding"
    permits,            \* the calls that hold an admission permit
    cache,              \* the result cache's entry for the one query considered
    req,                \* the calls: operation, position, context, what they rely on
    check, due,         \* the recheck goroutine; a tick waits in its ticker's channel
    sinceTick,          \* time since the ticker fired
    life,               \* "open", "closing" (Close waits for the recheck), "closed"
    evidence, refuted   \* history: the age of the reading behind the last successful
                        \* recheck; the last reading showed excessive privileges

vars == <<engine, healthy, verified, policyAge, readers, writer, permits, cache,
          req, check, due, sinceTick, life, evidence, refuted>>

Recheck == "recheck"     \* the recheck goroutine as the holder of a permit

(* What a request relies on is never older than this; ages stop counting   *)
(* one past it.                                                            *)
ProofLimit == 2 * Interval + CheckTimeout
AnswerLimit == ProofLimit + MaxTimeout + TTL
Older(a, limit) == IF a > limit THEN a ELSE a + 1
Less(n) == IF n = 0 THEN 0 ELSE n - 1

(* The engines whose recheck excludes queries with Target.gate.            *)
gated == engine \in {"mysql", "sqlserver"}

NoCall == [op |-> "query", at |-> 0, left |-> 0, policyAge |-> 0, evidence |-> 0]
NoEntry == [left |-> -1, evidence |-> 0]

(* Open: the startup proof has succeeded.                                  *)
Init ==
    /\ engine \in Engines
    /\ healthy = TRUE /\ verified = 0 /\ policyAge = 0
    /\ readers = {} /\ writer = "none" /\ permits = {}
    /\ cache = NoEntry
    /\ req = [r \in Requests |-> NoCall]
    /\ check = [at |-> "idle", left |-> 0, ok |-> FALSE, read |-> 0]
    /\ due = FALSE /\ sinceTick = 0
    /\ life = "open"
    /\ evidence = 0 /\ refuted = FALSE
-----------------------------------------------------------------------------
(* What the calls do, in which order.  "load" validates the statement with *)
(* the policy of that moment, "check" and "recheck" are requireHealthy.    *)
(* A query that may not be cached takes the steps of a batch.              *)

mysqlSteps(op) ==
    CASE op = "query"   -> <<"check", "cached", "acquire", "gate", "recheck", "run", "store">>
      [] op = "explain" -> <<"acquire", "gate", "recheck", "run">>
      [] op = "batch"   -> <<"check", "acquire", "gate", "recheck", "run">>

(* Mutants: health is not looked at again after the wait for a permit; a   *)
(* batch is validated before health is looked at.                          *)
postgresqlStepsLoadFirst(op) == <<"load", "check", "acquire", "recheck", "run">>
postgresqlStepsOnce(op) ==
    IF op = "batch" THEN <<"check", "load", "acquire", "run">>
                    ELSE <<"load", "check", "acquire", "run">>

postgresqlSteps(op) ==
    IF op = "batch" THEN <<"check", "load", "acquire", "recheck", "run">>
                    ELSE <<"load", "check", "acquire", "recheck", "run">>

sqlserverSteps(op) ==
    IF op = "explain" THEN <<"acquire", "gate", "recheck", "run">>
                      ELSE <<"check", "acquire", "gate", "recheck", "run">>

Steps(op) == CASE engine = "mysql"      -> mysqlSteps(op)
               [] engine = "postgresql" -> postgresqlSteps(op)
               [] engine = "sqlserver"  -> sqlserverSteps(op)

At(r) == IF req[r].at = 0 THEN "idle" ELSE Steps(req[r].op)[req[r].at]

(* A call at step i of its program.  Its context starts to run when it     *)
(* asks for a permit; once it runs, nothing looks at its policy again.     *)
Moved(c, i) ==
    [c EXCEPT !.at = i,
              !.left = IF Steps(c.op)[i] = "acquire" THEN MaxTimeout ELSE @,
              !.policyAge = IF Steps(c.op)[i] = "run" THEN 0 ELSE @]

Advance(r) == req' = [req EXCEPT ![r] = Moved(@, req[r].at + 1)]

(* A call returns: its deferred RUnlock and Release run, in this order.    *)
Return(r) ==
    /\ req' = [req EXCEPT ![r] = NoCall]
    /\ readers' = readers \ {r}
    /\ permits' = permits \ {r}

target == <<healthy, verified, policyAge>>
locks == <<readers, writer, permits>>
loop == <<check, due, sinceTick>>
world == <<engine, life>>
history == <<evidence, refuted>>

(* Mutant: the age of the last proof is not looked at.                     *)
requireFlag == healthy

requireHealthy == healthy /\ verified <= 2 * Interval
-----------------------------------------------------------------------------
(* The calls.                                                              *)

Begin(r, op) ==
    /\ At(r) = "idle"
    /\ req' = [req EXCEPT ![r] = Moved([NoCall EXCEPT !.op = op], 1)]
    /\ UNCHANGED <<target, locks, cache, loop, world, history>>

(* The statement is validated with the policy snapshot, or refused.  Only  *)
(* the policy of a batch has an age that is bounded, and is remembered.    *)
Load(r) ==
    /\ At(r) = "load"
    /\ \/ /\ req' = [req EXCEPT ![r] =
                Moved([@ EXCEPT !.policyAge = IF req[r].op = "batch" THEN policyAge ELSE 0], req[r].at + 1)]
          /\ UNCHANGED locks
       \/ Return(r) /\ UNCHANGED writer
    /\ UNCHANGED <<target, cache, loop, world, history>>

(* Only a result that may be cached needs to remember its proof.           *)
Kept(r) == IF At(r) = "recheck" /\ engine = "mysql" /\ req[r].op = "query" THEN evidence ELSE 0

Check(r) ==
    /\ At(r) \in {"check", "recheck"}
    /\ \/ /\ requireHealthy
          /\ req' = [req EXCEPT ![r] = Moved([@ EXCEPT !.evidence = Kept(r)], req[r].at + 1)]
          /\ UNCHANGED locks
       \/ ~requireHealthy /\ Return(r) /\ UNCHANGED writer
    /\ UNCHANGED <<target, cache, loop, world, history>>

(* Mutant: a hit renews the entry.                                         *)
CachedSliding(r) ==
    /\ At(r) = "cached"
    /\ \/ Return(r) /\ cache' = [cache EXCEPT !.left = TTL] /\ UNCHANGED writer
       \/ /\ cache.left < 0
          /\ cache' = NoEntry
          /\ Advance(r) /\ UNCHANGED locks
    /\ UNCHANGED <<target, loop, world, history>>

(* validateRequest and the policy may refuse the statement; then           *)
(* resultCache.get: a hit is the answer, an expired entry is removed.      *)
Cached(r) ==
    /\ At(r) = "cached"
    /\ \/ Return(r) /\ UNCHANGED <<cache, writer>>
       \/ /\ cache.left < 0
          /\ cache' = NoEntry
          /\ Advance(r) /\ UNCHANGED locks
    /\ UNCHANGED <<target, loop, world, history>>

(* The wait for a permit ends with the permit, or with an error when the   *)
(* queue is full, its timer fires or the context ends.                     *)
Acquire(r) ==
    /\ At(r) = "acquire"
    /\ \/ /\ Cardinality(permits) < PerTarget
          /\ permits' = permits \cup {r}
          /\ Advance(r) /\ UNCHANGED <<readers, writer>>
       \/ Return(r) /\ UNCHANGED writer
    /\ UNCHANGED <<target, cache, loop, world, history>>

(* Mutant: a reader passes a writer that holds the lock.                   *)
RLockIgnoringWriter(r) ==
    /\ At(r) = "gate"
    /\ readers' = readers \cup {r}
    /\ Advance(r)
    /\ UNCHANGED <<target, writer, permits, cache, loop, world, history>>

(* gate.RLock: a writer that waits already blocks new readers, and no      *)
(* context ends the wait.                                                  *)
RLock(r) ==
    /\ At(r) = "gate"
    /\ writer = "none"
    /\ readers' = readers \cup {r}
    /\ Advance(r)
    /\ UNCHANGED <<target, writer, permits, cache, loop, world, history>>

(* The transaction ends with a result, or with an error: a context that    *)
(* has ended or a closed handle allows nothing else.                       *)
Run(r) ==
    /\ At(r) = "run"
    /\ \/ /\ req[r].at < Len(Steps(req[r].op))
          /\ req[r].left > 0
          /\ Advance(r)
          /\ readers' = readers \ {r} /\ permits' = permits \ {r}
       \/ Return(r)
    /\ UNCHANGED <<target, writer, cache, loop, world, history>>

(* resultCache.put: a truncated or large result is not stored, and the     *)
(* eviction loop may drop the new entry itself.                            *)
Store(r) ==
    /\ At(r) = "store"
    /\ cache' \in {cache, NoEntry, [left |-> TTL, evidence |-> req[r].evidence]}
    /\ Return(r)
    /\ UNCHANGED <<target, writer, loop, world, history>>
-----------------------------------------------------------------------------
(* startPrivilegeRecheck: the goroutine.                                   *)

(* Its select takes a tick, although Close may have cancelled it too.      *)
CheckBegins ==
    /\ check.at = "idle" /\ due
    /\ due' = FALSE
    /\ check' = [check EXCEPT !.at = "acquire",
                              !.left = IF life = "open" THEN CheckTimeout ELSE 0]
    /\ UNCHANGED <<target, locks, cache, req, sinceTick, world, history>>

(* Mutant: Close waits before it cancels.                                  *)
CheckStopsLate ==
    /\ check.at = "idle" /\ life = "closed"
    /\ check' = [check EXCEPT !.at = "stopped"]
    /\ UNCHANGED <<target, locks, cache, req, due, sinceTick, world, history>>

CheckStops ==
    /\ check.at = "idle" /\ life # "open"
    /\ check' = [check EXCEPT !.at = "stopped"]
    /\ UNCHANGED <<target, locks, cache, req, due, sinceTick, world, history>>

(* Without a permit the target is unhealthy, whatever queries hold.        *)
CheckAcquires ==
    /\ check.at = "acquire"
    /\ \/ /\ Cardinality(permits) < PerTarget /\ check.left > 0
          /\ permits' = permits \cup {Recheck}
          /\ check' = [check EXCEPT !.at = IF gated THEN "lock" ELSE "inspect"]
          /\ writer' = IF gated THEN "waiting" ELSE writer
          /\ UNCHANGED healthy
       \/ /\ healthy' = FALSE
          /\ check' = [check EXCEPT !.at = "idle", !.left = 0]
          /\ UNCHANGED <<permits, writer>>
    /\ UNCHANGED <<verified, policyAge, readers, cache, req, due, sinceTick, world, history>>

(* gate.Lock returns when the readers are gone.                            *)
CheckLocks ==
    /\ check.at = "lock" /\ readers = {}
    /\ writer' = "holding"
    /\ check' = [check EXCEPT !.at = "inspect"]
    /\ UNCHANGED <<target, readers, permits, cache, req, due, sinceTick, world, history>>

(* The identity and its privileges are read, and are what the policy       *)
(* allows or are not: an administrator may have changed them at any time.  *)
(* With a context that has ended nothing can be read.                      *)
CheckReads ==
    /\ check.at = "inspect" /\ check.left > 0
    /\ \E ok \in BOOLEAN : check' = [check EXCEPT !.at = "inspected", !.ok = ok]
    /\ UNCHANGED <<target, locks, cache, req, due, sinceTick, world, history>>

(* The inspection ends: with what was read, or with an error.              *)
CheckJudges ==
    \/ /\ check.at = "inspected" /\ check.left > 0
       /\ check' = [check EXCEPT !.at = IF check.ok THEN "proved" ELSE "failed"]
       /\ refuted' = ~check.ok
       /\ UNCHANGED <<target, locks, cache, req, due, sinceTick, world, evidence>>
    \/ /\ check.at \in {"inspect", "inspected"}
       /\ check' = [check EXCEPT !.at = "failed"]
       /\ UNCHANGED <<target, locks, cache, req, due, sinceTick, world, history>>

(* Success: policy.Store (PostgreSQL), the time, the flag, one by one.     *)
StorePolicy ==
    /\ check.at = "proved"
    /\ policyAge' = IF engine = "postgresql" THEN check.read ELSE policyAge
    /\ check' = [check EXCEPT !.at = "dated"]
    /\ UNCHANGED <<healthy, verified, locks, cache, req, due, sinceTick, world, history>>

StoreTime ==
    /\ check.at = "dated"
    /\ verified' = 0 /\ evidence' = check.read
    /\ check' = [check EXCEPT !.at = "healthy"]
    /\ UNCHANGED <<healthy, policyAge, locks, cache, req, due, sinceTick, world, refuted>>

(* Mutant: the gate is left locked.                                        *)
UnlockedNever ==
    /\ permits' = permits \ {Recheck}
    /\ check' = [check EXCEPT !.at = "idle", !.left = 0, !.ok = FALSE, !.read = 0]
    /\ UNCHANGED writer

Unlocked ==
    /\ writer' = "none"
    /\ permits' = permits \ {Recheck}
    /\ check' = [check EXCEPT !.at = "idle", !.left = 0, !.ok = FALSE, !.read = 0]

(* The flag is stored, the gate unlocked and the permit released.          *)
StoreHealth ==
    /\ check.at \in {"healthy", "failed"}
    /\ healthy' = (check.at = "healthy")
    /\ Unlocked
    /\ UNCHANGED <<verified, policyAge, readers, cache, req, due, sinceTick, world, history>>
-----------------------------------------------------------------------------
(* Close and the clock.                                                     *)

(* maintenanceStop cancels the recheck's context.                          *)
CloseStops ==
    /\ life = "open"
    /\ life' = "closing"
    /\ check' = [check EXCEPT !.left = 0]
    /\ UNCHANGED <<engine, target, locks, cache, req, due, sinceTick, history>>

(* maintenanceWG.Wait has returned: the caches are cleared.                *)
CloseReturns ==
    /\ life = "closing" /\ check.at = "stopped"
    /\ life' = "closed"
    /\ cache' = NoEntry
    /\ UNCHANGED <<engine, target, locks, req, loop, history>>

(* Only waiting takes time, and a context that has ended ends the waits    *)
(* that look at it.                                                        *)
Waits(r) ==
    \/ At(r) \in {"idle", "gate"}
    \/ At(r) \in {"acquire", "run"} /\ req[r].left > 0

CheckWaits ==
    \/ check.at \in {"lock", "stopped"}
    \/ check.at = "idle" /\ ~due
    \/ check.at \in {"acquire", "inspect", "inspected"} /\ check.left > 0

Tick ==
    /\ \A r \in Requests : Waits(r)
    /\ CheckWaits
    /\ verified' = Older(verified, 2 * Interval)
    /\ policyAge' = IF engine = "postgresql" THEN Older(policyAge, ProofLimit + MaxTimeout) ELSE 0
    /\ evidence' = Older(evidence, ProofLimit)
    /\ req' = [r \in Requests |->
                [req[r] EXCEPT !.left = Less(@),
                    !.policyAge = IF At(r) \in {"acquire", "recheck"} /\ engine = "postgresql"
                                       /\ req[r].op = "batch"
                                  THEN Older(@, ProofLimit + MaxTimeout) ELSE @,
                    !.evidence = IF At(r) = "run" /\ engine = "mysql" /\ req[r].op = "query"
                                 THEN Older(@, AnswerLimit) ELSE @]]
    /\ check' = [check EXCEPT !.left = Less(@),
                    !.read = IF check.at = "inspected" THEN @ + 1 ELSE @]
    /\ cache' = IF cache.left <= 0 THEN NoEntry
                ELSE [left |-> cache.left - 1, evidence |-> Older(cache.evidence, AnswerLimit)]
    /\ sinceTick' = (sinceTick + 1) % Interval
    /\ due' = (due \/ sinceTick + 1 = Interval)
    /\ UNCHANGED <<healthy, locks, world, refuted>>

CallStep(r) == Load(r) \/ Check(r) \/ Cached(r) \/ Acquire(r) \/ RLock(r) \/ Run(r) \/ Store(r)

CheckStep ==
    \/ CheckAcquires \/ CheckLocks \/ CheckReads \/ CheckJudges
    \/ StorePolicy \/ StoreTime \/ StoreHealth

Next ==
    \/ \E r \in Requests : CallStep(r) \/ \E op \in Op : Begin(r, op)
    \/ CheckBegins \/ CheckStops \/ CheckStep
    \/ CloseStops \/ CloseReturns
    \/ Tick

Spec == Init /\ [][Next]_vars

(* Goroutines go on and contexts end; a select that Close has cancelled    *)
(* takes that arm some day; sync.RWMutex lets the waiting readers in when  *)
(* a writer leaves, so a call that waits at the gate gets in although the  *)
(* next recheck closes it again (SF).                                      *)
Fairness ==
    /\ \A r \in Requests : SF_vars(CallStep(r))
    /\ WF_vars(CheckStep \/ CloseReturns) /\ SF_vars(CheckStops)
    /\ WF_vars(Tick)

FairSpec == Spec /\ Fairness
-----------------------------------------------------------------------------
Ages == 0..(AnswerLimit + 1)

TypeOK ==
    /\ engine \in Engines
    /\ healthy \in BOOLEAN /\ verified \in Ages /\ policyAge \in Ages
    /\ readers \subseteq Requests /\ writer \in {"none", "waiting", "holding"}
    /\ permits \subseteq Requests \cup {Recheck}
    /\ cache \in [left : -1..TTL, evidence : Ages]
    /\ req \in [Requests -> [op : Op, at : 0..7, left : 0..MaxTimeout,
                             policyAge : Ages, evidence : Ages]]
    /\ check \in [at : {"idle", "acquire", "lock", "inspect", "inspected", "proved",
                        "dated", "healthy", "failed", "stopped"},
                  left : 0..CheckTimeout, ok : BOOLEAN, read : Ages]
    /\ due \in BOOLEAN /\ sinceTick \in 0..(Interval - 1)
    /\ life \in {"open", "closing", "closed"}
    /\ evidence \in Ages /\ refuted \in BOOLEAN

Running(r) == At(r) = "run"
Starts(r) == ~Running(r) /\ Running(r)'

(* With a gate no query runs after a recheck has seen excessive privileges *)
(* until another one has found them in order: the finding waits for the    *)
(* queries that started before it, and the queries that come later wait    *)
(* for the finding (mysql/target.go:370-374, 880-895; sqlserver likewise). *)
RunsUnrefuted == gated => \A r \in Requests : Running(r) => ~refuted

(* PostgreSQL has no gate (postgresql/target.go:629-633): a query may      *)
(* start after the recheck has seen excessive privileges, but only until   *)
(* it has stored its finding.                                              *)
StartsUnrefuted ==
    [][\A r \in Requests : Starts(r) /\ refuted => check.at = "failed"]_vars

(* Two intervals after the last proof at the latest no query starts: what  *)
(* a query relies on as it starts was read from the server no longer than  *)
(* two intervals and one check ago, however long the query waited for its  *)
(* permit and the gate, and whatever rechecks were skipped or failed.      *)
StartsProved ==
    [][\A r \in Requests : Starts(r) => evidence <= ProofLimit]_vars

(* A cached answer relies on a proof that is older only by the time its    *)
(* query took and the entry's lifetime (mysql/target.go:281-308).          *)
CachedProved == cache.left >= 0 => cache.evidence + cache.left <= AnswerLimit

(* A batch of a PostgreSQL target is validated with a policy read at most  *)
(* two intervals, a check and its own wait ago: BatchQuery looks at health *)
(* before it loads the policy (postgresql/batch.go:20-44).                 *)
BatchPolicyRecent ==
    [][\A r \in Requests :
        Starts(r) /\ engine = "postgresql" /\ req[r].op = "batch"
        => req[r].policyAge <= ProofLimit + MaxTimeout]_vars

(* Every call returns, although a waiting recheck blocks all later queries *)
(* at the gate and no context ends that wait.                              *)
EveryCallReturns == \A r \in Requests : At(r) # "idle" ~> At(r) = "idle"

(* Close returns, whatever the recheck was waiting for when it came.       *)
CloseEnds == life = "closing" ~> life = "closed"
=============================================================================
