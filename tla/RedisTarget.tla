----------------------------- MODULE RedisTarget -----------------------------
(***************************************************************************)
(* A Redis target: commands against the maintenance goroutine that probes  *)
(* the topology, rebuilds the client and replaces it under clientMu        *)
(* (internal/dialects/redis/target.go).                                    *)
(*                                                                         *)
(* A topology is a number: what discovery finds at a moment.  A client is  *)
(* pinned to the topology that buildRuntime found.  Times are ages that    *)
(* RedisTick lets grow; a goroutine that is not waiting takes no time.     *)
(*                                                                         *)
(* Nothing bounds the time a call holds clientMu: ValidateRedis sets no    *)
(* deadline, and the driver is not told to watch the context of a command  *)
(* (dataOptions leaves ContextTimeoutEnabled unset), so an exchange with a *)
(* node that has begun ends with the connection's own timeouts.            *)
(***************************************************************************)
EXTENDS Integers, FiniteSets

CONSTANTS
    Commands,        \* the calls of RedisCommand, RedisBatch and ValidateRedis
    Modes,           \* the deployment modes to consider
    MaxTopology,     \* the topologies of the deployment are 0..MaxTopology
    ProbeInterval,   \* the ticker: the shortest configured interval
    ACLRecheck,      \* acl_recheck_interval
    CatalogMaxAge,   \* command_catalog_max_age
    TopologyMaxAge,  \* topology_max_age, or three Sentinel refresh_intervals
    BuildTimeout,    \* startupTimeout
    IOTimeout        \* the exchange with a node that may outlast its context

(* The configured times are whole numbers of ticks; the ticker's is not 0. *)
ASSUME RedisAssumption ==
    /\ MaxTopology \in Nat /\ ProbeInterval \in Nat \ {0}
    /\ CatalogMaxAge \in Nat /\ TopologyMaxAge \in Nat
    /\ BuildTimeout \in Nat /\ IOTimeout \in Nat

VARIABLES
    mode,                              \* redis.mode
    topology,                          \* the deployment's topology now
    client, policy,                    \* the generations of Target.client and Target.policy
    pinned,                            \* the topology of each generation's client
    open,                              \* the generations whose client is open
    revision,                          \* Target.topologyRevision; -1 for none
    redisHealthy,
    attested, probed,                  \* the ages of lastAttested and lastTopology
    redisReaders, redisWriter,         \* clientMu
    command,                           \* the calls: position and the client in use
    redisCheck, redisDue, redisSince,  \* the maintenance goroutine and its ticker
    redisLife,
    redisEvidence,                     \* history: the age of the attestation behind the client
    drift                              \* history: since when the client's topology is not the
                                       \* deployment's; neither counts the wait of Install

redisVars == <<mode, topology, client, policy, pinned, open, revision, redisHealthy, attested,
               probed, redisReaders, redisWriter, command, redisCheck, redisDue, redisSince,
               redisLife, redisEvidence, drift>>

Unknown == -1
Generations == {0, 1}

(* The longest check.  How old an attestation may be when a command starts *)
(* and how long the deployment may have left the topology the command      *)
(* uses: the time limit and one check.                                     *)
CheckLimit == BuildTimeout + IOTimeout
AttestedLimit == CatalogMaxAge + CheckLimit
DriftLimit == TopologyMaxAge + CheckLimit

Aged(a, limit) == IF a > limit THEN a ELSE a + 1
Left(n) == IF n = 0 THEN 0 ELSE n - 1

distributed == mode \in {"sentinel", "cluster"}

(* left: what remains of the context and of the exchange that may outlast  *)
(* it; read: the age of what the build has read.                           *)
NoCheck == [at |-> "idle", left |-> 0, found |-> Unknown, ok |-> FALSE, read |-> 0]

(* Open: buildRuntime has pinned a client, then the revision was computed  *)
(* in a discovery of its own, which may have failed.                       *)
RedisInit ==
    /\ mode \in Modes
    /\ topology \in 0..MaxTopology
    /\ \E built \in 0..MaxTopology :
        /\ built = topology \/ distributed
        /\ pinned = [g \in Generations |-> built]
    /\ client = 0 /\ policy = 0 /\ open = {0}
    /\ revision \in IF distributed THEN {topology, Unknown} ELSE {Unknown}
    /\ redisHealthy = TRUE /\ attested = 0 /\ probed = 0
    /\ redisReaders = {} /\ redisWriter = "none"
    /\ command = [c \in Commands |-> [at |-> "idle", client |-> 0]]
    /\ redisCheck = NoCheck /\ redisDue = FALSE /\ redisSince = 0
    /\ redisLife = "open"
    /\ redisEvidence = 0 /\ drift = 0

installed == <<client, policy, pinned, open, revision>>
state == <<redisHealthy, attested, probed>>
lock == <<redisReaders, redisWriter>>
redisLoop == <<redisCheck, redisDue, redisSince>>
outside == <<mode, topology, redisLife>>
redisHistory == <<redisEvidence, drift>>
-----------------------------------------------------------------------------
(* The calls.                                                              *)

(* Mutant: the age of the last attestation is not looked at.               *)
requireHealthyTopologyOnly == redisHealthy /\ (distributed => probed <= TopologyMaxAge)

requireRedisHealthy ==
    /\ redisHealthy
    /\ attested <= CatalogMaxAge
    /\ distributed => probed <= TopologyMaxAge

CommandGoto(c, where) == command' = [command EXCEPT ![c].at = where]

CommandReturns(c) ==
    /\ command' = [command EXCEPT ![c] = [at |-> "idle", client |-> 0]]
    /\ redisReaders' = redisReaders \ {c}

CommandBegins(c) ==
    /\ command[c].at = "idle"
    /\ requireRedisHealthy
    /\ command' = [command EXCEPT ![c] = [at |-> "acquire", client |-> 0]]
    /\ UNCHANGED <<installed, state, lock, redisLoop, outside, redisHistory>>

(* The wait for a permit ends with it or with an error.                    *)
CommandAcquires(c) ==
    /\ command[c].at = "acquire"
    /\ \/ CommandGoto(c, "lock") /\ UNCHANGED redisReaders
       \/ CommandReturns(c)
    /\ UNCHANGED <<installed, state, redisWriter, redisLoop, outside, redisHistory>>

(* clientMu.RLock: a waiting writer goes first.                            *)
ClientRLock(c) ==
    /\ command[c].at = "lock" /\ redisWriter = "none"
    /\ redisReaders' = redisReaders \cup {c}
    /\ CommandGoto(c, "check")
    /\ UNCHANGED <<installed, state, redisWriter, redisLoop, outside, redisHistory>>

(* requireHealthy again; the command is then validated and sent with the   *)
(* policy and the client of this moment.                                   *)
CommandChecks(c) ==
    /\ command[c].at = "check"
    /\ \/ /\ requireRedisHealthy
          /\ command' = [command EXCEPT ![c].at = "run", ![c].client = client]
          /\ UNCHANGED redisReaders
       \/ ~requireRedisHealthy /\ CommandReturns(c)
    /\ UNCHANGED <<installed, state, redisWriter, redisLoop, outside, redisHistory>>

(* A reply or an error, whenever that comes; RUnlock.                      *)
CommandRuns(c) ==
    /\ command[c].at = "run"
    /\ CommandReturns(c)
    /\ UNCHANGED <<installed, state, redisWriter, redisLoop, outside, redisHistory>>
-----------------------------------------------------------------------------
(* startMaintenance.                                                       *)

RedisCheckBegins ==
    /\ redisCheck.at = "idle" /\ redisDue
    /\ redisDue' = FALSE
    /\ redisCheck' = [NoCheck EXCEPT !.at = "acquire",
                                    !.left = IF redisLife = "open" THEN CheckLimit ELSE 0]
    /\ UNCHANGED <<installed, state, lock, command, redisSince, outside, redisHistory>>

RedisCheckStops ==
    /\ redisCheck.at = "idle" /\ redisLife = "closing"
    /\ redisCheck' = [NoCheck EXCEPT !.at = "stopped"]
    /\ UNCHANGED <<installed, state, lock, command, redisDue, redisSince, outside, redisHistory>>

(* Without a permit the target is unhealthy, unless it is being closed.    *)
RedisCheckAcquires ==
    /\ redisCheck.at = "acquire"
    /\ \/ /\ redisCheck.left > IOTimeout
          /\ redisCheck' = [redisCheck EXCEPT !.at = IF distributed THEN "probe" ELSE "build"]
       \/ redisCheck' = IF redisLife = "open" THEN [redisCheck EXCEPT !.at = "failed"] ELSE NoCheck
    /\ UNCHANGED <<installed, state, lock, command, redisDue, redisSince, outside, redisHistory>>

(* cluster- or sentinelTopologyRevision, or an error.                      *)
RedisCheckProbes ==
    /\ redisCheck.at = "probe"
    /\ \E found \in {topology, Unknown} :
        /\ found = topology => redisCheck.left > 0
        /\ redisCheck' = [redisCheck EXCEPT !.at = "compare", !.found = found]
    /\ UNCHANGED <<installed, state, lock, command, redisDue, redisSince, outside, redisHistory>>

catalogFresh == attested < ACLRecheck

(* Mutant: the topology's time is renewed whatever was found.              *)
SameAlways == TRUE

unchanged == redisCheck.found # Unknown /\ redisCheck.found = revision

(* Nothing changed and the catalog is fresh: only the topology's time is   *)
(* renewed.  The module profiles may have expired, which forces a rebuild. *)
RedisCheckCompares ==
    /\ redisCheck.at = "compare"
    /\ \/ /\ unchanged /\ catalogFresh
          /\ probed' = 0
          /\ redisCheck' = NoCheck
       \/ redisCheck' = [redisCheck EXCEPT !.at = "build"] /\ UNCHANGED probed
    /\ UNCHANGED <<installed, redisHealthy, attested, lock, command, redisDue, redisSince,
                   outside, redisHistory>>

(* buildRuntime discovers the topology again and attests its nodes.        *)
RedisCheckBuilds ==
    /\ redisCheck.at = "build" /\ redisCheck.left > 0
    /\ pinned' = [pinned EXCEPT ![1 - client] = topology]
    /\ open' = open \cup {1 - client}
    /\ redisCheck' = [redisCheck EXCEPT !.at = "attest"]
    /\ UNCHANGED <<client, policy, revision, state, lock, command, redisDue, redisSince,
                   outside, redisHistory>>

(* The build ends: clientMu.Lock is asked for to publish its outcome.      *)
RedisCheckEnds ==
    \/ /\ redisCheck.at = "attest" /\ redisCheck.left > 0
       /\ redisCheck' = [redisCheck EXCEPT !.at = "install", !.ok = TRUE]
       /\ redisWriter' = "waiting"
       /\ UNCHANGED open
    \/ /\ redisCheck.at \in {"build", "attest"}
       /\ redisCheck' = [redisCheck EXCEPT !.at = "failed"]
       /\ open' = {client}
       /\ UNCHANGED redisWriter

RedisCheckEnded ==
    /\ RedisCheckEnds
    /\ UNCHANGED <<client, policy, pinned, revision, state, redisReaders, command, redisDue,
                   redisSince,
                   outside, redisHistory>>

RedisCheckFails ==
    /\ redisCheck.at = "failed"
    /\ redisWriter' = "waiting"
    /\ redisCheck' = [redisCheck EXCEPT !.at = "install", !.ok = FALSE]
    /\ UNCHANGED <<installed, state, redisReaders, command, redisDue, redisSince, outside,
                   redisHistory>>

(* Mutant: the client is replaced without waiting for the running calls.   *)
NoReadersAtAll == TRUE

Drained == redisReaders = {}

(* Under the lock: client, policy, times, revision and health.  A revision *)
(* that could not be computed leaves the old one in place.  The times that *)
(* are stored are those of this moment, after the wait for the lock.       *)
Install ==
    /\ redisCheck.at = "install" /\ redisCheck.ok /\ Drained
    /\ client' = 1 - client /\ policy' = 1 - client
    /\ revision' = IF redisCheck.found # Unknown THEN redisCheck.found ELSE revision
    /\ attested' = 0 /\ probed' = 0 /\ redisHealthy' = TRUE
    /\ redisEvidence' = redisCheck.read
    /\ drift' = IF pinned[1 - client] = topology THEN 0 ELSE redisCheck.read
    /\ redisWriter' = "none"
    /\ redisCheck' = [redisCheck EXCEPT !.at = "retire"]
    /\ UNCHANGED <<pinned, open, redisReaders, command, redisDue, redisSince, outside>>

InstallFailure ==
    /\ redisCheck.at = "install" /\ ~redisCheck.ok /\ Drained
    /\ redisHealthy' = FALSE
    /\ redisWriter' = "none"
    /\ redisCheck' = NoCheck
    /\ UNCHANGED <<installed, attested, probed, redisReaders, command, redisDue, redisSince,
                   outside, redisHistory>>

(* old.Close, after the lock was released.                                 *)
Retire ==
    /\ redisCheck.at = "retire"
    /\ open' = {client}
    /\ redisCheck' = NoCheck
    /\ UNCHANGED <<client, policy, pinned, revision, state, lock, command, redisDue, redisSince,
                   outside, redisHistory>>
-----------------------------------------------------------------------------
(* Close, failovers and time.                                              *)

RedisCloseStops ==
    /\ redisLife = "open"
    /\ redisLife' = "closing"
    /\ redisCheck' = [redisCheck EXCEPT !.left = IF @ > IOTimeout THEN IOTimeout ELSE @]
    /\ UNCHANGED <<mode, topology, installed, state, lock, command, redisDue, redisSince,
                   redisHistory>>

(* wg.Wait has returned; clientMu.Lock, then the client is closed.         *)
RedisCloseReturns ==
    /\ redisLife = "closing" /\ redisCheck.at = "stopped" /\ Drained
    /\ redisLife' = "closed"
    /\ open' = {}
    /\ UNCHANGED <<mode, topology, client, policy, pinned, revision, state, lock, command,
                   redisLoop, redisHistory>>

(* The slots of a cluster, or what Sentinels agree on, which may come back *)
(* to what it was: the selected replica has no epoch.                      *)
Failover ==
    /\ distributed
    /\ \E t \in 0..MaxTopology :
        /\ t # topology /\ topology' = t
        /\ drift' = IF t = pinned[client] THEN 0 ELSE drift
    /\ UNCHANGED <<mode, redisLife, installed, state, lock, command, redisLoop, redisEvidence>>

CommandWaits(c) == command[c].at \in {"idle", "acquire", "lock", "run"}

RedisCheckWaits ==
    \/ redisCheck.at = "stopped"
    \/ redisCheck.at = "install" /\ ~Drained
    \/ redisCheck.at = "idle" /\ ~redisDue
    \/ redisCheck.at = "acquire" /\ redisCheck.left > IOTimeout
    \/ redisCheck.at \in {"probe", "build", "attest"} /\ redisCheck.left > 0

RedisTick ==
    /\ \A c \in Commands : CommandWaits(c)
    /\ RedisCheckWaits
    /\ attested' = Aged(attested, CatalogMaxAge)
    /\ probed' = IF distributed THEN Aged(probed, TopologyMaxAge) ELSE 0
    /\ redisCheck' = [redisCheck EXCEPT !.left = Left(@),
                                        !.read = IF redisCheck.at = "attest" THEN @ + 1 ELSE @]
    /\ redisSince' = (redisSince + 1) % ProbeInterval
    /\ redisDue' = (redisDue \/ redisSince + 1 = ProbeInterval)
    /\ redisEvidence' = Aged(redisEvidence, AttestedLimit)
    /\ drift' = IF pinned[client] = topology THEN 0 ELSE Aged(drift, DriftLimit)
    /\ UNCHANGED <<installed, redisHealthy, lock, command, outside>>

CommandStep(c) ==
    \/ CommandBegins(c) \/ CommandAcquires(c) \/ ClientRLock(c)
    \/ CommandChecks(c) \/ CommandRuns(c)

RedisCheckStep ==
    \/ RedisCheckBegins \/ RedisCheckStops \/ RedisCheckAcquires \/ RedisCheckProbes
    \/ RedisCheckCompares
    \/ RedisCheckBuilds \/ RedisCheckEnded \/ RedisCheckFails \/ Install \/ InstallFailure \/ Retire

RedisNext ==
    \/ \E c \in Commands : CommandStep(c)
    \/ RedisCheckStep
    \/ RedisCloseStops \/ RedisCloseReturns \/ Failover \/ RedisTick

RedisSpec == RedisInit /\ [][RedisNext]_redisVars
-----------------------------------------------------------------------------
RedisTypeOK ==
    /\ mode \in Modes /\ topology \in 0..MaxTopology
    /\ client \in Generations /\ policy \in Generations
    /\ pinned \in [Generations -> 0..MaxTopology] /\ open \subseteq Generations
    /\ revision \in Unknown..MaxTopology
    /\ redisHealthy \in BOOLEAN
    /\ attested \in 0..(CatalogMaxAge + 1) /\ probed \in 0..(TopologyMaxAge + 1)
    /\ redisReaders \subseteq Commands /\ redisWriter \in {"none", "waiting"}
    /\ command \in [Commands -> [at : {"idle", "acquire", "lock", "check", "run"},
                              client : Generations]]
    /\ redisCheck \in [at : {"idle", "acquire", "probe", "compare", "build", "attest", "failed",
                        "install", "retire", "stopped"},
                  left : 0..CheckLimit, found : Unknown..MaxTopology, ok : BOOLEAN,
                  read : 0..CheckLimit]
    /\ redisDue \in BOOLEAN /\ redisSince \in 0..(ProbeInterval - 1)
    /\ redisLife \in {"open", "closing", "closed"}
    /\ redisEvidence \in 0..(AttestedLimit + 1) /\ drift \in 0..(DriftLimit + 1)

CommandRunning(c) == command[c].at = "run"
CommandStarts(c) == ~CommandRunning(c) /\ CommandRunning(c)'

(* A running command keeps one matching pair of client and policy, and     *)
(* until the target is closed its client is closed only after it:          *)
(* maintenance replaces both under the lock and closes the old client when *)
(* the running commands have left (target.go:340-357).                     *)
RunsOnPair ==
    \A c \in Commands : CommandRunning(c) =>
        /\ command[c].client = client /\ command[c].client = policy
        /\ redisLife # "closed" => client \in open

(* What a command relies on was attested no longer ago than the maximum    *)
(* age of the catalog and the time of one check, not counting how long the *)
(* check then waited for clientMu, which the code does not bound: renewing *)
(* the topology's time does not renew the attestation, nor does a build    *)
(* that fails (target.go:260-279, 315-320, 339-356).                       *)
RunsAttested ==
    [][\A c \in Commands : CommandStarts(c) => redisEvidence <= AttestedLimit]_redisVars

(* A target whose revision is that of the topology its client is pinned to *)
(* (or none) follows the deployment within the maximum age of the topology *)
(* and the time of one check, not counting the wait for clientMu, however  *)
(* the deployment goes back and forth: a probe that finds the revision     *)
(* unchanged finds the client's own topology, and any other one rebuilds   *)
(* (target.go:304-321, 350-354).  A revision that is not the client's,     *)
(* which Open and a build after its probe can leave, is the subject of     *)
(* StaleTopologyUnused.                                                    *)
TopologyFollowed ==
    [][\A c \in Commands :
        CommandStarts(c) /\ distributed /\ revision \in {Unknown, pinned[client]}
        => drift <= DriftLimit]_redisVars

(* RFC-0004-redis-sentinel-cluster-modules.md lines 80-81: "A failed       *)
(* refresh marks the target unhealthy, so stale topology is never used for *)
(* new requests": the deployment left the topology a command uses no       *)
(* longer ago than the maximum age of the topology and one check, not      *)
(* counting the wait for clientMu.                                         *)
StaleTopologyUnused ==
    [][\A c \in Commands : CommandStarts(c) => drift <= DriftLimit]_redisVars
=============================================================================
