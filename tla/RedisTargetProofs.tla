-------------------------- MODULE RedisTargetProofs --------------------------
(***************************************************************************)
(* Proofs about RedisTarget for any number of commands and topologies and  *)
(* any configured times: a command keeps one pair of client and policy,    *)
(* relies on a recent attestation, and a target whose revision is that of  *)
(* its client follows the deployment in time.                              *)
(***************************************************************************)
EXTENDS RedisTarget, TLAPS

CallType == [at : {"idle", "acquire", "lock", "check", "run"}, client : Generations]
CheckPlaces == {"idle", "acquire", "probe", "compare", "build", "attest", "failed", "install",
                "retire", "stopped"}
CheckType == [at : CheckPlaces, left : 0..CheckLimit, found : Unknown..MaxTopology,
              ok : BOOLEAN, read : 0..CheckLimit]

(* A command that holds clientMu.                                          *)
Reads(k) == k.at \in {"check", "run"}

(* The build has pinned a client that is not installed yet.                *)
Building == redisCheck.at = "attest" \/ (redisCheck.at = "install" /\ redisCheck.ok)

Types ==
    /\ mode \in Modes /\ topology \in 0..MaxTopology /\ client \in Generations
    /\ pinned \in [Generations -> 0..MaxTopology] /\ open \subseteq Generations
    /\ revision \in Unknown..MaxTopology /\ redisHealthy \in BOOLEAN
    /\ command \in [Commands -> CallType] /\ redisCheck \in CheckType
    /\ redisDue \in BOOLEAN /\ redisSince \in 0..(ProbeInterval - 1)
    /\ redisLife \in {"open", "closing", "closed"}

Lock ==
    /\ redisReaders = {c \in Commands : Reads(command[c])}
    /\ redisWriter = IF redisCheck.at = "install" THEN "waiting" ELSE "none"

(* What is installed belongs together and is open.                         *)
Pair ==
    /\ policy = client
    /\ \A c \in Commands : command[c].at = "run" => command[c].client = client
    /\ redisLife # "closed" => client \in open
    /\ Building => 1 - client \in open

(* What the build has read grows older while the build lasts.              *)
BuildTimely ==
    /\ redisCheck.ok => redisCheck.at \in {"install", "retire"}
    /\ redisCheck.at \in {"idle", "acquire", "probe", "compare", "build"} => redisCheck.read = 0
    /\ redisCheck.at = "attest" => redisCheck.read + redisCheck.left <= CheckLimit

(* What is installed is older than its time by one check at most.          *)
ProofTimely ==
    /\ attested \in 0..(CatalogMaxAge + 1) /\ probed \in 0..(TopologyMaxAge + 1)
    /\ redisEvidence \in 0..(AttestedLimit + 1) /\ drift \in 0..(DriftLimit + 1)
    /\ redisEvidence <= attested + CheckLimit

(* A probe that finds the client's topology finds no drift.                *)
NoDrift(found) == found = pinned[client] => drift = 0

(* The revision is that of the client's topology, or there is none.        *)
OwnRevision == revision \in {Unknown, pinned[client]}

Follows ==
    /\ NoDrift(topology)
    /\ redisCheck.at = "compare" => NoDrift(redisCheck.found)
    /\ distributed /\ OwnRevision => drift <= probed + CheckLimit

Inv == Types /\ Lock /\ Pair /\ BuildTimely /\ ProofTimely /\ Follows

-----------------------------------------------------------------------------
(* The ranges.                                                             *)

LEMMA Limits ==
  /\ MaxTopology \in Nat /\ ProbeInterval \in Nat /\ ProbeInterval > 0 /\ CatalogMaxAge \in Nat
  /\ TopologyMaxAge \in Nat /\ IOTimeout \in Nat /\ CheckLimit \in Nat /\ IOTimeout <= CheckLimit
  /\ AttestedLimit \in Nat /\ AttestedLimit = CatalogMaxAge + CheckLimit
  /\ DriftLimit \in Nat /\ DriftLimit = TopologyMaxAge + CheckLimit
BY RedisAssumption DEF AttestedLimit, DriftLimit, CheckLimit

LEMMA Zeros ==
  /\ 0 \in 0..CheckLimit /\ CheckLimit \in 0..CheckLimit /\ Unknown \in Unknown..MaxTopology
  /\ \A t \in 0..MaxTopology : t \in Unknown..MaxTopology
BY Limits DEF Unknown

LEMMA NoCheckIs ==
  /\ NoCheck \in CheckType /\ NoCheck.at = "idle" /\ NoCheck.found = Unknown
  /\ NoCheck.ok = FALSE /\ NoCheck.read = 0
BY Zeros DEF NoCheck, CheckType, CheckPlaces

LEMMA Typed ==
  ASSUME Inv
  PROVE  /\ topology \in Nat /\ client \in Generations /\ 1 - client \in Generations
         /\ pinned[client] \in Nat /\ pinned[1 - client] \in Nat
         /\ revision \in Int /\ redisCheck.found \in Int /\ redisCheck.read \in Nat /\ redisCheck.left \in Nat
         /\ attested \in Nat /\ probed \in Nat /\ redisEvidence \in Nat /\ drift \in Nat
         /\ \A c \in Commands : command[c] \in CallType
<1>1. /\ topology \in 0..MaxTopology /\ client \in Generations
      /\ pinned \in [Generations -> 0..MaxTopology] /\ revision \in Unknown..MaxTopology
      /\ command \in [Commands -> CallType] /\ redisCheck \in CheckType
  BY DEF Inv, Types
<1>2. 1 - client \in Generations
  BY <1>1 DEF Generations
<1>3. /\ topology \in Nat /\ revision \in Int /\ pinned[client] \in 0..MaxTopology
      /\ pinned[1 - client] \in 0..MaxTopology
  BY <1>1, <1>2, Limits DEF Unknown
<1>4. redisCheck.found \in Unknown..MaxTopology /\ redisCheck.read \in 0..CheckLimit
      /\ redisCheck.left \in 0..CheckLimit
  BY <1>1 DEF CheckType
<1>5. redisCheck.found \in Int /\ redisCheck.read \in Nat /\ redisCheck.left \in Nat
  BY <1>4, Limits DEF Unknown
<1>6. \A c \in Commands : command[c] \in CallType
  BY <1>1 DEF CallType
<1>7. attested \in Nat /\ probed \in Nat /\ redisEvidence \in Nat /\ drift \in Nat
  BY Limits DEF Inv, ProofTimely
<1> QED
  BY <1>1, <1>2, <1>3, <1>5, <1>6, <1>7, Limits

-----------------------------------------------------------------------------
(* A command changes its record and the lock.                              *)

LEMMA CallKeeps ==
  ASSUME Inv, NEW c \in Commands, NEW k \in CallType, command' = [command EXCEPT ![c] = k],
         UNCHANGED <<mode, topology, client, policy, pinned, open, revision, redisHealthy, attested,
                     probed, redisWriter, redisCheck, redisDue, redisSince, redisLife, redisEvidence, drift>>,
         redisReaders' = IF Reads(k) THEN redisReaders \cup {c} ELSE redisReaders \ {c},
         k.at = "run" => k.client = client
  PROVE  Inv'
<1>1. command \in [Commands -> CallType] /\ redisReaders = {d \in Commands : Reads(command[d])}
  BY DEF Inv, Types, Lock
<1>2. /\ command' \in [Commands -> CallType] /\ command'[c] = k
      /\ \A d \in Commands \ {c} : command'[d] = command[d]
  BY <1>1
<1>3. \A d \in Commands : Reads(command[d])' <=> Reads(command'[d])
  BY DEF Reads
<1>4. Types'
  BY <1>2 DEF Inv, Types
<1>5. Lock'
  <2>1. redisReaders' = {d \in Commands : Reads(command'[d])}
    BY <1>1, <1>2
  <2> QED
    BY <1>3, <2>1 DEF Inv, Lock
<1>6. Building' <=> Building
  BY DEF Building
<1>7. Pair'
  BY <1>2, <1>6 DEF Inv, Pair
<1>8. BuildTimely'
  BY DEF Inv, BuildTimely
<1>9. ProofTimely'
  BY DEF Inv, ProofTimely
<1>10. Follows'
  BY DEF Inv, Follows, NoDrift, OwnRevision, distributed
<1> QED
  BY <1>4, <1>5, <1>7, <1>8, <1>9, <1>10 DEF Inv

Rest == UNCHANGED <<mode, topology, client, policy, pinned, open, revision, redisHealthy, attested,
                    probed, redisWriter, redisCheck, redisDue, redisSince, redisLife, redisEvidence, drift>>

NoCommand == [at |-> "idle", client |-> 0]

LEMMA ReturnKeeps ==
  ASSUME Inv, NEW c \in Commands, CommandReturns(c), Rest
  PROVE  Inv'
<1>1. NoCommand \in CallType /\ ~Reads(NoCommand) /\ NoCommand.at # "run"
  BY Zeros DEF NoCommand, CallType, Generations, Reads
<1>2. command' = [command EXCEPT ![c] = NoCommand] /\ redisReaders' = redisReaders \ {c}
  BY DEF CommandReturns, NoCommand
<1> QED
  BY <1>1, <1>2, CallKeeps DEF Rest

LEMMA CallStepKeeps ==
  ASSUME Inv, NEW c \in Commands, CommandStep(c)
  PROVE  Inv'
<1>1. command \in [Commands -> CallType] /\ command[c] \in CallType
  BY Typed DEF Inv, Types
<1>2. redisReaders = {d \in Commands : Reads(command[d])}
  BY DEF Inv, Lock
<1>3. Rest
  BY DEF CommandStep, CommandBegins, CommandAcquires, ClientRLock, CommandChecks, CommandRuns, Rest, installed, state, lock, redisLoop, outside, redisHistory
<1>4. CASE CommandReturns(c)
  BY <1>3, <1>4, ReturnKeeps
<1>5. CASE CommandBegins(c)
  <2> DEFINE k == [at |-> "acquire", client |-> 0]
  <2>1. k \in CallType /\ k.at = "acquire"
    BY Zeros DEF CallType, Generations
  <2>2. command' = [command EXCEPT ![c] = k] /\ redisReaders' = redisReaders /\ command[c].at = "idle"
    BY <1>5 DEF CommandBegins, lock
  <2> HIDE DEF k
  <2>3. redisReaders' = redisReaders \ {c} /\ ~Reads(k) /\ k.at # "run"
    BY <1>2, <2>1, <2>2 DEF Reads
  <2> QED
    BY <1>3, <2>1, <2>2, <2>3, CallKeeps DEF Rest
<1>6. CASE CommandAcquires(c) /\ ~CommandReturns(c)
  <2> DEFINE k == [command[c] EXCEPT !.at = "lock"]
  <2>1. k \in CallType /\ k.at = "lock"
    BY <1>1 DEF CallType
  <2>2. command' = [command EXCEPT ![c] = k] /\ redisReaders' = redisReaders /\ command[c].at = "acquire"
    BY <1>1, <1>6 DEF CommandAcquires, CommandGoto
  <2> HIDE DEF k
  <2>3. redisReaders' = redisReaders \ {c} /\ ~Reads(k) /\ k.at # "run"
    BY <1>2, <2>1, <2>2 DEF Reads
  <2> QED
    BY <1>3, <2>1, <2>2, <2>3, CallKeeps DEF Rest
<1>7. CASE ClientRLock(c)
  <2> DEFINE k == [command[c] EXCEPT !.at = "check"]
  <2>1. k \in CallType /\ k.at = "check"
    BY <1>1 DEF CallType
  <2>2. command' = [command EXCEPT ![c] = k] /\ redisReaders' = redisReaders \cup {c} /\ redisWriter = "none"
    BY <1>1, <1>7 DEF ClientRLock, CommandGoto
  <2> HIDE DEF k
  <2>3. Reads(k) /\ k.at # "run"
    BY <2>1 DEF Reads
  <2> QED
    BY <1>3, <2>1, <2>2, <2>3, CallKeeps DEF Rest
<1>8. CASE CommandChecks(c) /\ ~CommandReturns(c)
  <2> DEFINE k == [command[c] EXCEPT !.at = "run", !.client = client]
  <2>1. k \in CallType /\ k.at = "run" /\ k.client = client
    BY <1>1, Typed DEF CallType
  <2>2. command' = [command EXCEPT ![c] = k] /\ redisReaders' = redisReaders /\ command[c].at = "check"
    BY <1>1, <1>8 DEF CommandChecks
  <2> HIDE DEF k
  <2>3. redisReaders' = redisReaders \cup {c} /\ Reads(k) /\ Reads(command[c])
    BY <1>2, <2>1, <2>2 DEF Reads
  <2> QED
    BY <1>3, <2>1, <2>2, <2>3, CallKeeps DEF Rest
<1> QED
  BY <1>4, <1>5, <1>6, <1>7, <1>8 DEF CommandStep, CommandRuns

-----------------------------------------------------------------------------
(* Maintenance changes its own record, and what is open.                   *)

LEMMA LoopKeeps ==
  ASSUME Inv,
         UNCHANGED <<mode, topology, client, policy, pinned, revision, attested, probed, redisReaders,
                     command, redisSince, redisEvidence, drift>>,
         redisHealthy' \in BOOLEAN, redisDue' \in BOOLEAN, redisLife' \in {"open", "closing", "closed"},
         redisCheck' \in CheckType, BuildTimely', open' \subseteq Generations,
         redisWriter' = IF redisCheck'.at = "install" THEN "waiting" ELSE "none",
         redisLife' # "closed" => client \in open',
         Building' => 1 - client \in open',
         redisCheck'.at = "compare" => NoDrift(redisCheck'.found)
  PROVE  Inv'
<1>1. Types'
  BY DEF Inv, Types
<1>2. Lock'
  BY DEF Inv, Lock, Reads
<1>3. Pair'
  BY DEF Inv, Pair
<1>4. ProofTimely'
  BY DEF Inv, ProofTimely
<1>5. Follows'
  BY DEF Inv, Follows, NoDrift, OwnRevision, distributed
<1> QED
  BY <1>1, <1>2, <1>3, <1>4, <1>5 DEF Inv

Kept == UNCHANGED <<mode, topology, client, policy, pinned, revision, attested, probed, redisReaders,
                    command, redisSince, redisEvidence, drift>>

(* Maintenance is short of a build: nothing of it is pinned or open.       *)
LEMMA QuietKeeps ==
  ASSUME Inv, Kept, UNCHANGED open,
         redisHealthy' \in BOOLEAN, redisDue' \in BOOLEAN, redisLife' = redisLife,
         redisCheck' \in CheckType, ~redisCheck'.ok,
         redisCheck'.at \in {"idle", "acquire", "probe", "compare", "build", "failed", "stopped"},
         redisCheck'.at # "stopped" => redisCheck'.read = 0,
         redisWriter' = "none",
         redisCheck'.at = "compare" => NoDrift(redisCheck'.found)
  PROVE  Inv'
<1>1. BuildTimely'
  BY Limits DEF BuildTimely
<1>2. ~Building'
  BY DEF Building
<1>3. open' \subseteq Generations /\ (redisLife' # "closed" => client \in open')
  BY DEF Inv, Types, Pair
<1>4. redisLife' \in {"open", "closing", "closed"}
  BY DEF Inv, Types
<1> QED
  BY <1>1, <1>2, <1>3, <1>4, LoopKeeps DEF Kept

LEMMA CheckBeginsKeeps ==
  ASSUME Inv, RedisCheckBegins \/ RedisCheckStops
  PROVE  Inv'
<1>1. /\ Kept /\ UNCHANGED <<open, redisHealthy, redisLife, redisWriter>> /\ redisCheck.at = "idle" /\ (redisDue' = FALSE \/ redisDue' = redisDue)
  BY DEF RedisCheckBegins, RedisCheckStops, Kept, installed, state, lock, outside, redisHistory
<1>2. /\ redisCheck' \in CheckType /\ ~redisCheck'.ok /\ redisCheck'.at \in {"acquire", "stopped"}
      /\ redisCheck'.read = 0 /\ redisCheck'.found = Unknown
  <2>1. CASE RedisCheckBegins
    <3> DEFINE n == IF redisLife = "open" THEN CheckLimit ELSE 0
    <3>1. redisCheck' = [NoCheck EXCEPT !.at = "acquire", !.left = n] /\ n \in 0..CheckLimit
      BY <2>1, Zeros DEF RedisCheckBegins
    <3> HIDE DEF n
    <3> QED
      BY <3>1, NoCheckIs DEF CheckType, CheckPlaces
  <2>2. CASE RedisCheckStops
    BY <2>2, NoCheckIs DEF RedisCheckStops, CheckType, CheckPlaces
  <2> QED
    BY <2>1, <2>2
<1>3. redisWriter = "none"
  BY <1>1 DEF Inv, Lock
<1>4. redisHealthy' \in BOOLEAN /\ redisDue' \in BOOLEAN
  BY <1>1 DEF Inv, Types
<1> QED
  BY <1>1, <1>2, <1>3, <1>4, QuietKeeps

LEMMA CheckAcquiresKeeps ==
  ASSUME Inv, RedisCheckAcquires
  PROVE  Inv'
<1>1. Kept /\ UNCHANGED <<open, redisHealthy, redisLife, redisWriter, redisDue>> /\ redisCheck.at = "acquire"
  BY DEF RedisCheckAcquires, Kept, installed, state, lock, outside, redisHistory
<1>2. redisCheck \in CheckType /\ ~redisCheck.ok /\ redisCheck.read = 0
  BY <1>1 DEF Inv, Types, BuildTimely
<1>3. \/ redisCheck' = NoCheck
      \/ \E x \in {"probe", "build", "failed"} : redisCheck' = [redisCheck EXCEPT !.at = x]
  BY DEF RedisCheckAcquires
<1>4. /\ redisCheck' \in CheckType /\ ~redisCheck'.ok /\ redisCheck'.at \in {"idle", "probe", "build", "failed"}
      /\ redisCheck'.read = 0 /\ (redisCheck'.found = redisCheck.found \/ redisCheck'.found = Unknown)
  BY <1>2, <1>3, NoCheckIs DEF CheckType, CheckPlaces
<1>5. redisWriter = "none" /\ redisHealthy' \in BOOLEAN /\ redisDue' \in BOOLEAN
  BY <1>1 DEF Inv, Lock, Types
<1> QED
  BY <1>1, <1>4, <1>5, QuietKeeps

(* A probe that finds what the client is pinned to finds no drift.         *)
LEMMA CheckProbesKeeps ==
  ASSUME Inv, RedisCheckProbes
  PROVE  Inv'
<1>1. Kept /\ UNCHANGED <<open, redisHealthy, redisLife, redisWriter, redisDue>> /\ redisCheck.at = "probe"
  BY DEF RedisCheckProbes, Kept, installed, state, lock, outside, redisHistory
<1>2. redisCheck \in CheckType /\ ~redisCheck.ok /\ redisCheck.read = 0
  BY <1>1 DEF Inv, Types, BuildTimely
<1>3. PICK f \in {topology, Unknown} : redisCheck' = [redisCheck EXCEPT !.at = "compare", !.found = f]
  BY DEF RedisCheckProbes
<1>4. f \in Unknown..MaxTopology
  BY Zeros DEF Inv, Types
<1>5. redisCheck' \in CheckType /\ ~redisCheck'.ok /\ redisCheck'.at = "compare" /\ redisCheck'.read = 0 /\ redisCheck'.found = f
  BY <1>2, <1>3, <1>4 DEF CheckType, CheckPlaces
<1>6. NoDrift(f)
  <2>1. f = Unknown => f # pinned[client]
    BY Typed DEF Unknown
  <2> QED
    BY <2>1 DEF Inv, Follows, NoDrift
<1>7. redisWriter = "none" /\ redisHealthy' \in BOOLEAN /\ redisDue' \in BOOLEAN
  BY <1>1 DEF Inv, Lock, Types
<1> QED
  BY <1>1, <1>5, <1>6, <1>7, QuietKeeps

(* Renewing the topology's time is sound: there is no drift.               *)
LEMMA CheckComparesKeeps ==
  ASSUME Inv, RedisCheckCompares
  PROVE  Inv'
<1>1. /\ UNCHANGED <<mode, topology, client, policy, pinned, revision, attested, redisReaders, open,
                     redisHealthy, redisLife, redisWriter, redisDue, command, redisSince, redisEvidence, drift>>
      /\ redisCheck.at = "compare"
  BY DEF RedisCheckCompares, installed, lock, outside, redisHistory
<1>2. redisCheck \in CheckType /\ ~redisCheck.ok /\ redisCheck.read = 0
  BY <1>1 DEF Inv, Types, BuildTimely
<1>3. redisWriter = "none" /\ redisHealthy' \in BOOLEAN /\ redisDue' \in BOOLEAN
  BY <1>1 DEF Inv, Lock, Types
<1>4. CASE redisCheck' = [redisCheck EXCEPT !.at = "build"] /\ UNCHANGED probed
  <2>1. /\ redisCheck' \in CheckType /\ ~redisCheck'.ok /\ redisCheck'.at = "build"
        /\ redisCheck'.read = 0 /\ redisCheck'.found = redisCheck.found
    BY <1>2, <1>4 DEF CheckType, CheckPlaces
  <2>2. Kept
    BY <1>1, <1>4 DEF Kept
  <2> QED
    BY <1>1, <1>3, <2>1, <2>2, QuietKeeps
<1>5. CASE unchanged /\ catalogFresh /\ probed' = 0 /\ redisCheck' = NoCheck
  <2>1. redisCheck' \in CheckType /\ ~redisCheck'.ok /\ redisCheck'.at = "idle" /\ redisCheck'.read = 0 /\ redisCheck'.found = Unknown
    BY <1>5, NoCheckIs
  <2>2. Types'
    BY <1>1, <2>1 DEF Inv, Types
  <2>3. Lock'
    BY <1>1, <1>3, <2>1 DEF Inv, Lock, Reads
  <2>4. ~Building'
    BY <2>1 DEF Building
  <2>5. Pair'
    BY <1>1, <2>4 DEF Inv, Pair
  <2>6. BuildTimely'
    BY <2>1 DEF BuildTimely
  <2>7. ProofTimely'
    <3>1. 0 \in 0..(TopologyMaxAge + 1)
      BY Limits
    <3> QED
      BY <1>1, <1>5, <3>1 DEF Inv, ProofTimely
  <2>8. Follows'
    <3>1. OwnRevision => drift = 0
      BY <1>1, <1>5 DEF unchanged, OwnRevision, Inv, Follows, NoDrift
    <3>2. 0 <= 0 + CheckLimit
      BY Limits
    <3> QED
      BY <1>1, <1>5, <2>1, <3>1, <3>2 DEF Inv, Follows, NoDrift, OwnRevision, distributed
  <2> QED
    BY <2>2, <2>3, <2>5, <2>6, <2>7, <2>8 DEF Inv
<1> QED
  BY <1>4, <1>5 DEF RedisCheckCompares

(* The other client is pinned to what is found now.                        *)
LEMMA CheckBuildsKeeps ==
  ASSUME Inv, RedisCheckBuilds
  PROVE  Inv'
<1>1. /\ UNCHANGED <<mode, topology, client, policy, revision, attested, probed, redisReaders, redisHealthy,
                     redisLife, redisWriter, redisDue, command, redisSince, redisEvidence, drift>>
      /\ redisCheck.at = "build" /\ pinned' = [pinned EXCEPT ![1 - client] = topology]
      /\ open' = open \cup {1 - client} /\ redisCheck' = [redisCheck EXCEPT !.at = "attest"]
  BY DEF RedisCheckBuilds, state, lock, outside, redisHistory
<1>2. redisCheck \in CheckType /\ ~redisCheck.ok /\ redisCheck.read = 0 /\ redisCheck.left \in 0..CheckLimit
  BY <1>1 DEF Inv, Types, BuildTimely, CheckType
<1>3. /\ redisCheck' \in CheckType /\ ~redisCheck'.ok /\ redisCheck'.at = "attest" /\ redisCheck'.read = 0
      /\ redisCheck'.found = redisCheck.found /\ redisCheck'.left = redisCheck.left
  BY <1>1, <1>2 DEF CheckType, CheckPlaces
<1>4. /\ pinned \in [Generations -> 0..MaxTopology] /\ client \in Generations
      /\ topology \in 0..MaxTopology
  BY DEF Inv, Types
<1>5. 1 - client \in Generations /\ client # 1 - client
  BY <1>4 DEF Generations
<1>6. /\ pinned' \in [Generations -> 0..MaxTopology] /\ pinned'[client] = pinned[client]
      /\ pinned'[1 - client] = topology
  BY <1>1, <1>4, <1>5
<1>7. Types'
  BY <1>1, <1>3, <1>5, <1>6 DEF Inv, Types
<1>8. Lock'
  BY <1>1, <1>3 DEF Inv, Lock, Reads
<1>9. Pair'
  BY <1>1 DEF Inv, Pair
<1>10. BuildTimely'
  <2>1. 0 + redisCheck.left <= CheckLimit
    BY <1>2, Limits
  <2> QED
    BY <1>3, <2>1 DEF BuildTimely
<1>11. ProofTimely'
  BY <1>1 DEF Inv, ProofTimely
<1>12. Follows'
  BY <1>1, <1>3, <1>6 DEF Inv, Follows, NoDrift, OwnRevision, distributed
<1> QED
  BY <1>7, <1>8, <1>9, <1>10, <1>11, <1>12 DEF Inv

LEMMA CheckEndedKeeps ==
  ASSUME Inv, RedisCheckEnded
  PROVE  Inv'
<1>1. Kept /\ UNCHANGED <<redisHealthy, redisLife, redisDue>> /\ redisCheck.at \in {"build", "attest"}
  BY DEF RedisCheckEnded, RedisCheckEnds, Kept, state, outside, redisHistory
<1>2. /\ redisCheck \in CheckType /\ ~redisCheck.ok /\ redisWriter = "none"
      /\ redisHealthy' \in BOOLEAN /\ redisDue' \in BOOLEAN /\ redisLife' \in {"open", "closing", "closed"}
      /\ client \in Generations /\ open \subseteq Generations
  BY <1>1 DEF Inv, Types, BuildTimely, Lock
<1>4. CASE /\ redisCheck.at = "attest" /\ redisCheck' = [redisCheck EXCEPT !.at = "install", !.ok = TRUE]
           /\ redisWriter' = "waiting" /\ UNCHANGED open
  <2>1. /\ redisCheck' \in CheckType /\ redisCheck'.ok = TRUE /\ redisCheck'.at = "install" /\ redisCheck'.read = redisCheck.read
        /\ redisCheck'.found = redisCheck.found
    BY <1>2, <1>4 DEF CheckType, CheckPlaces
  <2>2. BuildTimely'
    BY <2>1 DEF BuildTimely
  <2>3. 1 - client \in open'
    BY <1>4 DEF Building, Inv, Pair
  <2>4. redisLife' # "closed" => client \in open'
    BY <1>1, <1>4 DEF Inv, Pair
  <2> QED
    BY <1>1, <1>2, <1>4, <2>1, <2>2, <2>3, <2>4, LoopKeeps DEF Kept
<1>5. CASE redisCheck' = [redisCheck EXCEPT !.at = "failed"] /\ open' = {client} /\ UNCHANGED redisWriter
  <2>1. /\ redisCheck' \in CheckType /\ ~redisCheck'.ok /\ redisCheck'.at = "failed" /\ redisCheck'.read = redisCheck.read
        /\ redisCheck'.found = redisCheck.found
    BY <1>2, <1>5 DEF CheckType, CheckPlaces
  <2>2. BuildTimely' /\ ~Building'
    BY <1>2, <2>1 DEF BuildTimely, Building
  <2> QED
    BY <1>1, <1>2, <1>5, <2>1, <2>2, LoopKeeps DEF Kept
<1> QED
  BY <1>4, <1>5 DEF RedisCheckEnded, RedisCheckEnds

LEMMA CheckFailsKeeps ==
  ASSUME Inv, RedisCheckFails
  PROVE  Inv'
<1>1. /\ Kept /\ UNCHANGED <<open, redisHealthy, redisLife, redisDue>> /\ redisCheck.at = "failed" /\ redisWriter' = "waiting"
      /\ redisCheck' = [redisCheck EXCEPT !.at = "install", !.ok = FALSE]
  BY DEF RedisCheckFails, Kept, installed, state, outside, redisHistory
<1>2. /\ redisCheck \in CheckType
      /\ redisHealthy' \in BOOLEAN /\ redisDue' \in BOOLEAN /\ redisLife' \in {"open", "closing", "closed"}
      /\ open' \subseteq Generations /\ (redisLife' # "closed" => client \in open')
  BY <1>1 DEF Inv, Types, BuildTimely, Pair
<1>3. /\ redisCheck' \in CheckType /\ ~redisCheck'.ok /\ redisCheck'.at = "install" /\ redisCheck'.found = redisCheck.found
  BY <1>1, <1>2 DEF CheckType, CheckPlaces
<1>4. BuildTimely' /\ ~Building'
  BY <1>3 DEF BuildTimely, Building
<1> QED
  BY <1>1, <1>2, <1>3, <1>4, LoopKeeps DEF Kept

(* The new pair is installed when no command runs.                         *)
LEMMA InstallKeeps ==
  ASSUME Inv, Install
  PROVE  Inv'
<1>1. /\ UNCHANGED <<mode, topology, pinned, redisReaders, redisLife, redisDue, command, redisSince, open>>
      /\ redisCheck.at = "install" /\ redisCheck.ok /\ redisReaders = {} /\ client' = 1 - client /\ policy' = 1 - client
      /\ revision' = IF redisCheck.found # Unknown THEN redisCheck.found ELSE revision
      /\ attested' = 0 /\ probed' = 0 /\ redisHealthy' = TRUE /\ redisEvidence' = redisCheck.read
      /\ drift' = IF pinned[1 - client] = topology THEN 0 ELSE redisCheck.read
      /\ redisWriter' = "none" /\ redisCheck' = [redisCheck EXCEPT !.at = "retire"]
  BY DEF Install, Drained, outside
<1>2. redisCheck \in CheckType /\ redisCheck.read \in 0..CheckLimit
      /\ redisCheck.found \in Unknown..MaxTopology
  BY DEF Inv, Types, CheckType
<1>3. redisCheck' \in CheckType /\ redisCheck'.at = "retire" /\ redisCheck'.found = redisCheck.found
  BY <1>1, <1>2 DEF CheckType, CheckPlaces
<1>4. Types'
  BY <1>1, <1>2, <1>3, Typed DEF Inv, Types
<1>5. Lock'
  BY <1>1, <1>3 DEF Inv, Lock, Reads
<1>6. \A c \in Commands : command[c].at # "run"
  BY <1>1 DEF Inv, Lock, Reads
<1>7. ~Building' /\ Building
  BY <1>1, <1>3 DEF Building
<1>8. Pair'
  BY <1>1, <1>6, <1>7 DEF Inv, Pair
<1>9. BuildTimely'
  BY <1>3 DEF BuildTimely
<1>10. drift' \in Nat /\ drift' <= CheckLimit
  BY <1>1, <1>2, Limits
<1>11. ProofTimely'
  <2>1. /\ 0 \in 0..(CatalogMaxAge + 1) /\ 0 \in 0..(TopologyMaxAge + 1)
        /\ redisCheck.read \in 0..(AttestedLimit + 1) /\ drift' \in 0..(DriftLimit + 1)
        /\ redisCheck.read <= 0 + CheckLimit
    BY <1>2, <1>10, Limits
  <2> QED
    BY <1>1, <2>1 DEF ProofTimely
<1>12. Follows'
  <2>1. drift' <= 0 + CheckLimit
    BY <1>10, Limits
  <2>2. pinned'[client'] = topology' => drift' = 0
    BY <1>1
  <2> QED
    BY <1>1, <1>3, <2>1, <2>2 DEF Follows, NoDrift
<1> QED
  BY <1>4, <1>5, <1>8, <1>9, <1>11, <1>12 DEF Inv

LEMMA InstallFailureKeeps ==
  ASSUME Inv, InstallFailure \/ Retire
  PROVE  Inv'
<1>1. /\ Kept /\ UNCHANGED <<redisLife, redisDue>> /\ redisCheck' = NoCheck /\ redisWriter' = "none" /\ redisHealthy' \in BOOLEAN
      /\ open' = open \/ open' = {client}
  BY DEF InstallFailure, Retire, Kept, installed, state, lock, outside, redisHistory, Inv, Types, Lock
<1>2. redisCheck' \in CheckType /\ ~redisCheck'.ok /\ redisCheck'.at = "idle" /\ redisCheck'.read = 0 /\ redisCheck'.found = Unknown
  BY <1>1, NoCheckIs
<1>3. BuildTimely' /\ ~Building'
  BY <1>2 DEF BuildTimely, Building
<1>4. /\ open' \subseteq Generations /\ (redisLife' # "closed" => client \in open') /\ redisDue' \in BOOLEAN
      /\ redisLife' \in {"open", "closing", "closed"}
  BY <1>1 DEF Inv, Types, Pair
<1> QED
  BY <1>1, <1>2, <1>3, <1>4, LoopKeeps DEF Kept

LEMMA CloseKeeps ==
  ASSUME Inv, RedisCloseStops \/ RedisCloseReturns
  PROVE  Inv'
<1>1. redisWriter = (IF redisCheck.at = "install" THEN "waiting" ELSE "none") /\ redisCheck \in CheckType
  BY DEF Inv, Lock, Types
<1>2. redisCheck.at = "compare" => NoDrift(redisCheck.found)
  BY DEF Inv, Follows
<1>3. CASE RedisCloseStops
  <2> DEFINE n == IF redisCheck.left > IOTimeout THEN IOTimeout ELSE redisCheck.left
  <2>1. /\ Kept /\ UNCHANGED <<open, redisHealthy, redisDue, redisWriter>> /\ redisLife' = "closing" /\ redisLife = "open"
        /\ redisCheck' = [redisCheck EXCEPT !.left = n]
    BY <1>3 DEF RedisCloseStops, Kept, installed, state, lock, redisHistory
  <2>2. n \in Nat /\ n <= redisCheck.left /\ n \in 0..CheckLimit
    <3>1. redisCheck.left \in 0..CheckLimit
      BY <1>1 DEF CheckType
    <3> QED
      BY <3>1, Limits
  <2> HIDE DEF n
  <2>3. /\ redisCheck' \in CheckType /\ redisCheck'.at = redisCheck.at /\ redisCheck'.ok = redisCheck.ok /\ redisCheck'.left = n
        /\ redisCheck'.read = redisCheck.read /\ redisCheck'.found = redisCheck.found
    BY <1>1, <2>1, <2>2 DEF CheckType
  <2>4. BuildTimely'
    <3>1. redisCheck.at = "attest" => redisCheck.read + n <= CheckLimit
      <4>1. redisCheck.at = "attest" => redisCheck.read + redisCheck.left <= CheckLimit
        BY DEF Inv, BuildTimely
      <4> QED
        BY <2>2, <4>1, Typed, Limits
    <3> QED
      BY <2>3, <3>1 DEF Inv, BuildTimely
  <2>5. Building' => 1 - client \in open'
    BY <2>1, <2>3 DEF Building, Inv, Pair
  <2>6. open' \subseteq Generations /\ client \in open' /\ redisHealthy' \in BOOLEAN /\ redisDue' \in BOOLEAN
    BY <2>1 DEF Inv, Types, Pair
  <2> QED
    BY <1>1, <1>2, <2>1, <2>3, <2>4, <2>5, <2>6, LoopKeeps DEF Kept
<1>4. CASE RedisCloseReturns
  <2>1. /\ Kept /\ UNCHANGED <<redisHealthy, redisDue, redisWriter, redisCheck>> /\ redisLife' = "closed" /\ open' = {}
        /\ redisCheck.at = "stopped"
    BY <1>4 DEF RedisCloseReturns, Kept, state, lock, redisLoop, redisHistory
  <2>2. BuildTimely' /\ ~Building'
    BY <2>1 DEF Inv, BuildTimely, Building, Kept
  <2>3. redisHealthy' \in BOOLEAN /\ redisDue' \in BOOLEAN
    BY <2>1 DEF Inv, Types
  <2> QED
    BY <1>1, <1>2, <2>1, <2>2, <2>3, LoopKeeps DEF Kept
<1> QED
  BY <1>3, <1>4

-----------------------------------------------------------------------------
(* The deployment and the clock.                                           *)

LEMMA FailoverKeeps ==
  ASSUME Inv, Failover
  PROVE  Inv'
<1>1. UNCHANGED <<mode, redisLife, client, policy, pinned, open, revision, redisHealthy, attested, probed, redisReaders,
                  redisWriter, command, redisCheck, redisDue, redisSince, redisEvidence>>
  BY DEF Failover, installed, state, lock, redisLoop
<1>2. /\ topology' \in 0..MaxTopology
      /\ drift' = IF topology' = pinned[client] THEN 0 ELSE drift
  BY DEF Failover
<1>3. Types'
  BY <1>1, <1>2 DEF Inv, Types
<1>4. Lock' /\ Pair' /\ BuildTimely'
  BY <1>1 DEF Inv, Lock, Pair, BuildTimely, Reads, Building
<1>5. drift' \in 0..(DriftLimit + 1) /\ drift' <= drift
  BY <1>2, Typed, Limits DEF Inv, ProofTimely
<1>6. ProofTimely'
  BY <1>1, <1>5 DEF Inv, ProofTimely
<1>7. Follows'
  <2>1. /\ topology' = pinned[client] => drift' = 0
        /\ drift = 0 => drift' = 0
    BY <1>2
  <2>2. distributed /\ OwnRevision => drift' <= probed + CheckLimit
    <3>1. distributed /\ OwnRevision => drift <= probed + CheckLimit
      BY DEF Inv, Follows
    <3>2. drift' \in Nat
      BY <1>2, Typed
    <3> QED
      BY <1>5, <3>1, <3>2, Typed, Limits
  <2> QED
    BY <1>1, <2>1, <2>2 DEF Inv, Follows, NoDrift, OwnRevision, distributed
<1> QED
  BY <1>3, <1>4, <1>6, <1>7 DEF Inv

LEMMA AgedIs ==
  ASSUME NEW a \in Nat, NEW limit \in Nat
  PROVE  /\ Aged(a, limit) \in Nat /\ Aged(a, limit) <= a + 1
         /\ a <= limit + 1 => Aged(a, limit) <= limit + 1
         /\ a <= limit => Aged(a, limit) = a + 1
         /\ a > limit => Aged(a, limit) = a
BY DEF Aged

LEMMA LeftIs ==
  ASSUME NEW n \in Nat
  PROVE  Left(n) \in Nat /\ Left(n) <= n /\ (n > 0 => Left(n) = n - 1)
BY DEF Left

(* Only a build lets what was read grow older.                             *)
LEMMA TickBuild ==
  ASSUME Inv, RedisTick
  PROVE  /\ redisCheck' \in CheckType /\ BuildTimely'
         /\ redisCheck'.at = redisCheck.at /\ redisCheck'.ok = redisCheck.ok /\ redisCheck'.found = redisCheck.found
<1> DEFINE n == Left(redisCheck.left)
           m == IF redisCheck.at = "attest" THEN redisCheck.read + 1 ELSE redisCheck.read
<1>1. redisCheck' = [redisCheck EXCEPT !.left = n, !.read = m] /\ RedisCheckWaits
  BY DEF RedisTick
<1>2. /\ redisCheck \in CheckType /\ redisCheck.left \in Nat /\ redisCheck.left <= CheckLimit
      /\ redisCheck.read \in Nat /\ redisCheck.read <= CheckLimit
  BY Typed, Limits DEF Inv, Types, CheckType
<1>3. n \in Nat /\ n <= redisCheck.left /\ (redisCheck.left > 0 => n = redisCheck.left - 1) /\ n \in 0..CheckLimit
  <2>1. n \in Nat /\ n <= redisCheck.left /\ (redisCheck.left > 0 => n = redisCheck.left - 1)
    BY <1>2, LeftIs
  <2> HIDE DEF n
  <2> QED
    BY <1>2, <2>1, Limits
<1>4. CASE redisCheck.at = "attest"
  <2>1. redisCheck.left > 0 /\ m = redisCheck.read + 1
    BY <1>1, <1>4 DEF RedisCheckWaits
  <2>2. redisCheck.read + redisCheck.left <= CheckLimit
    BY <1>4 DEF Inv, BuildTimely
  <2> HIDE DEF m, n
  <2>3. m \in 0..CheckLimit /\ m + n <= CheckLimit
    BY <1>2, <1>3, <2>1, <2>2, Limits
  <2>4. /\ redisCheck' \in CheckType /\ redisCheck'.at = redisCheck.at /\ redisCheck'.ok = redisCheck.ok
        /\ redisCheck'.found = redisCheck.found /\ redisCheck'.left = n /\ redisCheck'.read = m
    BY <1>1, <1>2, <1>3, <2>3 DEF CheckType
  <2> QED
    BY <1>4, <2>3, <2>4 DEF Inv, BuildTimely
<1>5. CASE redisCheck.at # "attest"
  <2>1. m = redisCheck.read
    BY <1>5
  <2> HIDE DEF m, n
  <2>2. /\ redisCheck' \in CheckType /\ redisCheck'.at = redisCheck.at /\ redisCheck'.ok = redisCheck.ok
        /\ redisCheck'.found = redisCheck.found /\ redisCheck'.read = redisCheck.read
    BY <1>1, <1>2, <1>3, <2>1 DEF CheckType
  <2> QED
    BY <1>5, <2>2 DEF Inv, BuildTimely
<1> QED
  BY <1>4, <1>5

LEMMA TickProof ==
  ASSUME Inv, RedisTick
  PROVE  /\ ProofTimely'
         /\ pinned[client] = topology => drift' = 0
         /\ redisCheck.at # "compare"
         /\ distributed /\ OwnRevision => drift' <= probed' + CheckLimit
<1>1. /\ attested' = Aged(attested, CatalogMaxAge) /\ redisEvidence' = Aged(redisEvidence, AttestedLimit)
      /\ probed' = IF distributed THEN Aged(probed, TopologyMaxAge) ELSE 0
      /\ drift' = IF pinned[client] = topology THEN 0 ELSE Aged(drift, DriftLimit)
      /\ RedisCheckWaits
  BY DEF RedisTick
<1>2. /\ attested \in Nat /\ attested <= CatalogMaxAge + 1 /\ redisEvidence \in Nat
      /\ redisEvidence <= AttestedLimit + 1 /\ probed \in Nat /\ probed <= TopologyMaxAge + 1
      /\ drift \in Nat /\ drift <= DriftLimit + 1 /\ redisEvidence <= attested + CheckLimit
  BY Typed, Limits DEF Inv, ProofTimely
<1>3. attested' \in Nat /\ attested' <= CatalogMaxAge + 1 /\ (attested' = attested + 1 \/ attested' = CatalogMaxAge + 1)
  BY <1>1, <1>2, Limits DEF Aged
<1>4. redisEvidence' \in Nat /\ redisEvidence' <= AttestedLimit + 1 /\ redisEvidence' <= redisEvidence + 1
  BY <1>1, <1>2, Limits DEF Aged
<1>5. redisEvidence' <= attested' + CheckLimit
  <2>1. CASE attested' = attested + 1
    <3>1. redisEvidence' <= (attested + CheckLimit) + 1
      BY <1>2, <1>4, Limits
    <3>2. (attested + CheckLimit) + 1 = (attested + 1) + CheckLimit
      BY <1>2, Limits
    <3> QED
      BY <2>1, <3>1, <3>2
  <2>2. CASE attested' = CatalogMaxAge + 1
    <3>1. AttestedLimit + 1 = (CatalogMaxAge + 1) + CheckLimit
      BY Limits
    <3> QED
      BY <1>4, <2>2, <3>1
  <2> QED
    BY <1>3, <2>1, <2>2
<1>6. /\ Aged(drift, DriftLimit) \in Nat /\ Aged(drift, DriftLimit) <= DriftLimit + 1
      /\ Aged(drift, DriftLimit) <= drift + 1
  BY <1>2, Limits, AgedIs
<1>7. drift' \in Nat /\ drift' <= DriftLimit + 1 /\ drift' <= drift + 1
  BY <1>1, <1>2, <1>6, Limits
<1>8. /\ Aged(probed, TopologyMaxAge) \in Nat /\ Aged(probed, TopologyMaxAge) <= TopologyMaxAge + 1
      /\ \/ Aged(probed, TopologyMaxAge) = probed + 1
         \/ Aged(probed, TopologyMaxAge) = TopologyMaxAge + 1
  BY <1>2, Limits DEF Aged
<1>9. probed' \in Nat /\ probed' <= TopologyMaxAge + 1
  BY <1>1, <1>8, Limits
<1>10. ProofTimely'
  <2>1. /\ attested' \in 0..(CatalogMaxAge + 1) /\ probed' \in 0..(TopologyMaxAge + 1)
        /\ redisEvidence' \in 0..(AttestedLimit + 1) /\ drift' \in 0..(DriftLimit + 1)
    BY <1>3, <1>4, <1>7, <1>9, Limits
  <2> QED
    BY <1>5, <2>1 DEF ProofTimely
<1>11. ASSUME distributed, OwnRevision
       PROVE  drift' <= probed' + CheckLimit
  <2>1. probed' = Aged(probed, TopologyMaxAge)
    BY <1>1, <1>11
  <2>2. probed' = probed + 1 \/ probed' = TopologyMaxAge + 1
    BY <1>8, <2>1
  <2>3. drift <= probed + CheckLimit
    BY <1>11 DEF Inv, Follows
  <2> QED
    BY <1>2, <1>7, <2>2, <2>3, Limits
<1>12. redisCheck.at # "compare" /\ (pinned[client] = topology => drift' = 0)
  BY <1>1 DEF RedisCheckWaits
<1> QED
  BY <1>10, <1>11, <1>12

LEMMA TickKeeps == ASSUME Inv, RedisTick PROVE Inv'
<1>1. UNCHANGED <<mode, topology, redisLife, client, policy, pinned, open, revision, redisHealthy, redisReaders, redisWriter, command>>
  BY DEF RedisTick, installed, lock, outside
<1>2. /\ redisCheck' \in CheckType /\ BuildTimely'
      /\ redisCheck'.at = redisCheck.at /\ redisCheck'.ok = redisCheck.ok /\ redisCheck'.found = redisCheck.found
  BY TickBuild
<1>3. redisDue' \in BOOLEAN /\ redisSince' \in 0..(ProbeInterval - 1)
  <2>1. redisSince \in Nat /\ ProbeInterval \in Nat /\ ProbeInterval > 0
    BY Limits DEF Inv, Types
  <2>2. (redisSince + 1) % ProbeInterval \in 0..(ProbeInterval - 1)
    BY <2>1
  <2>3. redisSince' = (redisSince + 1) % ProbeInterval /\ redisDue' = (redisDue \/ redisSince + 1 = ProbeInterval)
    BY DEF RedisTick
  <2> QED
    BY <2>2, <2>3 DEF Inv, Types
<1>4. Types'
  BY <1>1, <1>2, <1>3 DEF Inv, Types
<1>5. Lock'
  BY <1>1, <1>2 DEF Inv, Lock, Reads
<1>6. Pair'
  BY <1>1, <1>2 DEF Inv, Pair, Building
<1>7. Follows'
  BY <1>1, <1>2, TickProof DEF Follows, NoDrift, OwnRevision, distributed
<1> QED
  BY <1>2, <1>4, <1>5, <1>6, <1>7, TickProof DEF Inv

-----------------------------------------------------------------------------
(* The invariant, and what it says of every state.                         *)

LEMMA InvInit == ASSUME RedisInit PROVE Inv
<1>1. /\ mode \in Modes /\ topology \in 0..MaxTopology
      /\ revision \in {topology, Unknown}
      /\ client = 0 /\ policy = 0 /\ open = {0} /\ redisHealthy = TRUE /\ attested = 0 /\ probed = 0
      /\ redisReaders = {} /\ redisWriter = "none" /\ command = [c \in Commands |-> NoCommand]
      /\ redisCheck = NoCheck /\ redisDue = FALSE /\ redisSince = 0 /\ redisLife = "open"
      /\ redisEvidence = 0 /\ drift = 0
  BY DEF RedisInit, NoCommand
<1>2. PICK built \in 0..MaxTopology :
        /\ built = topology \/ distributed
        /\ pinned = [g \in Generations |-> built]
  BY DEF RedisInit
<1>3. /\ NoCommand \in CallType /\ NoCommand.at = "idle" /\ 0 \in Generations
      /\ NoCheck \in CheckType /\ NoCheck.at = "idle" /\ NoCheck.found = Unknown
      /\ NoCheck.ok = FALSE /\ NoCheck.read = 0
  BY Zeros, NoCheckIs DEF NoCommand, CallType, Generations
<1>4. pinned \in [Generations -> 0..MaxTopology] /\ pinned[client] = built
  BY <1>1, <1>2, <1>3
<1>5. Types
  <2>1. 0 \in 0..(ProbeInterval - 1) /\ revision \in Unknown..MaxTopology
    BY <1>1, Zeros, Limits
  <2>2. command \in [Commands -> CallType]
    BY <1>1, <1>3
  <2> QED
    BY <1>1, <1>3, <1>4, <2>1, <2>2 DEF Types
<1>6. Lock /\ Pair /\ BuildTimely
  <2>1. ~Building
    BY <1>1, <1>3 DEF Building
  <2> QED
    BY <1>1, <1>3, <2>1 DEF Lock, Reads, Pair, BuildTimely
<1>7. ProofTimely
  BY <1>1, Limits DEF ProofTimely
<1>8. Follows
  <2>1. 0 <= 0 + CheckLimit
    BY Limits
  <2> QED
    BY <1>1, <1>3, <2>1 DEF Follows, NoDrift
<1> QED
  BY <1>5, <1>6, <1>7, <1>8 DEF Inv

LEMMA InvStep == ASSUME Inv, [RedisNext]_redisVars PROVE Inv'
<1>1. ASSUME NEW c \in Commands, CommandStep(c) PROVE Inv'
  BY <1>1, CallStepKeeps
<1>2. CASE RedisCheckStep
  BY <1>2, CheckBeginsKeeps, CheckAcquiresKeeps, CheckProbesKeeps, CheckComparesKeeps,
     CheckBuildsKeeps, CheckEndedKeeps, CheckFailsKeeps, InstallKeeps, InstallFailureKeeps DEF RedisCheckStep
<1>3. CASE RedisCloseStops \/ RedisCloseReturns
  BY <1>3, CloseKeeps
<1>4. CASE Failover
  BY <1>4, FailoverKeeps
<1>5. CASE RedisTick
  BY <1>5, TickKeeps
<1>6. CASE UNCHANGED redisVars
  BY <1>6 DEF redisVars, Inv, Types, Lock, Reads, Pair, Building, BuildTimely, ProofTimely, Follows, NoDrift, OwnRevision, distributed
<1> QED
  BY <1>1, <1>2, <1>3, <1>4, <1>5, <1>6 DEF RedisNext

(* The inductive invariant holds in every reachable state.                 *)
LEMMA InvHolds == RedisSpec => []Inv
<1>1. RedisInit => Inv
  BY InvInit
<1>2. Inv /\ [RedisNext]_redisVars => Inv'
  BY InvStep
<1> QED
  BY <1>1, <1>2, PTL DEF RedisSpec

(* In every reachable state the variables have their types: no check runs  *)
(* longer than its context and the exchange that may outlast it.           *)
THEOREM RedisTypeCorrect == RedisSpec => []RedisTypeOK
<1>1. Inv => RedisTypeOK
  <2> SUFFICES ASSUME Inv PROVE RedisTypeOK
    OBVIOUS
  <2> QED
    BY DEF Inv, Types, Lock, Pair, ProofTimely, RedisTypeOK, CallType, CheckType, CheckPlaces
<1> QED
  BY <1>1, InvHolds, PTL

(* A running command keeps one matching pair of client and policy, and its *)
(* client stays open until the target is closed.                           *)
THEOREM CommandsKeepTheirPair == RedisSpec => []RunsOnPair
<1>1. Inv => RunsOnPair
  BY DEF Inv, Pair, RunsOnPair, CommandRunning
<1> QED
  BY <1>1, InvHolds, PTL

-----------------------------------------------------------------------------
(* A command starts only as its second look at health succeeds.            *)

LEMMA StartsIs ==
  ASSUME Inv, [RedisNext]_redisVars, NEW c \in Commands, CommandStarts(c)
  PROVE  requireRedisHealthy
<1>1. command[c].at # "run" /\ command'[c].at = "run" /\ command \in [Commands -> CallType]
  BY DEF CommandStarts, CommandRunning, Inv, Types
<1>2. ASSUME NEW d \in Commands, CommandStep(d) PROVE requireRedisHealthy
  <2>1. CASE \E k : command' = [command EXCEPT ![d] = k] /\ k.at # "run"
    BY <1>1, <2>1
  <2>2. CASE CommandReturns(d)
    BY <1>1, <2>2 DEF CommandReturns
  <2>3. CASE CommandBegins(d)
    BY <1>1, <2>3 DEF CommandBegins
  <2>4. CASE CommandAcquires(d) /\ ~CommandReturns(d)
    BY <1>1, <2>4 DEF CommandAcquires, CommandGoto, CallType
  <2>5. CASE ClientRLock(d)
    BY <1>1, <2>5 DEF ClientRLock, CommandGoto, CallType
  <2>6. CASE CommandChecks(d) /\ ~CommandReturns(d)
    BY <2>6 DEF CommandChecks
  <2> QED
    BY <1>2, <2>2, <2>3, <2>4, <2>5, <2>6 DEF CommandStep, CommandRuns
<1>3. CASE RedisCheckStep \/ RedisCloseStops \/ RedisCloseReturns \/ Failover \/ RedisTick
  <2>1. command' = command
    BY <1>3 DEF RedisCheckStep, RedisCheckBegins, RedisCheckStops, RedisCheckAcquires, RedisCheckProbes, RedisCheckCompares,
       RedisCheckBuilds, RedisCheckEnded, RedisCheckFails, Install, InstallFailure, Retire, RedisCloseStops,
       RedisCloseReturns, Failover, RedisTick
  <2> QED
    BY <1>1, <2>1
<1>4. CASE UNCHANGED redisVars
  BY <1>1, <1>4 DEF redisVars
<1> QED
  BY <1>2, <1>3, <1>4 DEF RedisNext

(* No command starts on an attestation older than the catalog's maximum    *)
(* age and one check, not counting how long that check waited for          *)
(* clientMu, for which there is no bound (target.go:187-203, 260-279,      *)
(* 339-356).                                                               *)
THEOREM CommandsStartAttested == RedisSpec => RunsAttested
<1>1. Inv /\ [RedisNext]_redisVars =>
        [\A c \in Commands : CommandStarts(c) => redisEvidence <= AttestedLimit]_redisVars
  <2> SUFFICES ASSUME Inv, [RedisNext]_redisVars, NEW c \in Commands, CommandStarts(c)
               PROVE  redisEvidence <= AttestedLimit
    OBVIOUS
  <2>1. attested <= CatalogMaxAge
    BY StartsIs DEF requireRedisHealthy
  <2>2. redisEvidence <= attested + CheckLimit
    BY DEF Inv, ProofTimely
  <2> QED
    BY <2>1, <2>2, Typed, Limits
<1> QED
  BY <1>1, InvHolds, PTL DEF RedisSpec, RunsAttested

(* A target whose revision is that of its client's topology, or that has   *)
(* none, starts no command on a topology that was left longer ago than the *)
(* topology's maximum age and one check, not counting the wait for         *)
(* clientMu, in whatever order the deployment changes and changes back     *)
(* (target.go:304-321, 350-354).                                           *)
THEOREM OwnTopologyIsFollowed == RedisSpec => TopologyFollowed
<1>1. Inv /\ [RedisNext]_redisVars =>
        [\A c \in Commands :
            CommandStarts(c) /\ distributed /\ revision \in {Unknown, pinned[client]}
            => drift <= DriftLimit]_redisVars
  <2> SUFFICES ASSUME Inv, [RedisNext]_redisVars, NEW c \in Commands, CommandStarts(c),
                      distributed, revision \in {Unknown, pinned[client]}
               PROVE  drift <= DriftLimit
    OBVIOUS
  <2>1. probed <= TopologyMaxAge
    BY StartsIs DEF requireRedisHealthy
  <2>2. drift <= probed + CheckLimit
    BY DEF Inv, Follows, OwnRevision
  <2> QED
    BY <2>1, <2>2, Typed, Limits
<1> QED
  BY <1>1, InvHolds, PTL DEF RedisSpec, TopologyFollowed
=============================================================================
