------------------------------- MODULE MCTargets ------------------------------
(***************************************************************************)
(* The targets whose requests rely on a proof that a maintenance goroutine *)
(* or a request renews: MySQL, PostgreSQL and SQL Server (SqlTarget),      *)
(* MongoDB, Qdrant and Neo4j (ProofClock), Redis (RedisTarget) and         *)
(* Elasticsearch (EsAuthority), and the sockets of an Elasticsearch target *)
(* (EsWire).  A behaviour is one of one of them; the others keep an        *)
(* initial state, in which their properties hold.                          *)
(***************************************************************************)
EXTENDS SqlTarget, ProofClock, RedisTarget, EsAuthority, EsWire, TLC

VARIABLE which

OneSql == engine = "mysql"
OneProof == dialect = "mongodb"
OneRedis == mode = "standalone" /\ topology = 0
OneEs == hash = CHOOSE a \in Authorities : TRUE

TargetsInit ==
    /\ Init /\ ProofInit /\ RedisInit /\ EsInit /\ WireInit
    /\ which \in {"sql", "proof", "redis", "elasticsearch", "wire"}
    /\ which # "sql" => OneSql
    /\ which # "proof" => OneProof
    /\ which # "redis" => OneRedis
    /\ which # "elasticsearch" => OneEs

TargetsNext ==
    \/ which = "sql" /\ Next /\ UNCHANGED <<which, proofVars, redisVars, esVars, wireVars>>
    \/ which = "proof" /\ ProofNext /\ UNCHANGED <<which, vars, redisVars, esVars, wireVars>>
    \/ which = "redis" /\ RedisNext /\ UNCHANGED <<which, vars, proofVars, esVars, wireVars>>
    \/ /\ which = "elasticsearch" /\ EsNext
       /\ UNCHANGED <<which, vars, proofVars, redisVars, wireVars>>
    \/ which = "wire" /\ WireNext /\ UNCHANGED <<which, vars, proofVars, redisVars, esVars>>

TargetsSpec ==
    TargetsInit /\ [][TargetsNext]_<<which, vars, proofVars, redisVars, esVars, wireVars>>

Symmetry == Permutations(Requests)
=============================================================================
