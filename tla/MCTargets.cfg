SPECIFICATION TargetsSpec
CONSTANTS
    Requests = {c1, c2}
    Engines = {"mysql", "postgresql", "sqlserver"}
    Interval = 1
    CheckTimeout = 2
    MaxTimeout = 1
    TTL = 1
    PerTarget = 2
    Readers = {c1, c2}
    Dialects = {"mongodb", "qdrant", "neo4j"}
    ProofInterval = 2
    ProofTimeout = 2
    ReadTimeout = 1
    Commands = {k1}
    Modes = {"standalone", "sentinel"}
    MaxTopology = 1
    ProbeInterval = 1
    ACLRecheck = 3
    CatalogMaxAge = 3
    TopologyMaxAge = 1
    BuildTimeout = 1
    IOTimeout = 1
    Callers = {c1, c2}
    Authorities = {1, 2}
    AuthorityRecheck = 2
    ConnectTimeout = 1
    RequestTimeout = 1
    Conns = {"s1", "s2"}
    Calls = {c1, c2}
    Hosts = {"a", "b"}
    MaxOpen = 1
    MaxIdle = 1
    NoUser = NoUser
INVARIANTS
    RunsUnrefuted CachedProved
    ReadsProved RefusedUntilProved
    RunsOnPair
    AuthorityTypeOK DispatchProved LapseClosesHandles
    SocketsBounded
PROPERTIES
    StartsUnrefuted StartsProved BatchPolicyRecent
    RunsAttested TopologyFollowed
SYMMETRY Symmetry
