SPECIFICATION RedisSpec
CONSTANTS
    Commands = {c1, c2}
    Modes = {"standalone", "sentinel", "cluster"}
    MaxTopology = 1
    ProbeInterval = 1
    ACLRecheck = 6
    CatalogMaxAge = 6
    TopologyMaxAge = 1
    BuildTimeout = 1
    IOTimeout = 1
PROPERTIES StaleTopologyUnused
SYMMETRY Symmetry
