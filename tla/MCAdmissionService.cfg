SPECIFICATION ServiceSpec
CONSTANTS
    Waiters = {w1, w2, w3}
    Targets = {"a"}
    Requests <- Classes
    Global = 1
    PerTarget = 1
    MaxQueued = 2
    MetadataReserved = 0
    BatchMax = 1
    MaintenanceMax = 1
    NoWaiter = NoWaiter
    CountLimit = 6
INVARIANT WeightedService
PROPERTY EveryCallReturns
