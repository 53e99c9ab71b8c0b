SPECIFICATION Spec
CONSTANTS
    Waiters = {w1, w2, w3, w4}
    Targets = {"a", "b"}
    Requests <- MixedRequests
    Global = 2
    PerTarget = 1
    MaxQueued = 2
    MetadataReserved = 1
    BatchMax = 1
    MaintenanceMax = 1
    NoWaiter = NoWaiter
SYMMETRY Symmetry
INVARIANTS
    TypeOK
    CapacityAccounted
    CeilingsRespected
    WaitersQueuedOnce
    WorkConserving
    BoundedWaiting
    CanceledNeverGranted
PROPERTIES
    ReserveKept
    FifoPerTarget
    ImplementsPermits
