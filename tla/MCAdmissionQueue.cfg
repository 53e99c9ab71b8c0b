SPECIFICATION Spec
CONSTANTS
    Waiters = {w1, w2, w3, w4}
    Targets = {"a"}
    Requests <- LiveRequests
    Global = 1
    PerTarget = 1
    MaxQueued = 2
    MetadataReserved = 0
    BatchMax = 1
    MaintenanceMax = 1
    NoWaiter = NoWaiter
INVARIANT QueueLengthBounded
