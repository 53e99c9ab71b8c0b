SPECIFICATION FairSpec
CONSTANTS
    Cursors = {c1}
    Requests = {r1}
    Owners = {o1}
    Kinds = {"scroll"}
    Keeps = {1, 2}
    Charges = {1}
    MemoryLimit = 1
    SlotLimit = 1
    MaxOpenContexts = 1
    Lifetime = 3
    MaxTimeout = 1
    CleanupTimeout = 1
    MaxEpoch = 0
    MaxPages = 2
    Free = Free
    NoCursor = NoCursor
INVARIANTS NoOrphan LeaseWithinHorizon
PROPERTIES EveryReservationReturned
