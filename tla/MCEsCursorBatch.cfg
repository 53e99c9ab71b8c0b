SPECIFICATION Spec
CONSTANTS
    Cursors = {c1}
    Requests = {r1}
    Owners = {}
    Kinds = {"pit"}
    Keeps = {1}
    Charges = {1}
    MemoryLimit = 1
    SlotLimit = 1
    MaxOpenContexts = 1
    Lifetime = 1
    MaxTimeout = 1
    CleanupTimeout = 1
    MaxEpoch = 0
    MaxPages = 1
    Free = Free
    NoCursor = NoCursor
PROPERTIES CleansWithinDeadline
