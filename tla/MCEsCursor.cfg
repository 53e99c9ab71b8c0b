SPECIFICATION Spec
CONSTANTS
    Cursors = {c1}
    Requests = {r1, r2}
    Owners = {o1}
    Kinds = {"pit", "scroll", "sql"}
    Keeps = {1}
    Charges = {1}
    MemoryLimit = 1
    SlotLimit = 1
    MaxOpenContexts = 1
    Lifetime = 2
    MaxTimeout = 1
    CleanupTimeout = 1
    MaxEpoch = 0
    MaxPages = 2
    Free = Free
    NoCursor = NoCursor
INVARIANTS ContinuesInStep
PROPERTIES ImplementsContexts
SYMMETRY Calls
