SPECIFICATION Spec
CONSTANTS
    Cursors = {c1, c2}
    Requests = {r1, r2}
    Owners = {}
    Kinds = {"pit"}
    Keeps = {1}
    Charges = {1, 2}
    MemoryLimit = 3
    SlotLimit = 2
    MaxOpenContexts = 1
    Lifetime = 1
    MaxTimeout = 1
    CleanupTimeout = 1
    MaxEpoch = 1
    MaxPages = 0
    Free = Free
    NoCursor = NoCursor
INVARIANTS TypeOK BudgetExact
PROPERTIES ImplementsContexts
SYMMETRY All
