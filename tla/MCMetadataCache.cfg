SPECIFICATION Spec
CONSTANTS
    Calls = {p1, p2}
    Keys = {k1, k2}
    MaxVersion = 2
    Size <- Growing
    Missing = {1}
    MaxEntries = 2
    MaxBytes = 3
    TTL = 2
    NegativeTTL = 1
    FreshCooldown = 1
    NoCall = NoCall
SYMMETRY Symmetric
INVARIANTS TypeOK CacheBounded SingleFlight
PROPERTIES MonotonicReads
