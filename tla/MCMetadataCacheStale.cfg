SPECIFICATION Spec
CONSTANTS
    Calls = {p1, p2, p3}
    Keys = {k1}
    MaxVersion = 1
    Size <- AllSmall
    Missing = {}
    MaxEntries = 1
    MaxBytes = 1
    TTL = 1
    NegativeTTL = 1
    FreshCooldown = 1
    NoCall = NoCall
PROPERTIES RefreshNeverStale
