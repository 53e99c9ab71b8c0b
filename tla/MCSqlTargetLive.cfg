SPECIFICATION FairSpec
CONSTANTS
    Requests = {r1, r2}
    Engines = {"mysql", "postgresql"}
    Interval = 1
    CheckTimeout = 1
    MaxTimeout = 1
    TTL = 0
    PerTarget = 2
PROPERTIES EveryCallReturns CloseEnds
