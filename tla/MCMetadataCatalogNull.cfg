\* Refuted by a refresh between the check and the second read of _cache.
SPECIFICATION BoundedSpec
CONSTANTS
    Callers = {c1, c2, c3}
    Third = c3
    Refreshers = {r1}
    TTL = 1
    Null = Null
    NoValue = NoValue
    MaxTime = 0
    MaxSchema = 1
    MaxRefreshes = 1
INVARIANTS
    NeverNull
