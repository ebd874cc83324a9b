\* Refuted by a refresh while a reload is under way, which stores what it read before.
SPECIFICATION BoundedSpec
CONSTANTS
    Callers = {c1, c2, c3}
    Third = c3
    Refreshers = {r1}
    TTL = 1
    Null = Null
    NoValue = NoValue
    MaxTime = 0
    MaxSchema = 1
    MaxRefreshes = 1
INVARIANTS
    RefreshDropsCache
