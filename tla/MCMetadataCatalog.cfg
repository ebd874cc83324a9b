\* A refresh among two requests, three to queue: every interleaving of the
\* field accesses, and progress.
SPECIFICATION BoundedSpec
CONSTANTS
    Callers = {c1, c2, c3}
    Third = c3
    Refreshers = {r1}
    TTL = 1
    Null = Null
    NoValue = NoValue
    MaxTime = 2
    MaxSchema = 1
    MaxRefreshes = 1
INVARIANTS
    TypeOK
    GateInv
    SingleReload
    ReloadOnlyWhenStale
    FreshWhenTaken
    CallsSeeNewerSchema
    NullOnlyAcrossRefresh
PROPERTIES
    CallsReturn
