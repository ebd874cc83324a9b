\* One page, two requests, two rows and keys: races, retries, crashes; and every
\* request ends.
SPECIFICATION OrderedSpec
CONSTANTS
    Users = {u1}
    Requests = {1, 2}
    Rows = {3, 4}
    Keys = {1, 2}
    Absent = Absent
    None = None
    NoToken = NoToken
INVARIANTS
    TypeOK
    TokenSpentOnce
    StatementStillHolds
    ConflictIsReal
    AnswerIsTrue
    AuditIsTrue
PROPERTIES
    PromiseKept
    RequestsSettle
CHECK_DEADLOCK FALSE
