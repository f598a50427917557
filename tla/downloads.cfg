SPECIFICATION FairSpec
CHECK_DEADLOCK FALSE
CONSTANTS
    Requests = {r1, r2}
    NoRequest = NoRequest
INVARIANTS
    DeferralsGoFirst
PROPERTIES
    KeepsToJobService
    AnsweredOnce
    RequestsEnd
