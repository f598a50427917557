SPECIFICATION Spec
CHECK_DEADLOCK FALSE
CONSTANTS
    Requests = {r1, r2}
    NoRequest = NoRequest
INVARIANTS
    DestroyedOnMainThread
