SPECIFICATION FairSpec
CHECK_DEADLOCK FALSE
CONSTANTS
    Requests = {1, 2, 3}
    Params = {"small", "large"}
    FirstParams <- MCFirstParams
    MaxCalls = 1
    MayFail = {"create", "callback"}
INVARIANTS
    TypeOK
    ListsAreSound
    WaitingIsAttended
PROPERTIES
    AnsweredUnlessUpset
