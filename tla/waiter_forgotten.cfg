SPECIFICATION FairSpec
CHECK_DEADLOCK FALSE
CONSTANTS
    Requests = {1, 2}
    Params = {"small", "large"}
    FirstParams <- MCFirstParams
    MaxCalls = 1
    MayFail = {}
PROPERTIES
    WaitersAreAnswered
