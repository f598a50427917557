SPECIFICATION FairDispatcherSpec
CONSTANTS
    MaxPosts = 3
    MaxCalls = 2
    MaxDepth = 4
    NestedPauses = TRUE
    ModalLoops = TRUE
INVARIANTS
    WorkHasATrigger
    GuardMatchesStack
    DrainRunsAllWork
PROPERTIES
    DispatchedIfModalLoopsEnd
