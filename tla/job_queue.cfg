SPECIFICATION FairSpec
CONSTANTS
    Jobs = {"first", "second", "third"}
    MaxWorkers = 3
    MaxDeferrals = 2
    Terminates = {TRUE, FALSE}
INVARIANTS
    SingleRunner
    QueuedJobWillBeSeen
    InOrderOnce
    NoUseAfterDestruction
PROPERTIES
    DeferralKeepsThread
    ImplementsJobService
    JobsBegin
    DestructorReturns
    InactiveThreadEnds
