SPECIFICATION FairSpec
CHECK_DEADLOCK FALSE
CONSTANTS
    Tasks <- MCTasks
    NoTask = NoTask
    RequestId <- MCRequestId
    Threads = {ui, pool1, pool2}
    UIThread = ui
    PostMayFail = TRUE
INVARIANTS
    TasksHaveACallback
PROPERTIES
    ImplementsTaskQueue
    TasksFinish
