CONSTANTS
    t1 = t1
    t2 = t2
    all = all
    Tasks <- MCTasks
    NoTask = all
    Fds = {1, 2}
    Types = {"tcp"}
    RecvAnswers <- MCRecvAnswers
    SendAnswers <- MCSendAnswers
    ConnectAnswers = {"ok", "inprogress", "refused", "other"}
    SoErrorAnswers = {"0", "inprogress", "timedout", "refused", "other"}
    UninitAttached = {TRUE}
    MaxCalls = 2
    MaxCreates = 1
    MaxRefs = 2
    PipeCapacity = 8
    AcceptAnswers = {"ok", "again", "other"}
SPECIFICATION FairSpec
INVARIANTS
    PendingMatchesQueuedEvent
    RecvWatched
    MaxfdCoversManaged
PROPERTIES
    QueueSpec
    DestroyedSocketClosed
    ShutdownCompletes
    RecvEventuallyDispatched
CHECK_DEADLOCK FALSE
