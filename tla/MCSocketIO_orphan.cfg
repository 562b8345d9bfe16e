CONSTANTS
    t1 = t1
    t2 = t2
    all = all
    Tasks <- MCTasks
    NoTask = all
    Fds = {1, 2}
    Types = {"tcp"}
    RecvAnswers <- MCRecvAnswers
    SendAnswers <- MCSendAnswers
    ConnectAnswers = {"ok"}
    SoErrorAnswers = {"0"}
    UninitAttached = {TRUE}
    MaxCalls = 3
    MaxCreates = 1
    MaxRefs = 2
    PipeCapacity = 2
    AcceptAnswers = {"other"}
SPECIFICATION SpecDetachingFailedAccepts
SYMMETRY TaskSymmetry
INVARIANT
    WatcherStopsOnlyAtShutdown
CHECK_DEADLOCK FALSE
