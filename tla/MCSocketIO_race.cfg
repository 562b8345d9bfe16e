CONSTANTS
    t1 = t1
    t2 = t2
    all = all
    Tasks <- MCTasks
    NoTask = all
    Fds = {1, 2}
    Types = {"tcp"}
    RecvAnswers = {"again", "full"}
    SendAnswers = {"again", "full"}
    ConnectAnswers = {"ok"}
    SoErrorAnswers = {"0"}
    UninitAttached = {TRUE}
    MaxCalls = 1
    MaxCreates = 1
    MaxRefs = 1
    PipeCapacity = 8
    AcceptAnswers = {"ok"}
SPECIFICATION Spec
SYMMETRY TaskSymmetry
INVARIANT
    ShutdownQuiescent
CHECK_DEADLOCK FALSE
