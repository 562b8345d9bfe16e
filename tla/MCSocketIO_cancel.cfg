CONSTANTS
    t1 = t1
    t2 = t2
    all = all
    Tasks <- MCTasks
    NoTask = all
    Fds = {1}
    Types = {"tcp", "udp"}
    RecvAnswers <- MCRecvAnswers
    SendAnswers <- MCSendAnswers
    ConnectAnswers = {"ok", "inprogress", "refused", "other"}
    SoErrorAnswers = {"0", "inprogress", "timedout", "refused", "other"}
    UninitAttached = {TRUE}
    MaxCalls = 3
    MaxCreates = 2
    MaxRefs = 2
    PipeCapacity = 2
    AcceptAnswers = {}
SPECIFICATION Spec
SYMMETRY TaskSymmetry
INVARIANT
    ConnectingIffConnectEv
CHECK_DEADLOCK FALSE
