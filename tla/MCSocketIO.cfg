CONSTANTS
    t1 = t1
    t2 = t2
    all = all
    Tasks <- MCTasks
    NoTask = all
    Fds = {1}
    Types = {"tcp", "udp"}
    RecvAnswers <- MCRecvAnswers
    SendAnswers <- MCSendAnswers
    ConnectAnswers = {"ok", "inprogress", "refused", "other"}
    SoErrorAnswers = {"0", "inprogress", "refused"}
    UninitAttached = {TRUE}
    MaxCalls = 2
    MaxCreates = 2
    MaxRefs = 2
    PipeCapacity = 1
    AcceptAnswers = {}
SPECIFICATION Spec
SYMMETRY TaskSymmetry
INVARIANTS
    TypeOK
    NoUseAfterFree
    PendingMatchesQueuedEvent
    WatchedFdsOpen
    RecvWatched
    CompletionFIFO
    StickyResultReplayed
    ShutdownQuiescent
    MCRecvIovecsWithinArray
    MCRecvKeepsWhatKernelWrote
    MCDatagramDelivered
    MCSendResumesAfterSent
    MCDoIOAbstractsBytes
CHECK_DEADLOCK FALSE
