SPECIFICATION FairSpec
CONSTANTS
    a1 = a1
    a2 = a2
    a3 = a3
    a4 = a4
    PieceCount = 3
    Worker = {w1, w2}
    Addr = {a1, a2, a3, a4}
    Seeds <- TwoSeeds
    Pex = {a3, a4}
    PoolCap = 2
    Confirms = 2
    DiskFails = TRUE
    UserCancels = TRUE
    PromptWorkers = TRUE
INVARIANT InFlightExact
INVARIANT OneToken
INVARIANT NoLeak
PROPERTY ExhaustedSound
PROPERTY ImplementsFetch
