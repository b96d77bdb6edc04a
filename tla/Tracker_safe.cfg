SPECIFICATION Spec
CONSTANTS
    h1 = h1
    h2 = h2
    NoHash = NoHash
    Hash = {h1, h2}
    Peer = {}
    Req = {}
    Del = {d1, d2, d3}
    Entries <- HybridOrV2
    PostBetween = FALSE
    OpenTracker = TRUE
    Expiry = 0
    PruneEvery = 1
    MaxCompleted = 1
    MaxFaults = 1
    MaxRestarts = 1

INVARIANT TakedownComplete
SYMMETRY Symmetric
