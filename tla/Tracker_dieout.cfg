SPECIFICATION FairSpec
CONSTANTS
    h1 = h1
    h2 = h2
    NoHash = NoHash
    Hash = {h2}
    Peer = {p1}
    Req = {r1}
    Del = {d1}
    Entries <- V2Only
    PostBetween = TRUE
    OpenTracker = FALSE
    Expiry = 0
    PruneEvery = 1
    MaxCompleted = 0
    MaxFaults = 1
    MaxRestarts = 1
INVARIANT BlockedRejected
INVARIANT FreshPeers
INVARIANT CrashLosesRecent
PROPERTY BlockedDiesOut
