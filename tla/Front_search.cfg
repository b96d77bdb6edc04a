SPECIFICATION FSpec
CONSTANTS
    IP = {i1, i2, i3}
    Rate = 3
    Burst = 3
    Cost = 2
    MaxIPs = 2
    MaxTime = 1
    MaxRequests = 5
    Hash = {h1, h2, h3}
    DefaultLimit = 1
    MaxLimit = 2
    ScanCap = 2
    Wants = {0, 3}
    Starts <- SmallStarts
    MaxChanges = 1
SYMMETRY Symmetric
CHECK_DEADLOCK FALSE
INVARIANT WithinBudget
INVARIANT PagesExact
INVARIANT NoRowMissed
