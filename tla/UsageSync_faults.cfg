SPECIFICATION Spec
CONSTANTS
    User = {alice, bob}
    Deltas <- OneDelta
    DrainLimit = 2
    HubOutcomes = {"ok", "rejected", "unreachable", "replyLost"}
    HubConfigs = {TRUE, FALSE}
    ShutdownTimeouts = TRUE
    Crashes = TRUE
    MaxCredits = 4
    MaxFaults = 2
    MaxRestarts = 1
SYMMETRY Perms
INVARIANT TypeOK
INVARIANT PayloadCovered
INVARIANT RowsInFlight
INVARIANT NoEmptyEntry
INVARIANT Conservation
CHECK_DEADLOCK FALSE
