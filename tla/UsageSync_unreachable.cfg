SPECIFICATION Spec
CONSTANTS
    User = {alice, bob}
    Deltas <- OneDelta
    DrainLimit = 1
    HubOutcomes = {"ok", "rejected", "unreachable"}
    HubConfigs = {TRUE}
    ShutdownTimeouts = FALSE
    Crashes = FALSE
    MaxCredits = 3
    MaxFaults = 0
    MaxRestarts = 1
INVARIANT ExitLosesNothing
CHECK_DEADLOCK FALSE
