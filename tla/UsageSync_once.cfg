SPECIFICATION FairSpec
CONSTANTS
    User = {alice, bob}
    Deltas <- TwoDeltas
    DrainLimit = 1
    HubOutcomes = {"ok", "rejected"}
    HubConfigs = {TRUE}
    ShutdownTimeouts = FALSE
    Crashes = FALSE
    MaxCredits = 3
    MaxFaults = 0
    MaxRestarts = 1
PROPERTY ExactlyOnce
PROPERTY ShutdownCompletes
PROPERTY AllDelivered
CHECK_DEADLOCK FALSE
