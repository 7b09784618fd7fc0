CONSTANTS
    Chain = {"base", "polygon"}
    DefaultChain = "base"
    Worker = {1}
    PollInterval = 1
    PollMax = 2
    FetchTimeout = 2
    StatusInterval = 1
    RedirectDelay = 1
    GraceDuration = 1
    GraceCooldown = 14
    PendingDuration = 14
    Confirming = 1
    Ttl = 1
    Cycle = 0
    MaxFaults = 1
SPECIFICATION FairSpec
INVARIANTS TypeOK
PROPERTIES LostOnlyLate Told
