CONSTANTS
    Client = {c1, c2}
    Worker = {}
    Quota <- MCQuota
    GraceDuration = 1
    GraceQuota = 1
    GraceMax = 1
    GraceCooldown = 1
    Day = 3
    AccessDuration = 1
    MaxAccess = 2
    MaxQuota = 2
    StartTime = 3
    MaxTime = 3
    MaxCharge = 2
    MaxOvershoot = 2
    MaxGrants = 1
    MaxRevokes = 1
    MaxTraffic = 1
    MaxRestarts = 0
SPECIFICATION Spec
SYMMETRY ClientSymmetry
INVARIANTS CycleSettles UsedWasCounted
PROPERTY TableSpec
