CONSTANTS
    Client = {c1}
    Worker = {w1}
    Quota <- MCQuota
    GraceDuration = 1
    GraceQuota = 1
    GraceMax = 1
    GraceCooldown = 1
    Day = 3
    AccessDuration = 1
    MaxAccess = 2
    MaxQuota = 3
    StartTime = 3
    MaxTime = 5
    MaxCharge = 2
    MaxOvershoot = 2
    MaxGrants = 1
    MaxRevokes = 0
    MaxTraffic = 2
    MaxRestarts = 1
SPECIFICATION Spec
PROPERTY IndexExpiresOnlyLapsed
