CONSTANTS
    Client = {c1}
    Quota <- MCQuota
    GraceDuration = 1
    GraceQuota = 1
    GraceMax = 2
    GraceCooldown = 2
    Day = 6
    AccessDuration = 2
    MaxAccess = 3
    MaxQuota = 3
    StartTime = 6
    MaxTime = 16
    MaxCharge = 2
    MaxOvershoot = 1
    MaxGrants = 4
SPECIFICATION Spec
INVARIANTS TypeOK GraceWindow CooldownRespected StackingBounded
PROPERTIES PaymentNeverTakesAway
