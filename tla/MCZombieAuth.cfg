SPECIFICATION SpecWorkers
CONSTANTS
    t1 = t1
    Ticket = {t1}
    Blockers <- Alone
    Caller <- Callers
    MaxParallel = 1
    MaxAttempts = 1
    MaxGen = 1
    MaxEpoch = 1
    WorkspaceLoss = FALSE
    MaxCrashes = 0
    StaleAnswers = FALSE
    RecoveryAuthFails = TRUE
    HostPressure = FALSE
CHECK_DEADLOCK FALSE
INVARIANTS
    NoZombie
