SPECIFICATION LiveWorkers
CONSTANTS
    t1 = t1
    Ticket = {t1}
    Blockers <- Alone
    Caller <- Callers
    MaxParallel = 1
    MaxAttempts = 1
    MaxGen = 1
    MaxEpoch = 1
    WorkspaceLoss = TRUE
    MaxCrashes = 2
    StaleAnswers = FALSE
    RecoveryAuthFails = TRUE
    HostPressure = TRUE
CHECK_DEADLOCK FALSE
PROPERTIES
    EveryRunEnds
