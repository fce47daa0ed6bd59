SPECIFICATION SpecWorkers
CONSTANTS
    t1 = t1
    Ticket = {t1}
    Blockers <- Alone
    Caller <- Callers
    MaxParallel = 1
    MaxAttempts = 1
    MaxGen = 2
    MaxEpoch = 1
    WorkspaceLoss = TRUE
    MaxCrashes = 1
    StaleAnswers = FALSE
    RecoveryAuthFails = FALSE
    HostPressure = FALSE
CHECK_DEADLOCK FALSE
INVARIANTS
    WorkersTypeOK
    NoZombie
    ProofMeansGone
PROPERTIES
    AcceptedAloneInWorkspace
