SPECIFICATION Spec
CONSTANTS
    t1 = t1
    t2 = t2
    poller = poller
    operator = operator
    Ticket = {t1}
    Blockers <- Alone
    Caller = {poller}
    MaxParallel = 1
    MaxAttempts = 2
    MaxGen = 4
    MaxEpoch = 2
    StaleAnswers = TRUE
    RecoveryAuthFails = TRUE
    HostPressure = TRUE
INVARIANTS
    OneLiveRun
