SPECIFICATION LiveSpec
CONSTANTS
    t1 = t1
    t2 = t2
    poller = poller
    operator = operator
    Ticket = {t1, t2}
    Blockers <- Chain
    Caller = {poller}
    MaxParallel = 1
    MaxAttempts = 1
    MaxGen = 2
    MaxEpoch = 1
    StaleAnswers = FALSE
    RecoveryAuthFails = TRUE
    HostPressure = TRUE
INVARIANTS
    BlockersDelivered
PROPERTIES
    LapsedRunsAreRecovered
