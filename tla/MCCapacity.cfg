SPECIFICATION Spec
CONSTANTS
    t1 = t1
    t2 = t2
    poller = poller
    operator = operator
    Ticket = {t1, t2}
    Blockers <- Independent
    Caller = {poller}
    MaxParallel = 1
    MaxAttempts = 1
    MaxGen = 3
    MaxEpoch = 1
    StaleAnswers = FALSE
    RecoveryAuthFails = FALSE
    HostPressure = TRUE
CONSTRAINT
    Lopsided
INVARIANTS
    WithinCapacity
