SPECIFICATION Spec

CONSTANTS
    r1 = r1
    r2 = r2
    r3 = r3
    u1 = u1
    u2 = u2
    Requests = {r1, r2}
    Users = {u1, u2}
    Owner <- Owners
    Large = {r1}
    Policies <- TwoModes
    QueueSize = 1
    BatchSize = 2
    Backlog = 1
    Monitored = FALSE
    MayStop = TRUE
    MaxChanges = 1
    MaxFailures = 1

INVARIANTS
    NoEventLost
    LogTellsOutcome
    NoLostWakeup
    NothingLostAtExit
