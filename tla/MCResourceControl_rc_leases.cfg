SPECIFICATION FairSpec

CONSTANTS
    r1 = r1
    r2 = r2
    r3 = r3
    u1 = u1
    u2 = u2
    Requests = {r1, r2, r3}
    Users = {u1, u2}
    Owner <- Owners
    Large = {}
    Policies <- OneLimit
    QueueSize = 1
    BatchSize = 2
    Backlog = 1
    Monitored = TRUE
    MayStop = FALSE
    MaxChanges = 2
    MaxFailures = 1

INVARIANTS
    LeasesLastAsLongAsWork
    WithinLimits
    IInv

PROPERTIES
    EventWritten
    LeasesEnd
