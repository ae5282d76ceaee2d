SPECIFICATION QueueFairSpec

CONSTANTS
    timer = timer
    cli = cli
    ra = ra
    rb = rb
    Runners = {timer, cli}
    Repositories = {ra, rb}
    SlowRecovery = FALSE
    MaxSaves = 1
    MaxFailures = 1
    MaxDeaths = 1

INVARIANTS
    JobUsesCurrentSettings
    ManagerComesBack
    SnapshotUndisturbed

PROPERTIES
    RequestTaken

CHECK_DEADLOCK FALSE
