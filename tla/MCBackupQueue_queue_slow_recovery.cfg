SPECIFICATION QueueSpec

CONSTANTS
    timer = timer
    cli = cli
    ra = ra
    rb = rb
    Runners = {timer, cli}
    Repositories = {ra, rb}
    SlowRecovery = TRUE
    MaxSaves = 0
    MaxFailures = 1
    MaxDeaths = 0

INVARIANTS
    SnapshotUndisturbed

CHECK_DEADLOCK FALSE
