SPECIFICATION RestoreFairSpec

CONSTANTS
    Targets <- TargetsOf
    AutoHost = TRUE
    RecordFaults = {"preparing", "stopping", "starting", "rolled-back"}
    MaxFaults = 2
    MaxCrashes = 2

INVARIANTS
    RestoreTypeOK
    NoForeignSidecar
    NothingBeforeCommit
    ReportTruthful
    StuckIsConsistent

PROPERTIES
    AllOrNothing
    TransactionEnds

CHECK_DEADLOCK FALSE
