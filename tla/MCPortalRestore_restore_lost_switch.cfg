SPECIFICATION RestoreFairSpec

CONSTANTS
    Targets <- TargetsOf
    AutoHost = TRUE
    RecordFaults = {"switching"}
    MaxFaults = 2
    MaxCrashes = 2

PROPERTIES
    AllOrNothing

CHECK_DEADLOCK FALSE
