SPECIFICATION Spec
CONSTANTS
    StopSigs = {"SIGTERM"}
    MaxMissed = 1
INVARIANTS
    KilledByLaterSignal
    ReturnedIsQuiet
    OfflineHolds
PROPERTIES
    StopEnds
    SilentNoticed
CHECK_DEADLOCK FALSE
