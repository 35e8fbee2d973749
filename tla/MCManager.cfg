SPECIFICATION Spec
CONSTANTS
    ULongSize = 65536
    Strings <- MCStrings
    Procs <- MCProcs
    Scenarios <- MCScenarios
CHECK_DEADLOCK FALSE
INVARIANTS
    TypeOK
    ConfigurationIsMeant
    OneManager
    OrphanNeedsOverlap
PROPERTIES
    MonitorShowsState
