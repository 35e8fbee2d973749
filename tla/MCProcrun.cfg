SPECIFICATION Spec
CONSTANTS
    ScmStops = {"s1"}
    ConsoleStops = {"c1", "c2"}
    Configs <- MCConfigs
INVARIANTS
    TypeOK
    StoppedMeansOver
    EndIsReported
    StopOutlivesNothing
    RecoveryIsLeft
PROPERTIES
    StatusMovesForward
    
